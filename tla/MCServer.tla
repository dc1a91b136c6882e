------------------------------ MODULE MCServer ------------------------------
(***************************************************************************)
(* The server for TLC: accounts, billing, analysis and readiness, which    *)
(* share no state.  A behaviour is of one of them (`looked`), while the    *)
(* others rest in an initial state.                                        *)
(***************************************************************************)
EXTENDS Sessions, Billing, AnalysisJobs, Readiness, TLC

VARIABLE looked

serverVars == <<sessionVars, billingVars, analysisVars, readinessVars, looked>>

\* Two subscriptions of one customer with the App Store, and one elsewhere.
SoldBy == <<"apple", "apple", "google", "stripe">>

PublicLink == [wellFormed |-> TRUE, scheme |-> "https", credentials |-> FALSE,
               host |-> [kind |-> "name"], extension |-> "none"]

\* An address that ends like a media file, one that does not, and one that is
\* not looked up.
Parsed == [l \in Links |->
  CASE l = "file" -> [PublicLink EXCEPT !.extension = "video"]
    [] l = "local" -> [PublicLink EXCEPT !.host = [kind |-> "localName"]]
    [] OTHER -> PublicLink]

OpenPage == [answers |-> TRUE, status |-> "ok", type |-> "html", paywallFlag |-> FALSE,
             drmMarker |-> FALSE, license |-> [form |-> "spdx", id |-> "CC-BY-4.0"]]

SilentOrigin == [OpenPage EXCEPT !.answers = FALSE]

Shown == {OpenPage, [OpenPage EXCEPT !.drmMarker = TRUE], [OpenPage EXCEPT !.paywallFlag = TRUE],
          [OpenPage EXCEPT !.status = "auth"], [OpenPage EXCEPT !.status = "pay"],
          [OpenPage EXCEPT !.type = "video"], SilentOrigin}

ShownOrNot == {OpenPage, SilentOrigin}

InitServer == InitSessions /\ InitBilling /\ InitAnalysis /\ InitReadiness

RestSessions == UNCHANGED <<durable, users, tokens, minted, known, handlers, access, sessionHistory>>
RestBilling == UNCHANGED <<store, events, held, redeems, raced>>
RestReadiness == UNCHANGED <<dependency, calls, checks, timers, reports, vouched>>

\* Where a component rests, one of its initial states will do.
OneRest(component) ==
  /\ component # "sessions" => ~durable
  /\ component # "analysis" => ~queued /\ origin = [l \in Links |-> OpenPage]
  /\ component # "readiness" => dependency = [i \in Indicators |-> "up"]

NextServer ==
  /\ UNCHANGED looked
  /\ \/ looked = "sessions" /\ NextSessions /\ RestBilling /\ UNCHANGED analysisVars /\ RestReadiness
     \/ looked = "billing" /\ NextBilling /\ RestSessions /\ UNCHANGED analysisVars /\ RestReadiness
     \/ looked = "analysis" /\ NextAnalysis /\ RestSessions /\ RestBilling /\ UNCHANGED readinessVars
     \/ looked = "readiness" /\ NextReadiness /\ RestSessions /\ RestBilling /\ UNCHANGED analysisVars

SafetyInit == looked \in {"sessions", "billing", "analysis"} /\ InitServer /\ OneRest(looked)

SafetySpec == SafetyInit /\ [][NextServer]_serverVars

LivenessInit == looked \in {"analysis", "readiness"} /\ InitServer /\ OneRest(looked)

\* What rests takes no step, so its fairness asks for nothing.
LivenessSpec ==
  /\ LivenessInit /\ [][NextServer]_serverVars
  /\ looked = "analysis" => FairAnalysis
  /\ looked = "readiness" => FairReadiness

\* Requests of any kind are handlers of one name; accounts differ in what they
\* hold only.
Interchangeable == Permutations(Handlers) \cup Permutations(Users)
=============================================================================
