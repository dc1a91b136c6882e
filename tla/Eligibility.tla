---------------------------- MODULE Eligibility ----------------------------
(***************************************************************************)
(* The Eligibility Engine (modules/eligibility/domain): what it decides    *)
(* about one link from the facts gathered about it.  It keeps no state.    *)
(*                                                                         *)
(* A link is what new URL() makes of it; its host is a name, an IPv4       *)
(* literal with its four numbers or an IPv6 literal.  A list of formats is *)
(* its length.  Messages and restrictions are left out.                    *)
(***************************************************************************)
EXTENDS Integers, Sequences

------------------------------------------------------------------------------
(* url-safety.ts *)

\* Loopback, private, link-local, CGNAT, "this network", multicast and
\* reserved addresses, and numbers that are no octets.
IsBlockedIPv4(a, b, c, d) ==
  \/ a > 255 \/ b > 255 \/ c > 255 \/ d > 255
  \/ a \in {0, 10, 127}
  \/ a = 100 /\ b \in 64..127
  \/ a = 169 /\ b = 254
  \/ a = 172 /\ b \in 16..31
  \/ a = 192 /\ b = 168
  \/ a >= 224

\* An IPv4-mapped address in the form Node's parser gives it, two groups of
\* 16 bits, is judged by its octets.
IsBlockedMapped(high, low) ==
  IsBlockedIPv4(high \div 256, high % 256, low \div 256, low % 256)

IsBlockedIpLiteral(host) ==
  \/ host.kind = "ipv4" /\ IsBlockedIPv4(host.a, host.b, host.c, host.d)
  \/ host.kind = "mapped" /\ IsBlockedMapped(host.high, host.low)
  \/ host.kind \in {"unspecified", "loopback", "linkLocal", "uniqueLocal"}

CheckUrlSafety(link) ==
  /\ link.wellFormed /\ link.scheme \in {"http", "https"} /\ ~link.credentials
  /\ link.host.kind # "localName" /\ ~IsBlockedIpLiteral(link.host)

------------------------------------------------------------------------------
(* license-detector.ts *)

CC_URL_MAP == [by |-> "CC-BY-4.0", bysa |-> "CC-BY-SA-4.0",
               bync |-> "CC-BY-NC-4.0", bynd |-> "CC-BY-ND-4.0"]

KnownLicenses == {"PDM", "CC0-1.0"} \cup {CC_URL_MAP[deed] : deed \in DOMAIN CC_URL_MAP}

ALL_RIGHTS_RESERVED == "proprietary"

\* A declaration begins with an SPDX id, or is the address of a deed.
DetectLicense(declared) ==
  IF declared.form = "spdx" /\ declared.id \in KnownLicenses THEN declared.id
  ELSE IF declared.form = "publicdomain" THEN "CC0-1.0"
  ELSE IF declared.form = "deed" /\ declared.id \in DOMAIN CC_URL_MAP
    THEN CC_URL_MAP[declared.id]
  ELSE ALL_RIGHTS_RESERVED

AllowsDownload(license) == license # ALL_RIGHTS_RESERVED

------------------------------------------------------------------------------
(* The adapters: a verdict that allows the download, or null. *)

Null == [eligible |-> FALSE, source |-> "null", formats |-> 0]

\* refuse
Refusal == [eligible |-> FALSE, source |-> "none", formats |-> 0]

Grant(basis, n) == [eligible |-> TRUE, source |-> basis, formats |-> n]

\* platform?.formats ?? directFileFormats ?? []
OfferedFormats(ctx) ==
  IF ctx.platform.present THEN ctx.platform.formats ELSE ctx.directFileFormats

UserOwned(ctx) ==
  IF /\ ctx.ownership.user # 0 /\ ctx.ownership.user = ctx.ownership.owner
     /\ OfferedFormats(ctx) > 0
  THEN Grant("user_owned", OfferedFormats(ctx)) ELSE Null

OfficialApi(ctx) ==
  IF /\ ctx.platform.present /\ ctx.platform.officialDownloadEnabled
     /\ ctx.platform.formats > 0
  THEN Grant("official_api", ctx.platform.formats) ELSE Null

OpenLicense(ctx) ==
  IF AllowsDownload(DetectLicense(ctx.licenseMetadata)) /\ OfferedFormats(ctx) > 0
  THEN Grant("open_license", OfferedFormats(ctx)) ELSE Null

\* mediaKind: by the type the origin reports, else by the path's extension.
IsMediaFile(ctx) ==
  ctx.contentType \in {"video", "audio"} \/ ctx.link.extension \in {"video", "audio"}

\* With no format reported the file itself is the one.
DirectFile(ctx) ==
  IF IsMediaFile(ctx)
  THEN Grant("direct_file", IF ctx.directFileFormats > 0 THEN ctx.directFileFormats ELSE 1)
  ELSE Null

------------------------------------------------------------------------------
(* eligibility.service.ts *)

\* The general registry: the adapters in the order they were registered.
GeneralRegistry(ctx) ==
  IF OfficialApi(ctx) # Null THEN OfficialApi(ctx)
  ELSE IF OpenLicense(ctx) # Null THEN OpenLicense(ctx)
  ELSE DirectFile(ctx)

\* A mutant: the barriers are looked at after the adapters.
EvaluateLate(ctx) ==
  IF ~CheckUrlSafety(ctx.link) THEN Refusal
  ELSE IF UserOwned(ctx) # Null THEN UserOwned(ctx)
  ELSE IF GeneralRegistry(ctx) # Null THEN GeneralRegistry(ctx)
  ELSE Refusal

Evaluate(ctx) ==
  IF ~CheckUrlSafety(ctx.link) \/ ctx.drm THEN Refusal
  ELSE IF UserOwned(ctx) # Null THEN UserOwned(ctx)
  ELSE IF ctx.paywalled \/ ctx.requiresAuthentication THEN Refusal
  ELSE IF GeneralRegistry(ctx) # Null THEN GeneralRegistry(ctx)
  ELSE Refusal
=============================================================================
