----------------------------- MODULE Discovery -----------------------------
(***************************************************************************)
(* `anchorkit discover' (cli/src/discovery): fetch the anchor's            *)
(* stellar.toml, then the /info of one of the transfer servers it          *)
(* advertises, and report which SEPs the anchor supports.                  *)
(*                                                                         *)
(* A stellar.toml is the set of the fields it has, an /info the sets of    *)
(* assets with an enabled deposit and an enabled withdrawal.  The anchor   *)
(* may be reconfigured between the two requests.  throughout is a history  *)
(* variable: the SEPs that the anchor has supported since the command      *)
(* began.                                                                  *)
(***************************************************************************)
EXTENDS Integers, FiniteSets

CONSTANTS
  TomlField,        \* the fields of a stellar.toml that matter here
  Asset,
  MaxReconfigured   \* bound: how often the anchor is reconfigured

ASSUME DiscoveryAssumption ==
  /\ IsFiniteSet(Asset)
  /\ MaxReconfigured \in Nat

VARIABLES offered, discovery, toml, discoveryReport, throughout, reconfigured

discoveryVars == <<offered, discovery, toml, discoveryReport, throughout, reconfigured>>

Sep == {"SEP-1", "SEP-6", "SEP-10", "SEP-12", "SEP-24", "SEP-31", "SEP-38"}

TransferSep == {"SEP-6", "SEP-24"}

\* The fields that detect reads for a SEP.
Fields(sep) ==
  CASE sep = "SEP-1"  -> {}
    [] sep = "SEP-10" -> {"WEB_AUTH_ENDPOINT", "SIGNING_KEY"}
    [] sep = "SEP-6"  -> {"TRANSFER_SERVER"}
    [] sep = "SEP-24" -> {"TRANSFER_SERVER_SEP0024"}
    [] sep = "SEP-12" -> {"KYC_SERVER"}
    [] sep = "SEP-31" -> {"DIRECT_PAYMENT_SERVER"}
    [] sep = "SEP-38" -> {"ANCHOR_QUOTE_SERVER"}

InfoResponse == [deposit : SUBSET Asset, withdraw : SUBSET Asset]

AnchorConfig == [toml : SUBSET TomlField, info : [TransferSep -> InfoResponse]]

enabled_asset_count(info) == Cardinality(info.deposit \cup info.withdraw)

NoInfo == [deposit |-> {}, withdraw |-> {}]

\* The server whose /info is asked for: SEP-24's when both are advertised.
InfoSource(t) ==
  IF Fields("SEP-24") \subseteq t THEN "SEP-24"
  ELSE IF Fields("SEP-6") \subseteq t THEN "SEP-6" ELSE "None"

\* Wrong on purpose: the fields of stellar.toml decide alone.
detect_by_fields(t, info, source) ==
  LET named == {sep \in Sep : Fields(sep) \subseteq t}
  IN  [supported |-> named,
       assets |-> [sep \in {source} \cap named |-> enabled_asset_count(info)]]

\* The findings: the SEPs that count as supported, and the asset count of the
\* server that was asked.
detect(t, info, source) ==
  LET named == {sep \in Sep : Fields(sep) \subseteq t}
  IN  [supported |-> {sep \in named : sep = source => enabled_asset_count(info) > 0},
       assets |-> [sep \in {source} \cap named |-> enabled_asset_count(info)]]

\* What is shown of the findings: details only of what is supported.
print_report(findings) ==
  [supported |-> findings.supported,
   assets |-> [sep \in DOMAIN findings.assets \cap findings.supported |->
                 findings.assets[sep]]]

NoDiscoveryReport == [supported |-> {}, assets |-> [sep \in {} |-> 0]]

\* What the anchor really offers.
Supports(a, sep) ==
  /\ Fields(sep) \subseteq a.toml
  /\ sep \in TransferSep =>
       \E x \in Asset : x \in a.info[sep].deposit \/ x \in a.info[sep].withdraw

Supported(a) == {sep \in Sep : Supports(a, sep)}

DiscoveryInit ==
  /\ offered \in AnchorConfig
  /\ discovery = "start"
  /\ toml = {}
  /\ discoveryReport = NoDiscoveryReport
  /\ throughout = Supported(offered)
  /\ reconfigured = 0

AnchorUnchanged == UNCHANGED <<offered, throughout, reconfigured>>

\* A domain that validate_domain_syntax rejects, no HTTP client; no answer, a
\* status other than 2xx, a body that does not parse: discover returns the error.
Fails ==
  /\ discovery \in {"start", "toml", "info"}
  /\ discovery' = "failed"
  /\ UNCHANGED <<toml, discoveryReport>> /\ AnchorUnchanged

discover ==
  /\ discovery = "start"
  /\ discovery' = "toml"
  /\ UNCHANGED <<toml, discoveryReport>> /\ AnchorUnchanged

\* stellar.toml arrives; without a transfer server the report follows at once.
stellar_toml_fetch ==
  /\ discovery = "toml"
  /\ toml' = offered.toml
  /\ IF InfoSource(offered.toml) = "None"
     THEN /\ discovery' = "printed"
          /\ discoveryReport' = print_report(detect(offered.toml, NoInfo, "None"))
     ELSE discovery' = "info" /\ UNCHANGED discoveryReport
  /\ AnchorUnchanged

\* /info arrives, from the server that the stellar.toml read before names.
info_fetch ==
  /\ discovery = "info"
  /\ LET source == InfoSource(toml)
     IN  discoveryReport' = print_report(detect(toml, offered.info[source], source))
  /\ discovery' = "printed"
  /\ UNCHANGED toml /\ AnchorUnchanged

\* External: the anchor changes what it offers while the command runs.
Reconfigure ==
  /\ discovery \in {"start", "toml", "info"}
  /\ reconfigured < MaxReconfigured
  /\ reconfigured' = reconfigured + 1
  /\ offered' \in AnchorConfig
  /\ throughout' = throughout \cap Supported(offered')
  /\ UNCHANGED <<discovery, toml, discoveryReport>>

\* Every request ends within the ten seconds of the client's timeout.
DiscoveryStep == Fails \/ discover \/ stellar_toml_fetch \/ info_fetch

DiscoveryNext == DiscoveryStep \/ Reconfigure

DiscoverySpec == DiscoveryInit /\ [][DiscoveryNext]_discoveryVars
                 /\ WF_discoveryVars(DiscoveryStep)

-----------------------------------------------------------------------------

DiscoveryTypeOK ==
  /\ offered \in AnchorConfig
  /\ discovery \in {"start", "toml", "info", "printed", "failed"}
  /\ toml \in SUBSET TomlField
  /\ discoveryReport.supported \in SUBSET Sep
  /\ throughout \in SUBSET Sep
  /\ reconfigured \in 0..MaxReconfigured

\* A SEP that the anchor supports all along is never reported missing, even
\* when the anchor is reconfigured between the two requests.  When it is not,
\* every SEP reported is supported, except that SEP-6 is taken at stellar.toml's
\* word when the /info of SEP-24 was asked for instead (mod.rs:41-50).  An asset
\* count is shown for the one server that was asked, counts no asset twice and
\* is never zero (seps.rs:104-132); a failed request leaves no report.
ReportSound ==
  /\ discovery = "printed" =>
       /\ throughout \subseteq discoveryReport.supported
       /\ reconfigured = 0 =>
            \A sep \in discoveryReport.supported :
              \/ Supports(offered, sep)
              \/ sep = "SEP-6" /\ Fields("SEP-24") \subseteq offered.toml
       /\ DOMAIN discoveryReport.assets \subseteq TransferSep \cap discoveryReport.supported
       /\ "SEP-6" \in DOMAIN discoveryReport.assets => "SEP-24" \notin discoveryReport.supported
       /\ \A sep \in DOMAIN discoveryReport.assets :
            discoveryReport.assets[sep] \in 1..Cardinality(Asset)
  /\ discovery # "printed" => discoveryReport = NoDiscoveryReport
=============================================================================
