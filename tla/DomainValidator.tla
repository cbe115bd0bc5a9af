--------------------------- MODULE DomainValidator ---------------------------
(***************************************************************************)
(* is_valid_domain_syntax (src/domain_validator.rs), the scanner behind    *)
(* validate_anchor_domain and validate_domain_syntax, one action per turn  *)
(* of its loop, and what a valid domain is, said of the whole text.  The   *)
(* limits 3, MAX_DOMAIN_LEN = 255 and MAX_LABEL_LEN = 63 are constants.    *)
(***************************************************************************)
EXTENDS Integers, Sequences

CONSTANTS Alnum, OtherByte, MIN_DOMAIN_LEN, MAX_DOMAIN_LEN, MAX_LABEL_LEN, Domains

Byte == Alnum \cup {"-", "."} \cup OtherByte

ASSUME DomainAssumption ==
    /\ {"-", "."} \cap Alnum = {}
    /\ ({"-", "."} \cup Alnum) \cap OtherByte = {}
    /\ MIN_DOMAIN_LEN \in Nat \ {0}
    /\ MAX_DOMAIN_LEN \in Nat
    /\ MAX_LABEL_LEN \in Nat
    /\ Domains \subseteq Seq(Byte)

VARIABLES domain, read, has_dot, label_len, verdict

domainVars == <<domain, read, has_dot, label_len, verdict>>

\* The first read bytes have been scanned; prev is the last of them.
prevIs(b) == read > 0 /\ domain[read] = b

DomainTypeOK ==
    /\ domain \in Domains
    /\ read \in 0..Len(domain)
    /\ has_dot \in BOOLEAN
    /\ label_len \in 0..Len(domain)
    /\ verdict \in {"none", "true", "false"}

DomainInit ==
    /\ domain \in Domains
    /\ read = 0
    /\ has_dot = FALSE
    /\ label_len = 0
    /\ verdict = IF Len(domain) \in MIN_DOMAIN_LEN..MAX_DOMAIN_LEN THEN "none" ELSE "false"

reject ==
    /\ verdict' = "false"
    /\ UNCHANGED <<domain, read, has_dot, label_len>>

\* The body of the loop for a dot.
scanDot ==
    /\ verdict = "none" /\ read < Len(domain)
    /\ domain[read + 1] = "."
    /\ IF label_len = 0 \/ prevIs("-")
       THEN reject
       ELSE /\ has_dot' = TRUE
            /\ label_len' = 0
            /\ read' = read + 1
            /\ UNCHANGED <<domain, verdict>>

\* Wrong on purpose: the limit is tested before the byte is counted.
scanLabelLate ==
    /\ verdict = "none" /\ read < Len(domain)
    /\ domain[read + 1] # "."
    /\ IF \/ domain[read + 1] \in OtherByte
          \/ domain[read + 1] = "-" /\ label_len = 0
          \/ label_len > MAX_LABEL_LEN
       THEN reject
       ELSE /\ label_len' = label_len + 1
            /\ read' = read + 1
            /\ UNCHANGED <<domain, has_dot, verdict>>

\* The body of the loop for any other byte.
scanLabel ==
    /\ verdict = "none" /\ read < Len(domain)
    /\ domain[read + 1] # "."
    /\ IF \/ domain[read + 1] \in OtherByte
          \/ domain[read + 1] = "-" /\ label_len = 0
          \/ label_len + 1 > MAX_LABEL_LEN
       THEN reject
       ELSE /\ label_len' = label_len + 1
            /\ read' = read + 1
            /\ UNCHANGED <<domain, has_dot, verdict>>

\* After the loop.
finish ==
    /\ verdict = "none" /\ read = Len(domain)
    /\ verdict' = IF label_len = 0 \/ prevIs("-") \/ ~has_dot THEN "false" ELSE "true"
    /\ UNCHANGED <<domain, read, has_dot, label_len>>

DomainNext == scanDot \/ scanLabel \/ finish

DomainSpec == DomainInit /\ [][DomainNext]_domainVars

-----------------------------------------------------------------------------

\* A hostname as the doc comment has it: the length, the characters, two labels
\* or more, none of them empty, none too long, none with a hyphen at either end.
Hostname(d) ==
    /\ Len(d) \in MIN_DOMAIN_LEN..MAX_DOMAIN_LEN
    /\ \A k \in DOMAIN d : d[k] \notin OtherByte
    /\ \E k \in DOMAIN d : d[k] = "."
    /\ d[1] \in Alnum /\ d[Len(d)] \in Alnum
    /\ \A k \in 1..(Len(d) - 1) : (d[k] = "." => d[k + 1] \in Alnum)
                                  /\ (d[k + 1] = "." => d[k] \in Alnum)
    /\ \A k \in 0..(Len(d) - MAX_LABEL_LEN - 1) :
          \E m \in (k + 1)..(k + MAX_LABEL_LEN + 1) : d[m] = "."

\* The scanner accepts exactly the hostnames (domain_validator.rs:6-12, 26-68).
VerdictIsRight ==
    /\ verdict = "true" => Hostname(domain)
    /\ verdict = "false" => ~Hostname(domain)
=============================================================================
