----------------------------- MODULE CommandLine -----------------------------
(***************************************************************************)
(* What a command line asks for: src/src/cli.rs, and the argument of the   *)
(* cert command in src/src/queries/cert.rs.  A command line is a record    *)
(* with a field for each flag, Unset where the flag is not given; clap     *)
(* itself is external, its declarations are what is modelled.              *)
(***************************************************************************)
EXTENDS Config, Integers, SequencesExt

CONSTANTS
  Lower,      \* Lower[t]: the term t in lower case, the way the server matches
  BlankTerm,  \* terms that are empty or whitespace
  CertId      \* the texts of up to 19 digits that fit an i64

AllHistory == 0

Reports == {"search", "expiring"}
Asks == Reports \cup {"cert"}

-----------------------------------------------------------------------------
(* The argument of cert                                                    *)

IdDigits == 19
FingerprintDigits == 64

\* A lookup is [form, digits, value]: decimal or hexadecimal digits, colons and
\* upper case aside, or something else; how many; and what they spell.
IsId(lookup) ==
  lookup.form = "decimal" /\ lookup.digits <= IdDigits /\ lookup.value \in CertId

\* Only what is too long for an ID is tried as a fingerprint.
IsFingerprint(lookup) ==
  lookup.form \in {"decimal", "hex"} /\ lookup.digits = FingerprintDigits

-----------------------------------------------------------------------------
(* Usage errors                                                            *)

InRange(value, first, last) == value = Unset \/ value \in first..last

\* The flags that every command takes.
GlobalError(args, flags) ==
  \/ args.no_cache /\ args.refresh
  \/ flags.port \notin Port \cup {Unset}
  \/ ~InRange(args.width, 40, 1000)

MaxLimit == 100000

\* The terms and the row window of search and expiring.
TermsError(args) ==
  \/ args.terms = <<>>
  \/ \E i \in DOMAIN args.terms : args.terms[i] \in BlankTerm
  \/ ~InRange(args.limit, 1, MaxLimit)

SearchError(args) ==
  \/ ~InRange(args.valid_since, 1, 36500)
  \/ args.all_history /\ args.valid_since # Unset

ExpiringError(args) ==
  \/ ~InRange(args.within, 0, 36500)
  \/ ~InRange(args.since_expired, 0, 36500)
  \/ args.skip_expired /\ args.since_expired # Unset

UsageError(args, flags) ==
  \/ GlobalError(args, flags)
  \/ args.command \in Reports /\ TermsError(args)
  \/ args.command = "search" /\ SearchError(args)
  \/ args.command = "expiring" /\ ExpiringError(args)
  \/ args.command = "cert" /\ ~IsId(args.lookup) /\ ~IsFingerprint(args.lookup)

-----------------------------------------------------------------------------
(* What is asked of the database                                           *)

SearchLookback(args) ==
  IF args.all_history THEN AllHistory ELSE OrElse(args.valid_since, 365)

ExpiringLookback(args) ==
  IF args.skip_expired THEN 0 ELSE OrElse(args.since_expired, 30)

\* The first spelling of each term, in order.
UniqueTerms(terms) ==
  FoldLeft(LAMBDA out, term :
             IF \E i \in DOMAIN out : Lower[out[i]] = Lower[term] THEN out
             ELSE Append(out, term),
           <<>>, terms)

Limit(args) == OrElse(args.limit, IF args.command = "search" THEN 100 ELSE 500)

Statement(args) ==
  IF args.command # "cert" THEN args.command
  ELSE IF IsId(args.lookup) THEN "cert by ID" ELSE "cert by fingerprint"

\* The value bound for a Boolean.
Flag(b) == IF b THEN 1 ELSE 0

\* $2 onwards.
Parameters(args) ==
  CASE args.command = "search" ->
         <<SearchLookback(args), Flag(args.skip_expired), Limit(args)>>
    [] args.command = "expiring" ->
         <<OrElse(args.within, 30), ExpiringLookback(args), Limit(args)>>
    [] args.command = "cert" -> <<>>

\* $1 of each statement of the run.
Subjects(args) ==
  IF args.command = "cert" THEN <<args.lookup.value>> ELSE UniqueTerms(args.terms)
=============================================================================
