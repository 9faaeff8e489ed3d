--------------------------- MODULE MCDnsForwarding ---------------------------
(***************************************************************************)
(* Instances for TLC of DnsForwarding, and of the blocklist it asks:       *)
(* DomainRules, the lists and the answers, and PatternIndex, the index of  *)
(* the patterns.  They share no variable: a behaviour is one of the three, *)
(* as machine says, and the other two stay where they begin.               *)
(***************************************************************************)
EXTENDS DnsForwarding, Globs, FiniteSetsExt, TLC

CONSTANTS before, validating, after, site

\* The same question three times, once with the DO bit.  The two without it are
\* alike: the one handled first is called before.
SameName == [q \in Queries |-> site]

InTurn == pc'[after] # "new" => pc'[before] # "new"

A == 97
B == 98
ab == <<A, DOT, B>>

VARIABLE machine  \* "forwarding", "rules" or "index"

-----------------------------------------------------------------------------
(* DomainRules: any three lines of one or more lists, room for two patterns. *)

VARIABLES r_set, r_badfilter, r_pattern_order, r_skipped, r_exempt, r_exempted,
    r_lines, r_added, r_file

rulesVars == <<r_set, r_badfilter, r_pattern_order, r_skipped, r_exempt,
    r_exempted, r_lines, r_added, r_file>>

Line(exception, anchor, text, caret, options) ==
  [exception |-> exception, anchor |-> anchor, text |-> text, caret |-> caret,
   options |-> options]

\* Each form of rule, and a name with a child, a pattern for the name and one
\* without a literal end on each side.
SomeRules ==
  {Line(FALSE, "||", ab, "^", o) : o \in {{"important"}, {"badfilter"}, {"third-party"}}} \cup
  {Line(FALSE, "", <<A, STAR, DOT, B>>, "", o) : o \in {{}, {"badfilter"}}} \cup
  {Line(FALSE, "", <<A, DOT>> \o ab, "^|", {}),
   Line(FALSE, "://", ab, "^", {}),
   Line(FALSE, "||", <<B - 32, STAR, STAR, DOT, B, DOT>>, "^", {}),
   Line(FALSE, "", <<STAR, DOT>> \o ab, "", {}),
   Line(FALSE, "||", <<STAR, A, DOT>>, "", {}),
   Line(TRUE, "||", <<A, DOT>> \o ab, "", {}),
   Line(TRUE, "|", ab, "^|", {}),
   Line(TRUE, "", <<B, DOT, STAR, B>>, "", {}),
   Line(TRUE, "||", <<STAR, A, DOT, B>>, "^", {})}

LookedUp ==
  {ab, <<A - 32, DOT, B, DOT>>, <<A, DOT>> \o ab, <<B, DOT, A, DOT>> \o ab,
   <<B, DOT, B>>, <<B>> \o ab, <<A, A, DOT, B, DOT, A>>, <<B, DOT>> \o ab, <<B>>}

Rules == INSTANCE DomainRules WITH
    AdblockLines <- SomeRules, HostsLines <- {<<<<B, DOT, B>>, <<B, DOT, A>>, ab>>},
    LocalDomain <- <<B, DOT, A>>, ExemptDomains <- {<<A, DOT>> \o ab},
    ExemptHosts <- {<<A, A, DOT, B, DOT, A>>}, Hosts <- LookedUp,
    MAX_WILDCARD_PATTERNS <- 2, MAX_UNKEYED_PATTERNS <- 1, MaxLines <- 3,
    set <- r_set, badfilter <- r_badfilter, pattern_order <- r_pattern_order,
    skipped <- r_skipped, exempt <- r_exempt, exempted <- r_exempted,
    lines <- r_lines, added <- r_added, file <- r_file

-----------------------------------------------------------------------------
(* PatternIndex: each short pattern alone, and up to three of some that      *)
(* share heads and tails.                                                    *)

VARIABLES i_patterns, i_tries, i_which, i_pending, i_numbered

indexVars == <<i_patterns, i_tries, i_which, i_pending, i_numbered>>

Texts(bytes, length) == UNION {[1 .. n -> bytes] : n \in 1 .. length}

Pattern(glob, up) == [glob |-> glob, parents |-> up]

Short ==
  {Pattern(g, up) : up \in BOOLEAN, g \in {t \in Texts({A, STAR, DOT}, 4) :
     is_valid_pattern(t) /\ ~\E i \in 1 .. Len(t) - 1 : t[i] = STAR /\ t[i + 1] = STAR}}

Sharing ==
  {Pattern(<<A, STAR, DOT, B>>, TRUE), Pattern(<<B, A, DOT, A, STAR>>, TRUE),
   Pattern(<<A, DOT, A, STAR>>, FALSE), Pattern(<<A, DOT, A, STAR>>, TRUE),
   Pattern(<<A, DOT, B, STAR, A>>, TRUE), Pattern(<<STAR, A, DOT, B>>, FALSE),
   Pattern(<<B, STAR, A, DOT, B>>, TRUE), Pattern(<<STAR, A, DOT, STAR>>, FALSE)}

\* As a section lists them, the ones for parents first.
InOrder(S) == SetToSortSeq(S, LAMBDA p, q : p.parents /\ ~q.parents)

Sections ==
  {<<p>> : p \in Short} \cup {InOrder(S) : S \in UNION {kSubset(k, Sharing) : k \in 2 .. 3}}

Asked == {t \in Texts({A, B, DOT}, 4) : \A label \in Labels(t) : label # <<>>}
           \cup {<<A, B, DOT>> \o ab, <<A - 32, DOT, A, DOT, B>>, <<B, DOT, A, DOT>> \o ab}

Index == INSTANCE PatternIndex WITH
    Files <- Sections, Hosts <- Asked, patterns <- i_patterns, tries <- i_tries,
    which <- i_which, pending <- i_pending, numbered <- i_numbered

-----------------------------------------------------------------------------

EachInit ==
  /\ machine \in {"forwarding", "rules", "index"}
  /\ Init /\ Rules!Init /\ Index!Init
  /\ machine # "forwarding" => blocklist = {}
  /\ machine # "rules" => r_exempt = FALSE
  /\ machine # "index" => i_patterns = <<Pattern(<<A, STAR, DOT, A>>, TRUE)>>

EachNext ==
  \/ machine = "forwarding" /\ Next /\ InTurn /\ UNCHANGED <<machine, rulesVars, indexVars>>
  \/ machine = "rules" /\ Rules!Next /\ UNCHANGED <<machine, vars, indexVars>>
  \/ machine = "index" /\ Index!Next /\ UNCHANGED <<machine, vars, rulesVars>>

\* With the fairness of DnsForwarding.
Forwarding(action) == machine = "forwarding" /\ action
EachSpec ==
  /\ EachInit /\ [][EachNext]_<<machine, vars, rulesVars, indexVars>>
  /\ \A q \in Queries :
       /\ WF_vars(Forwarding(Loop(q)))
       /\ WF_vars(Forwarding(ResolveAnswers(q) \/ ResolveFails(q)))
  /\ \A s \in Starts : WF_vars(Forwarding(Recv(s))) /\ WF_vars(Forwarding(RuntimeEnds(s)))
  /\ WF_vars(Forwarding(Ready \/ StartFails))

\* DomainRules: a host is blocked exactly when the lists say so, and none blocks
\* a host it exempts (DomainSet::is_blocked, exempt.rs, covers_exempt).
BlocksWhatTheListsSay == machine = "rules" => Rules!BlocksWhatTheListsSay

\* DomainRules: the limits hold, exceptions are kept before blocks and cancelled
\* patterns take no room (limit_patterns).
LimitsKept == machine = "rules" => Rules!LimitsKept

\* PatternIndex: a lookup finds what trying every pattern would
\* (PatternSet::matches).
FindsWhatMatches == machine = "index" => Index!FindsWhatMatches
=============================================================================
