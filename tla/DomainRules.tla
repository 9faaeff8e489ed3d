---------------------------- MODULE DomainRules ----------------------------
(***************************************************************************)
(* The DNS blocklist: filter lists are read line by line into names and    *)
(* patterns (core/crates/filter/src/domain_rules.rs), leaving out blocks   *)
(* of the hosts a list exempts (exempt.rs); the result is written as a set *)
(* of hashes and patterns, in which a host is looked up (domain_set.rs).   *)
(* A hash stands for what it is a hash of: two names never share one.      *)
(***************************************************************************)
EXTENDS Globs, FiniteSets

CONSTANTS
    AdblockLines,            \* the rules an adblock list may hold, see Rules
    HostsLines,              \* the lines of names a hosts list may hold
    LocalDomain,             \* localhost.localdomain, which hosts lists start with
    ExemptDomains,           \* Exemption: the names of *.name patterns
    ExemptHosts,             \* Exemption: the names of name patterns
    Hosts,                   \* the hosts looked up
    MAX_WILDCARD_PATTERNS,
    MAX_UNKEYED_PATTERNS,
    MaxLines                 \* how many lines the lists hold together

\* A rule without its exception mark, its anchor, its caret and its options:
\* text is what is left.
Rules == [exception : BOOLEAN, anchor : {"||", "|", "://", ""}, text : Seq(Nat),
          caret : {"^|", "^", ""}, options : SUBSET {"important", "badfilter", "third-party"}]

PatternKinds == {"WildcardAllow", "ExactWildcardAllow", "WildcardBlock", "ExactWildcardBlock"}
Exceptions == {"Allow", "ExactAllow", "WildcardAllow", "ExactWildcardAllow"}
Kinds == PatternKinds \cup Exceptions \cup {"Important", "Block", "ExactBlock"}

VARIABLES
    set,            \* Builder: the names or patterns of each kind
    badfilter,      \* Builder.badfilter
    pattern_order,  \* Builder.pattern_order
    skipped,        \* Builder.skipped
    exempt,         \* whether the list being added exempts hosts
    exempted,       \* Builder.exempted
    lines,          \* how many lines were added
    added,          \* which ones, for the properties
    file            \* what encode wrote, NoFile before that

vars == <<set, badfilter, pattern_order, skipped, exempt, exempted, lines, added, file>>

NoFile == [written |-> FALSE]

-----------------------------------------------------------------------------
(* Reading a line. *)

NONE == <<>>

StripDot(name) == IF name # <<>> /\ Last(name) = DOT THEN Front(name) ELSE name

\* Lengths are left out, as in is_valid_pattern.
normalize_name(name) ==
  LET n == lowercase(StripDot(name))
      valid == /\ DOT \in ToSet(n)
               /\ \A label \in Labels(n) : label # <<>> /\ ToSet(label) \subseteq NameBytes
               /\ ~AllDigits(LastLabel(n))
  IN IF valid THEN n ELSE NONE

\* *.name, with or without a caret, with no other *.
is_wildcard_domain(rule) ==
  /\ rule.anchor = ""
  /\ IsPrefix(<<STAR, DOT>>, rule.text)
  /\ STAR \notin ToSet(Tail(rule.text))

\* Runs of * become one.
Merged(glob) ==
  FoldLeft(LAMBDA merged, b : IF b = STAR /\ merged # <<>> /\ Last(merged) = STAR
                                THEN merged ELSE Append(merged, b), <<>>, glob)

\* A rule without an anchor may start anywhere, one without a caret may end
\* anywhere.
wildcard_pattern(rule) ==
  LET start == IF rule.anchor = "" THEN <<STAR>> ELSE <<>>
      rest == IF rule.caret # "" THEN StripDot(rule.text) ELSE Append(rule.text, STAR)
      merged == lowercase(Merged(start \o rest))
  IN IF is_valid_pattern(merged) THEN merged ELSE NONE

\* The name of a rule without a *: nothing for a prefix or for an address part.
host_name(rule) ==
  LET dotted == rule.text # <<>> /\ rule.text[1] = DOT
      labelled == rule.text # <<>> /\ to_ascii_lowercase(rule.text[1]) \in Digits \cup Letters
      named == \/ rule.anchor = "||" /\ (rule.caret # "" \/ rule.text = StripDot(rule.text))
               \/ rule.anchor \in {"|", "://"} /\ rule.caret # ""
               \/ rule.anchor = "" /\ labelled /\ rule.caret # ""
  IN IF rule.anchor = "" /\ dotted /\ rule.caret = "^" THEN normalize_name(Tail(rule.text))
     ELSE IF named THEN normalize_name(rule.text) ELSE NONE

Skip == [kind |-> "Skip", name |-> NONE, badfilter |-> FALSE]

\* $important is not supported on patterns and on blocks of one host.
Kind(rule) ==
  LET important == "important" \in rule.options
      Pick(exact, one, all) == IF exact THEN one ELSE all
  IN IF is_wildcard_domain(rule) \/ STAR \notin ToSet(rule.text)
       THEN LET exact == rule.anchor \in {"|", "://"}
            IN IF rule.exception THEN Pick(exact, "ExactAllow", "Allow")
               ELSE IF important THEN Pick(exact, "Skip", "Important")
               ELSE Pick(exact, "ExactBlock", "Block")
       ELSE LET exact == rule.anchor # "||"
            IN IF rule.exception THEN Pick(exact, "ExactWildcardAllow", "WildcardAllow")
               ELSE IF important THEN "Skip"
               ELSE Pick(exact, "ExactWildcardBlock", "WildcardBlock")

parse_adblock_line(rule) ==
  LET name == IF is_wildcard_domain(rule)
                THEN normalize_name(SubSeq(rule.text, 3, Len(rule.text)))
              ELSE IF STAR \in ToSet(rule.text) THEN wildcard_pattern(rule)
              ELSE host_name(rule)
  IN IF "third-party" \in rule.options \/ name = NONE \/ Kind(rule) = "Skip" THEN Skip
     ELSE [kind |-> Kind(rule), name |-> name, badfilter |-> "badfilter" \in rule.options]

-----------------------------------------------------------------------------
(* The hosts a list exempts. *)

covers_host(name) ==
  name \in ExemptHosts \/ \E suffix \in {name} \cup parents(name) : suffix \in ExemptDomains

ancestors == UNION {parents(name) : name \in ExemptDomains \cup ExemptHosts}

covers_subtree(name) == covers_host(name) \/ name \in ancestors

\* The tail of the glob and .name agree at the end: one of them ends the other.
matches_some_name_under(glob, name) ==
  LET dotted == <<DOT>> \o name
  IN IsSuffix(tail(glob), dotted) \/ IsSuffix(dotted, tail(glob))

\* Stored patterns always hold a *.
covers_pattern(glob, up) ==
  LET above(name) == up /\ \E parent \in parents(name) : glob_matches(glob, parent)
  IN \/ \E name \in ExemptDomains :
          glob_matches(glob, name) \/ matches_some_name_under(glob, name) \/ above(name)
     \/ \E name \in ExemptHosts : glob_matches(glob, name) \/ above(name)

\* Exceptions block nothing, so they never cover an exempt host.
covers_exempt(kind, name) ==
  \/ kind \in {"Important", "Block"} /\ covers_subtree(name)
  \/ kind = "ExactBlock" /\ covers_host(name)
  \/ kind = "WildcardBlock" /\ covers_pattern(name, TRUE)
  \/ kind = "ExactWildcardBlock" /\ covers_pattern(name, FALSE)

-----------------------------------------------------------------------------
(* The lists, line by line. *)

Init ==
  /\ set = [k \in Kinds |-> {}]
  /\ badfilter = {} /\ pattern_order = <<>>
  /\ skipped = 0 /\ exempted = 0
  /\ exempt \in BOOLEAN
  /\ lines = 0 /\ added = {}
  /\ file = NoFile

Adding == file = NoFile /\ lines < MaxLines

\* The next list, which may or may not exempt hosts.
NextList ==
  /\ Adding
  /\ exempt' = ~exempt
  /\ UNCHANGED <<set, badfilter, pattern_order, skipped, exempted, lines, added, file>>

\* Each pattern is put in order the first time it is added.
NewPattern(line) == line.name \notin set[line.kind]

add_adblock_line(rule) ==
  LET line == parse_adblock_line(rule)
      left_out == exempt /\ covers_exempt(line.kind, line.name)
      kept == line # Skip /\ ~line.badfilter /\ ~left_out
      new_pattern == kept /\ line.kind \in PatternKinds /\ NewPattern(line)
  IN /\ Adding
     /\ skipped' = skipped + (IF line = Skip THEN 1 ELSE 0)
     /\ badfilter' = IF line.badfilter THEN badfilter \cup {<<line.kind, line.name>>} ELSE badfilter
     /\ exempted' = exempted + (IF ~line.badfilter /\ left_out THEN 1 ELSE 0)
     /\ set' = IF kept THEN [set EXCEPT ![line.kind] = @ \cup {line.name}] ELSE set
     /\ pattern_order' = IF new_pattern THEN Append(pattern_order, <<line.kind, line.name>>)
                         ELSE pattern_order
     /\ lines' = lines + 1
     /\ added' = added \cup {[rule |-> rule, exempt |-> exempt]}
     /\ UNCHANGED <<exempt, file>>

\* Every usable name of the line, after the address if it starts with one, is
\* blocked with its subdomains.
add_hosts_line(line) ==
  LET names == {normalize_name(line[i]) : i \in {j \in DOMAIN line : line[j] # LocalDomain}} \ {NONE}
      left_out == {n \in names : exempt /\ covers_exempt("Block", n)}
  IN /\ Adding
     /\ set' = [set EXCEPT !["Block"] = @ \cup (names \ left_out)]
     /\ exempted' = exempted + Cardinality(left_out)
     /\ skipped' = skipped + (IF names = {} THEN 1 ELSE 0)
     /\ lines' = lines + 1
     /\ added' = added \cup {[names |-> names, exempt |-> exempt]}
     /\ UNCHANGED <<badfilter, pattern_order, exempt, file>>

\* Without the entries $badfilter cancels, in whatever list and order.
Uncancelled == [k \in Kinds |-> {n \in set[k] : <<k, n>> \notin badfilter}]

KeepOrderAsAdded(order) == order

\* The patterns in the order they are kept: exceptions first, then blocks.
KeepOrder(order) ==
  SelectSeq(order, LAMBDA e : e[1] \in Exceptions) \o
  SelectSeq(order, LAMBDA e : e[1] \notin Exceptions)

RoomFor(kept, pattern) ==
  /\ Len(kept) < MAX_WILDCARD_PATTERNS
  /\ is_unkeyed(pattern[2]) =>
       Len(SelectSeq(kept, LAMBDA e : is_unkeyed(e[2]))) < MAX_UNKEYED_PATTERNS

\* The patterns there is room for; a cancelled one takes none.
limit_patterns(sets) ==
  FoldLeft(LAMBDA kept, e : IF e[2] \in sets[e[1]] /\ RoomFor(kept, e) THEN Append(kept, e) ELSE kept,
           <<>>, KeepOrder(pattern_order))

Patterns(sets) == UNION {{<<k, n>> : n \in sets[k]} : k \in PatternKinds}

WithoutRedundantParents(names) ==
  {n \in names : ~\E m \in names : n \in parents(m)}

without_redundant_children(names) == {n \in names : parents(n) \cap names = {}}

\* encode: an entry for one host only is hashed behind a |, which no name holds.
sorted_hashes(names, exact) == {<<"", n>> : n \in names} \cup {<<"|", n>> : n \in exact}

pattern_section(up, host) ==
  {[glob |-> g, parents |-> TRUE] : g \in up} \cup {[glob |-> g, parents |-> FALSE] : g \in host}

encode(rules) ==
  [block |-> sorted_hashes(rules["Block"], rules["ExactBlock"]),
   allow |-> sorted_hashes(rules["Allow"], rules["ExactAllow"]),
   important |-> sorted_hashes(rules["Important"], {}),
   wildcard_allow |-> pattern_section(rules["WildcardAllow"], rules["ExactWildcardAllow"]),
   wildcard_block |-> pattern_section(rules["WildcardBlock"], rules["ExactWildcardBlock"])]

\* Builder::finish, and the file.  The builder, and with it the list being added,
\* is gone.
finish ==
  LET sets == Uncancelled
      kept == ToSet(limit_patterns(sets))
      rules == [k \in Kinds |->
                  IF k \in PatternKinds THEN {n \in sets[k] : <<k, n>> \in kept}
                  ELSE IF k \in {"Important", "Allow", "Block"}
                    THEN without_redundant_children(sets[k])
                  ELSE sets[k]]
  IN /\ file = NoFile /\ lines > 0
     /\ exempt' = FALSE
     /\ set' = rules
     /\ skipped' = skipped + Cardinality(Patterns(sets) \ kept)
     /\ file' = encode(rules)
     /\ UNCHANGED <<badfilter, pattern_order, exempted, lines, added>>

Next ==
  \/ NextList
  \/ \E rule \in AdblockLines : add_adblock_line(rule)
  \/ \E line \in HostsLines : add_hosts_line(line)
  \/ finish

Spec == Init /\ [][Next]_vars

-----------------------------------------------------------------------------
(* Lookups. *)

\* The host and each parent that still has a dot are looked up: no name without
\* one is stored.
is_blocked(asked) ==
  LET host == lowercase(StripDot(asked))
      names == {n \in {host} \cup parents(host) : DOT \in ToSet(n)}
      Covered(section) == \E n \in names : <<"", n>> \in section
      Exactly(section) == <<"|", host>> \in section
      Wild(section) == \E p \in section : matches(p, host)
  IN /\ names # {}
     /\ \/ Covered(file.important)
        \/ /\ ~(Exactly(file.allow) \/ Covered(file.allow))
           /\ (Exactly(file.block) \/ Covered(file.block) \/ Wild(file.wildcard_block))
           /\ ~Wild(file.wildcard_allow)

-----------------------------------------------------------------------------
(* What the lists mean. *)

HostsRule(name) ==
  [exception |-> FALSE, anchor |-> "", text |-> name, caret |-> "^", options |-> {}]

Under(name, host) == host = name \/ IsSuffix(<<DOT>> \o name, host)

\* A rule with a *, as adblock reads it for a request to the host: || starts the
\* match at a label, | and :// at the start of the host, no anchor anywhere; a
\* caret ends it at the end of the host (domain_rules.rs:517-522).
AdblockMeans(rule, host) ==
  LET text == lowercase(IF rule.caret = "" THEN rule.text ELSE StripDot(rule.text))
      start == {1} \cup IF rule.anchor = "||" THEN {i + 1 : i \in {j \in DOMAIN host : host[j] = DOT}}
                        ELSE IF rule.anchor = "" THEN 1 .. Len(host) + 1 ELSE {}
      ends == IF rule.caret = "" THEN 0 .. Len(host) ELSE {Len(host)}
  IN \E i \in start, j \in ends : Means(text, SubSeq(host, i, j))

\* The lines added, each name of a hosts line as a rule of its own: what they
\* were parsed to, and whether their list exempts hosts.
Said ==
  UNION {IF "rule" \in DOMAIN a
           THEN {[line |-> parse_adblock_line(a.rule), rule |-> a.rule, exempt |-> a.exempt]}
           ELSE {[line |-> [kind |-> "Block", name |-> name, badfilter |-> FALSE],
                  rule |-> HostsRule(name), exempt |-> a.exempt] : name \in a.names}
         : a \in added}

\* A rule without a *, or *.name: its host, with its subdomains unless it is
\* anchored with | or ://.
SpeaksOf(said, host) ==
  IF said.line.kind \in PatternKinds THEN AdblockMeans(said.rule, host)
  ELSE \/ host = said.line.name
       \/ said.rule.anchor \notin {"|", "://"} /\ Under(said.line.name, host)

\* The lines that count: not one that is skipped, that cancels or is cancelled,
\* or that its list's exemption leaves out.
Effective ==
  LET all == Said
  IN {s \in all : /\ s.line # Skip /\ ~s.line.badfilter
                  /\ [s.line EXCEPT !.badfilter = TRUE] \notin {o.line : o \in all}
                  /\ ~(s.exempt /\ covers_exempt(s.line.kind, s.line.name))}

Kept == Patterns(set)
OverLimits == {e \in ToSet(pattern_order) : e \notin badfilter /\ e \notin Kept}

-----------------------------------------------------------------------------
(* Properties. *)

\* Names and patterns are stored in their normal form, and each pattern that is
\* stored has its place in the order of the limits, once.
TypeOK ==
  /\ \A a \in added : "rule" \in DOMAIN a => a.rule \in Rules
  /\ \A k \in Kinds : \A n \in set[k] :
       IF k \in PatternKinds THEN is_valid_pattern(n) ELSE normalize_name(n) = n
  /\ \A b \in badfilter : b[1] \in Kinds
  /\ skipped \in Nat /\ exempted \in Nat /\ exempt \in BOOLEAN
  /\ Kept \subseteq ToSet(pattern_order)
  /\ Cardinality(ToSet(pattern_order)) = Len(pattern_order)

\* A host is blocked exactly when the lines of the lists say so: an important
\* block always, any other unless an exception, of whatever form and from
\* whatever list, speaks of the host; a line that $badfilter cancels says
\* nothing.  Dropped children, hashes, merged patterns and the order of the
\* checks change no answer (domain_rules.rs:18-36, domain_set.rs:339-350).  And
\* no list blocks a host it exempts, whatever form its rules take: an exempt
\* host is blocked only by a line of a list without the exemption
\* (exempt.rs:7-21).
BlocksWhatTheListsSay ==
  /\ (file # NoFile /\ OverLimits = {}) =>
       LET says == Effective
       IN \A asked \in Hosts :
            LET host == lowercase(StripDot(asked))
                kinds == {s.line.kind : s \in {t \in says : SpeaksOf(t, host)}}
            IN is_blocked(asked) <=>
                 \/ "Important" \in kinds
                 \/ kinds # {} /\ kinds \cap Exceptions = {}
  /\ file # NoFile =>
       LET others == {s \in Said : ~s.exempt /\ s.line.kind \notin Exceptions \cup {"Skip"}}
       IN \A host \in Hosts :
            /\ host \in ExemptHosts \/ \E name \in ExemptDomains : Under(name, host)
            /\ is_blocked(host)
            => \E s \in others : SpeaksOf(s, host)

\* The limits hold, and a pattern is left out only when they are reached by
\* patterns that are kept: those $badfilter cancelled take no room
\* (domain_rules.rs:285-288).  Exceptions are kept first, since leaving one out
\* would block what a list unblocks: a block is kept in its place only if it
\* takes no room that the exception could have had (domain_rules.rs:38-41).
LimitsKept ==
  LET Unkeyed(S) == {e \in S : is_unkeyed(e[2])}
  IN /\ TypeOK
     /\ file # NoFile =>
          /\ Cardinality(Kept) <= MAX_WILDCARD_PATTERNS
          /\ Cardinality(Unkeyed(Kept)) <= MAX_UNKEYED_PATTERNS
          /\ \A e \in OverLimits :
               /\ \/ Cardinality(Kept) = MAX_WILDCARD_PATTERNS
                  \/ is_unkeyed(e[2]) /\ Cardinality(Unkeyed(Kept)) = MAX_UNKEYED_PATTERNS
               /\ \A b \in Kept :
                    e[1] \in Exceptions /\ b[1] \notin Exceptions =>
                      is_unkeyed(e[2]) /\ ~is_unkeyed(b[2])

=============================================================================
