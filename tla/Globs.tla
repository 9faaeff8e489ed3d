------------------------------- MODULE Globs -------------------------------
(***************************************************************************)
(* The wildcard patterns of the DNS blocklist (core/crates/filter/src/     *)
(* wildcard.rs): the stored form, the matcher, and a pattern's parts.  A   *)
(* name or a pattern is the sequence of its bytes, since the matcher and   *)
(* the index walk them byte by byte.                                       *)
(***************************************************************************)
EXTENDS Integers, Sequences, SequencesExt

STAR == 42
DOT == 46
Digits == 48 .. 57
Upper == 65 .. 90
Letters == 97 .. 122
NameBytes == Digits \cup Letters \cup {45, 95}

to_ascii_lowercase(b) == IF b \in Upper THEN b + 32 ELSE b

lowercase(text) == [i \in DOMAIN text |-> to_ascii_lowercase(text[i])]

\* The name after each dot: the parents of a host, and its last label alone.
parents(host) ==
  {SubSeq(host, i + 1, Len(host)) : i \in {j \in DOMAIN host : host[j] = DOT}}

\* The text between two dots, or between a dot and an end.
Labels(name) ==
  LET cuts == {0, Len(name) + 1} \cup {i \in DOMAIN name : name[i] = DOT}
  IN {SubSeq(name, i + 1, j - 1) : <<i, j>> \in
        {c \in cuts \X cuts : c[1] < c[2] /\ \A k \in cuts : ~(c[1] < k /\ k < c[2])}}

LastLabel(name) ==
  SubSeq(name, SelectLastInSeq(name, LAMBDA b : b = DOT) + 1, Len(name))

AllDigits(label) == ToSet(label) \subseteq Digits

\* Lengths are left out: no name of an instance is near 63 or 253 bytes.
is_valid_pattern(pattern) ==
  /\ DOT \in ToSet(pattern)
  /\ ~(ToSet(pattern) \subseteq {STAR, DOT})
  /\ \A label \in Labels(pattern) :
       label # <<>> /\ ToSet(label) \subseteq NameBytes \cup {STAR}
  /\ ~AllDigits(LastLabel(pattern))

is_unkeyed(pattern) == pattern[1] = STAR /\ Last(pattern) = STAR

\* g and t are the next positions in the glob and in the text, star the last *
\* seen and the position it stands in for: <<0, 0>> before the first one.  A
\* mismatch after a * gives that * one byte more.
glob_matches(glob, text) ==
  LET At(g, b) == g <= Len(glob) /\ glob[g] = b
      run[g \in 1 .. Len(glob) + 1, t \in 1 .. Len(text) + 1,
          star \in (0 .. Len(glob)) \X (0 .. Len(text) + 1)] ==
        IF t > Len(text) THEN \A i \in g .. Len(glob) : glob[i] = STAR
        ELSE IF At(g, STAR) THEN run[g + 1, t, <<g, t>>]
        ELSE IF At(g, to_ascii_lowercase(text[t])) THEN run[g + 1, t + 1, star]
        ELSE /\ star[1] # 0
             /\ run[star[1] + 1, star[2] + 1, <<star[1], star[2] + 1>>]
  IN run[1, 1, <<0, 0>>]

\* What a glob means: the ends, in the text, of what its first i bytes match.
Means(glob, text) ==
  LET ends[i \in 0 .. Len(glob)] ==
        IF i = 0 THEN {0}
        ELSE IF glob[i] = STAR
          THEN {j \in 0 .. Len(text) : \E k \in ends[i - 1] : k <= j}
          ELSE {j \in 1 .. Len(text) :
                  j - 1 \in ends[i - 1] /\ to_ascii_lowercase(text[j]) = glob[i]}
  IN Len(text) \in ends[Len(glob)]

\* Pattern: glob, and whether a parent of the host may match too.
matches(pattern, host) ==
  \/ glob_matches(pattern.glob, host)
  \/ pattern.parents /\ \E name \in parents(host) : glob_matches(pattern.glob, name)

\* The text before the first *.
head(glob) ==
  SubSeq(glob, 1, SelectInSeq(glob \o <<STAR>>, LAMBDA b : b = STAR) - 1)

\* The text after the last *.
tail(glob) == SubSeq(glob, SelectLastInSeq(glob, LAMBDA b : b = STAR) + 1, Len(glob))
=============================================================================
