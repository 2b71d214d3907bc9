---------------------------- MODULE EndpointName ----------------------------
(***************************************************************************)
(* NormalizeEndpointName: the statements of the function one by one, over  *)
(* names made of the kinds of character it tells apart.                    *)
(***************************************************************************)
EXTENDS Naturals, Sequences, FiniteSets, SequencesExt

CONSTANTS Letter,  \* letters, digits and - . , : which are kept as they are
          MaxLen,  \* EndpointNameMaxLength, 200 runes
          Longest  \* bound: the length of the names considered

Disallowed == "*"  \* what is none of the allowed characters, other blanks included
Allowed    == Letter \cup {" ", "_"}
Name       == UNION {[1..n -> Allowed \cup {Disallowed}] : n \in 0..Longest}

ASSUME NameAssumption == /\ MaxLen \in Nat \ {0}
                         /\ Longest \in Nat
                         /\ Disallowed \notin Allowed

VARIABLES name,        \* the argument
          normalized,
          pc,          \* the statement that is next
          result       \* "none", "name" or "blank", the ErrEndpointNameBlank

vars == <<name, normalized, pc, result>>

TypeOK == /\ name \in Name
          /\ normalized \in Seq(Allowed \cup {Disallowed})
          /\ pc \in {"replace", "collapse", "truncate", "check", "done"}
          /\ result \in {"none", "name", "blank"}
          /\ pc = "done" <=> result # "none"
          /\ pc \in {"check", "done"} => Len(normalized) <= MaxLen

Init == /\ name \in Name
        /\ normalized = name
        /\ pc = "replace"
        /\ result = "none"

\* endpointNameDisallowedRe: one underscore for each disallowed character.
Replaced(s) == [i \in DOMAIN s |-> IF s[i] \in Allowed THEN s[i] ELSE "_"]

Doubled(s, i) == i > 1 /\ s[i] = "_" /\ s[i - 1] = "_"

\* Fault: only the first pair of underscores is replaced.
CollapsedOnce(s) ==
  IF \E i \in DOMAIN s : Doubled(s, i)
  THEN RemoveAt(s, CHOOSE i \in DOMAIN s : Doubled(s, i)) ELSE s

\* endpointNameMultiUnderscoreRe: one underscore for each run of them. What is kept of
\* every prefix.
Kept(s) == LET kept[i \in 0..Len(s)] ==
                 IF i = 0 THEN <<>>
                 ELSE IF Doubled(s, i) THEN kept[i - 1] ELSE Append(kept[i - 1], s[i])
           IN kept

Collapsed(s) == Kept(s)[Len(s)]

\* Fault: an off-by-one that keeps one character too many.
TruncatedLate(s) == IF Len(s) > MaxLen + 1 THEN SubSeq(s, 1, MaxLen + 1) ELSE s

\* Fault: an off-by-one that cuts names of the maximal length.
TruncatedEarly(s) == IF Len(s) >= MaxLen THEN SubSeq(s, 1, MaxLen - 1) ELSE s

Truncated(s) == IF Len(s) > MaxLen THEN SubSeq(s, 1, MaxLen) ELSE s

\* Fault: compared with the empty string without TrimSpace.
BlankIfEmpty(s) == s = <<>>

\* Fault: what stands for disallowed characters counts as blank.
BlankOrUnderscore(s) == \A i \in DOMAIN s : s[i] \in {" ", "_"}

\* strings.TrimSpace: of the characters left, only the space is white space.
Blank(s) == \A i \in DOMAIN s : s[i] = " "

Step(from, to, s) == /\ pc = from
                     /\ pc' = to
                     /\ normalized' = s
                     /\ UNCHANGED <<name, result>>

Replace  == Step("replace", "collapse", Replaced(normalized))
Collapse == Step("collapse", "truncate", Collapsed(normalized))
Truncate == Step("truncate", "check", Truncated(normalized))

Check == /\ pc = "check"
         /\ pc' = "done"
         /\ result' = IF Blank(normalized) THEN "blank" ELSE "name"
         /\ UNCHANGED <<name, normalized>>

Next == Replace \/ Collapse \/ Truncate \/ Check

Spec == Init /\ [][Next]_vars
-----------------------------------------------------------------------------
\* The agrirouter accepts the name: openapi.yaml asks for 1 to 200 characters of
\* the allowed kinds, and for one that is not white space.
Accepted == result = "name" => /\ Len(normalized) \in 1..MaxLen
                               /\ normalized \in Seq(Allowed)
                               /\ \E i \in DOMAIN normalized : normalized[i] # " "

\* Normalizing a normalized name changes nothing: an application may store the
\* result and put it again.
Stable == result = "name" => Truncated(Collapsed(Replaced(normalized))) = normalized

\* The result, position by position: of every run of underscores and disallowed
\* characters the first one is kept, as an underscore, and everything else as it
\* is, up to the maximal length.
Under(i) == name[i] \in {"_", Disallowed}

KeptPositions == {i \in DOMAIN name : ~(Under(i) /\ i > 1 /\ Under(i - 1))}

Place(i) == Cardinality({j \in KeptPositions : j <= i})

AsDocumented ==
  pc = "done" =>
    /\ Len(normalized) = IF Cardinality(KeptPositions) < MaxLen
                         THEN Cardinality(KeptPositions) ELSE MaxLen
    /\ \A i \in KeptPositions :
         Place(i) <= MaxLen => normalized[Place(i)] = IF Under(i) THEN "_" ELSE name[i]

\* A name is refused exactly when its first MaxLen characters are spaces, however
\* long it is and whatever follows.
RefusedIfBlank ==
  pc = "done" => (result = "blank" <=> \A i \in DOMAIN name : i <= MaxLen => name[i] = " ")
=============================================================================
