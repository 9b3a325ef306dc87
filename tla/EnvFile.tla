------------------------------- MODULE EnvFile -------------------------------
(***************************************************************************)
(* The .env files that connection variables are injected into, as lines: a *)
(* key and the rest, the empty key for a comment, a blank line or anything *)
(* else that assigns nothing.                                              *)
(***************************************************************************)
EXTENDS Integers, SequencesExt

Blank == [key |-> "", text |-> ""]
Line(k, v) == [key |-> k, text |-> v]

Assigning(lines, k) == {i \in DOMAIN lines : lines[i].key = k}

\* str.rstrip() of the joined lines.
RStrip(lines) == SubSeq(lines, 1, Max({0} \cup {i \in DOMAIN lines : lines[i] # Blank}))

\* Mutant: the first line with the key is replaced.
Rendered_first(lines, updated, k, env) ==
  IF k \notin DOMAIN env THEN updated
  ELSE IF Assigning(lines, k) = {} THEN Append(updated, Line(k, env[k]))
  ELSE [updated EXCEPT ![Min(Assigning(lines, k))] = Line(k, env[k])]

\* The last of the lines that assigns the key is replaced; a key that none
\* assigns is added at the end.
Rendered(lines, updated, k, env) ==
  IF k \notin DOMAIN env THEN updated
  ELSE IF Assigning(lines, k) = {} THEN Append(updated, Line(k, env[k]))
  ELSE [updated EXCEPT ![Max(Assigning(lines, k))] = Line(k, env[k])]

\* The keys one after the other, in their order.
Upsert(lines, env, order) ==
  LET updated[n \in 0..Len(order)] ==
        IF n = 0 THEN lines ELSE Rendered(lines, updated[n - 1], order[n], env)
  IN RStrip(updated[Len(order)])

\* A file opened for writing is written from its start, over what another
\* writer has put there since it was emptied.
Overwritten(old, new) == new \o SubSeq(old, Len(new) + 1, Len(old))

-----------------------------------------------------------------------------
(* What a merge of variables into a file promises.                          *)

\* The value that a reader of the file gets, who lets the last one win.
ValueOf(lines, k) ==
  LET at == Assigning(lines, k) IN
  IF at = {} THEN "" ELSE lines[Max(at)].text

\* Where the lines are that are not about the keys.
Foreign(lines, env) == {i \in DOMAIN lines : lines[i] # Blank /\ lines[i].key \notin DOMAIN env}

MergedInto(old, new, env) ==
  /\ Foreign(new, env) = Foreign(old, env) /\ \A i \in Foreign(old, env) : new[i] = old[i]
  /\ \A k \in DOMAIN env : ValueOf(new, k) = env[k]

=============================================================================
