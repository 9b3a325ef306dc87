--------------------------- MODULE WorkspaceConfig ---------------------------
(***************************************************************************)
(* The settings of a workspace: built-in defaults, then the configuration  *)
(* files in the order they are read, merged table by table and validated   *)
(* at the end.  Three settings stand for all: a flag, a flag and an        *)
(* optional text two tables down.                                          *)
(*                                                                         *)
(* A configuration is a function from paths of keys to what is there: the  *)
(* word table, for a table with its entries at longer paths, or a value.   *)
(***************************************************************************)
EXTENDS Integers, SequencesExt

IncludeGit == <<"sync", "include_git">>
RedisEnabled == <<"infra", "redis", "enabled">>
RedisTarget == <<"infra", "redis", "inject_env_to">>

Tables == {<<"sync">>, <<"infra">>, <<"infra", "redis">>}
Flags == {IncludeGit, RedisEnabled}
Optional == {RedisTarget}

\* The values: of the right type for a flag, for a text, and for neither.
Booleans == {"true", "false"}
Texts == {".env", "redis.env"}

\* A file that is there but is not TOML.
Unparsable == <<>> :> "unparsable"

Defaults ==
  [p \in Tables \cup Flags \cup Optional |->
     CASE p = IncludeGit -> "false" [] p = RedisEnabled -> "true" [] p = RedisTarget -> ".env"
       [] OTHER -> "table"]

ValueAt(config, p) == IF p \in DOMAIN config THEN config[p] ELSE "absent"

Above(p) == {SubSeq(p, 1, n) : n \in 1..Len(p)}

\* Mutant: dict.update - a table of the file replaces the one below it.
DeepMerge_shallow(base, override) ==
  [p \in DOMAIN override \cup {q \in DOMAIN base : SubSeq(q, 1, 1) \notin DOMAIN override} |->
     IF p \in DOMAIN override THEN override[p] ELSE base[p]]

\* Tables are merged; anything else in the file hides what is below it.
DeepMerge(base, override) ==
  [p \in DOMAIN override \cup {q \in DOMAIN base :
           \A a \in Above(q) \cap DOMAIN override : override[a] = "table"} |->
     IF p \in DOMAIN override THEN override[p] ELSE base[p]]

\* A table may be null, which is as good as empty.
Valid(config) ==
  /\ DOMAIN config \subseteq Tables \cup Flags \cup Optional
  /\ \A p \in Tables \cap DOMAIN config : config[p] \in {"table", "null"}
  /\ \A p \in Flags : ValueAt(config, p) \in Booleans
  /\ \A p \in Optional : ValueAt(config, p) \in Texts \cup {"absent", "null"}

\* files[n] is the n-th file that is read; one that does not exist is empty.
Merged(files) ==
  LET merged[n \in 0..Len(files)] ==
        IF n = 0 THEN Defaults ELSE DeepMerge(merged[n - 1], files[n])
  IN merged[Len(files)]

Accepted(files) ==
  /\ \A i \in DOMAIN files : files[i] # Unparsable
  /\ Valid(Merged(files))

-----------------------------------------------------------------------------
(* The documented precedence, apart from how the merge is computed.         *)

\* A file speaks of a setting if it has it, or has something at a table above
\* it that is no table.
SpeaksOf(file, p) ==
  \E a \in Above(p) \cap DOMAIN file : a = p \/ file[a] # "table"

\* What the file of the highest precedence says that speaks of the setting,
\* and the default where none does.
LastWord(files, p) ==
  LET speaking == {i \in DOMAIN files : SpeaksOf(files[i], p)} IN
  IF speaking = {} THEN Defaults[p] ELSE ValueAt(files[Max(speaking)], p)

=============================================================================
