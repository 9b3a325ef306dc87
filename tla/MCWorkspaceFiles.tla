-------------------------- MODULE MCWorkspaceFiles --------------------------
(* Instances of WorkspaceFiles for TLC. *)
EXTENDS WorkspaceFiles

Empty == <<>>
GitOn == <<"sync">> :> "table" @@ IncludeGit :> "true"
GitOff == <<"sync">> :> "table" @@ IncludeGit :> "false"
NoTable == <<"sync">> :> "true"
Unknown == <<"color">> :> "true"
Redis(key, value) == <<"infra">> :> "table" @@ <<"infra", "redis">> :> "table" @@ key :> value
RedisOff == Redis(RedisEnabled, "false")
Elsewhere == Redis(RedisTarget, "redis.env")

\* The user's file, the legacy file of the workspace and its own.
Layered ==
  {<<u, l, w>> : u \in {Empty, GitOn, Unparsable}, l \in {Empty, Elsewhere, NoTable},
                 w \in {Empty, RedisOff, GitOff}}
Requested == {Empty, GitOn, Redis(RedisTarget, "null"), Unknown}

Version(n) == <<Line("", n)>>
Archived_order == <<Dotenv, <<".git", "HEAD">>, <<"lib", ".git">>, <<"main">>, <<"redis.env">>>>
Written ==
  [p \in Paths |->
     IF p = Dotenv
     THEN {<<Line("DB", "old"), Line("", "note"), Line("DB", "older"), Blank>>}
     ELSE IF p = <<"redis.env">> THEN {} ELSE {Version("v1"), Version("v2")}]
Start ==
  {[p \in Paths |-> CASE p = Dotenv -> e [] p = <<"redis.env">> -> Absent [] OTHER -> Version("v1")]
     : e \in Written[Dotenv] \cup {Absent}}

Patterns == {{}, {[name |-> "env", below |-> FALSE]}}

Remote(dir, name) == [dir |-> dir, name |-> name]
Collected ==
  {<<Remote("out", <<"app">>), Remote("dist", <<"app">>)>>,
   <<Remote("test", <<"app">>), Remote("out", <<"log">>)>>,
   <<Remote("out", <<1, "app">>), Remote("dist", <<"log">>)>>}

=============================================================================
