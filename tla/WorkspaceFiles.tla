--------------------------- MODULE WorkspaceFiles ----------------------------
(***************************************************************************)
(* The tools that move files between the workspace and an instance:        *)
(* prepare_workspace, as far as it injects connection variables into .env  *)
(* files, sync_workspace_to_instance, sync_instance_to_workspace and       *)
(* collect_artifacts.                                                      *)
(*                                                                         *)
(* The user edits the workspace at any moment, and the configuration files *)
(* between any two calls: each call finds settings of its own.             *)
(***************************************************************************)
EXTENDS Naturals, WorkspaceConfig, EnvFile

CONSTANTS
  Callers,      \* the transports' threads
  Stdio,        \* the one that is always served
  Configs,      \* what the configuration files may hold, in reading order
  Overrides,    \* what a request may override them with
  Order,        \* the paths of the workspace in the order they are archived
  Absent,       \* the content of a file that is not there
  Workspaces,   \* what the workspace may hold at the start
  Drafts,       \* per path, what the user may write there
  Excludes,     \* the exclude patterns a sync may be asked for
  Requests,     \* the lists of remote paths that may be collected
  Instance,     \* the instance, in the connection variables that point to it
  MaxCalls, MaxEdits, MaxFaults  \* bounds

Paths == {Order[i] : i \in DOMAIN Order}

\* What paths, files and requests are made of.
Elements(seqs) == UNION {{s[i] : i \in DOMAIN s} : s \in seqs}
Lines == {Line(k, Instance) : k \in {"DB", "REDIS"}}
           \cup Elements(UNION {Drafts[p] : p \in Paths})
Files == Seq(Lines)
Remotes == Elements(Requests)

ASSUME FilesAssumption ==
  /\ Stdio \in Callers
  /\ Configs \subseteq Seq(Elements(Configs))
  /\ Order \in Seq(Paths) /\ Paths \subseteq Seq(Elements(Paths)) \ {<<>>}
  /\ \A p \in Paths : Drafts[p] \subseteq Files
  /\ Absent \notin Files
  /\ Workspaces \subseteq [Paths -> (UNION {Drafts[p] : p \in Paths}) \cup {Absent}]
  /\ Requests \subseteq Seq(Remotes) \ {<<>>}
  /\ \A m \in Remotes : /\ Len(m.name) \in Nat \ {0}
                        /\ m.name = [i \in 1..Len(m.name) |-> m.name[i]]
  /\ MaxCalls \in Nat /\ MaxEdits \in Nat /\ MaxFaults \in Nat

VARIABLES
  host,    \* the workspace on the host
  guest,   \* remote_path in the instance
  dest,    \* local_dest: per file name, the remote path whose file it holds
  call,    \* per caller, the tool call in progress
  calls, edits, faults,
  enable_http  \* MCP_ENABLE_HTTP of the server

counters == <<calls, edits, faults>>
vars == <<host, guest, dest, call, counters, enable_http>>

-----------------------------------------------------------------------------
(* Calls.                                                                   *)

Ops == {"none", "prepare", "sync", "back", "collect"}
CallPCs == {"idle", "load", "read_env", "truncate", "write_env", "archive", "copy", "extract",
            "copy_back", "target", "artifact", "answer"}

\* touched: the paths of the workspace that changed since the call began.
Idle ==
  [pc |-> "idle", op |-> "none", settings |-> <<>>, todo |-> <<>>,
   lines |-> <<>>, patterns |-> {}, listed |-> {}, archive |-> <<>>, copied |-> <<>>,
   touched |-> {}]

At(c, p) == call[c].pc = p

\* Without the http transport only stdio calls.
Served(c) == c = Stdio \/ enable_http

Begin(c, record) ==
  /\ Served(c) /\ At(c, "idle") /\ calls < MaxCalls
  /\ calls' = calls + 1
  /\ call' = [call EXCEPT ![c] = record]
  /\ UNCHANGED <<host, guest, dest, edits, faults, enable_http>>

\* f, with v for x.
Put(f, x, v) == [y \in DOMAIN f \cup {x} |-> IF y = x THEN v ELSE f[y]]

Step(c, record) == call' = [call EXCEPT ![c] = record]
Return(c) == Step(c, Idle)

Fault == faults < MaxFaults /\ faults' = faults + 1

\* A file of the workspace changes; the caller that changes it goes on with
\* record.
Touch(p, content) == host' = [host EXCEPT ![p] = content]
TouchedBy(c, p, record) ==
  call' = [d \in Callers |->
             IF d = c THEN record
             ELSE IF At(d, "idle") THEN call[d]
             ELSE [call[d] EXCEPT !.touched = @ \cup {p}]]

Init ==
  /\ host \in Workspaces
  /\ guest = [p \in Paths |-> Absent]
  /\ dest = <<>>
  /\ call = [c \in Callers |-> Idle]
  /\ calls = 0 /\ edits = 0 /\ faults = 0
  /\ enable_http \in BOOLEAN

-----------------------------------------------------------------------------
(* Settings.                                                                *)

Settings(files) == [p \in Flags \cup Optional |-> ValueAt(Merged(files), p)]

\* What a call can find of the settings it uses.
Resolved == {Settings(files) : files \in {f \in Configs : Accepted(f)}}
Loadable(used) == {[p \in used |-> set[p]] : set \in Resolved}

LoadFails(c) ==
  /\ At(c, "load")
  /\ \E files \in Configs : ~ Accepted(files)
  /\ Return(c)
  /\ UNCHANGED <<host, guest, dest, counters, enable_http>>

-----------------------------------------------------------------------------
(* prepare_workspace.  mysql is always among the services; its variables    *)
(* are the key DB and go to .env, those of redis the key REDIS.             *)

Keys == <<"DB", "REDIS">>
Dotenv == <<".env">>

HasTarget(set, k) ==
  \/ k = "DB"
  \/ k = "REDIS" /\ set[RedisEnabled] = "true" /\ set[RedisTarget] \in Texts

TargetOf(set, k) == IF k = "DB" THEN Dotenv ELSE <<set[RedisTarget]>>

\* Mutant: the variables of the second service take the place of the first's.
InjectedInto_last(set, t) ==
  LET keys == SelectSeq(Keys, LAMBDA k : HasTarget(set, k) /\ TargetOf(set, k) = t) IN
  [k \in {keys[i] : i \in DOMAIN keys \ 1..(Len(keys) - 1)} |-> Instance]

\* What _build_connection_env has for a target.
InjectedInto(set, t) ==
  [k \in {k \in {"DB", "REDIS"} : HasTarget(set, k) /\ TargetOf(set, k) = t} |-> Instance]

InjectTargets(set) ==
  IF HasTarget(set, "REDIS") /\ TargetOf(set, "REDIS") # Dotenv
  THEN <<Dotenv, TargetOf(set, "REDIS")>> ELSE <<Dotenv>>

\* Files to inject into are among the paths of the workspace.
ASSUME TargetsAssumption ==
  /\ Dotenv \in Paths
  /\ \A set \in Resolved : HasTarget(set, "REDIS") => TargetOf(set, "REDIS") \in Paths

BeginPrepare(c) == Begin(c, [Idle EXCEPT !.pc = "load", !.op = "prepare"])

\* Without services there is nothing to inject.
Prepare(c) ==
  /\ At(c, "load") /\ call[c].op = "prepare"
  /\ \/ \E set \in Loadable({RedisEnabled, RedisTarget}) :
          Step(c, [call[c] EXCEPT !.pc = "read_env", !.settings = set, !.todo = InjectTargets(set)])
     \/ Step(c, [call[c] EXCEPT !.pc = "answer"])
  /\ UNCHANGED <<host, guest, dest, counters, enable_http>>

ReadEnv(c) ==
  /\ At(c, "read_env")
  /\ LET t == Head(call[c].todo) IN
     Step(c, [call[c] EXCEPT !.pc = "truncate",
                             !.lines = IF host[t] = Absent THEN <<>> ELSE host[t]])
  /\ UNCHANGED <<host, guest, dest, counters, enable_http>>

\* write_text opens the file, which empties it, before it writes; a file that
\* is deleted in between is written all the same, to nowhere.
TruncateEnv(c) ==
  /\ At(c, "truncate")
  /\ LET t == Head(call[c].todo) IN
     Touch(t, <<>>) /\ TouchedBy(c, t, [call[c] EXCEPT !.pc = "write_env"])
  /\ UNCHANGED <<guest, dest, counters, enable_http>>

WriteEnv(c) ==
  /\ At(c, "write_env")
  /\ LET t == Head(call[c].todo)
         new == Upsert(call[c].lines, InjectedInto(call[c].settings, t), Keys)
         left == Tail(call[c].todo)
     IN /\ Touch(t, IF host[t] = Absent THEN Absent ELSE Overwritten(host[t], new))
        /\ TouchedBy(c, t, [call[c] EXCEPT !.pc = IF left = <<>> THEN "answer" ELSE "read_env",
                                           !.todo = left, !.lines = <<>>])
  /\ UNCHANGED <<guest, dest, counters, enable_http>>

\* The file cannot be opened, or the disk is full.
EnvFails(c) ==
  /\ \E p \in {"read_env", "truncate", "write_env"} : At(c, p)
  /\ Fault /\ Return(c)
  /\ UNCHANGED <<host, guest, dest, calls, edits, enable_http>>

-----------------------------------------------------------------------------
(* sync_workspace_to_instance.  A pattern names an entry, or everything     *)
(* below it.                                                                *)

GitPatterns == {[name |-> ".git", below |-> b] : b \in BOOLEAN}

\* lstrip("./") takes the dot of a top-level name along with the leading ./ .
Undotted == ".git" :> "git" @@ ".env" :> "env" @@ ".venv" :> "venv"
Rel(p) == <<IF p[1] \in DOMAIN Undotted THEN Undotted[p[1]] ELSE p[1]>> \o Tail(p)

\* Mutant: a name is compared with the whole path only.
Matches_whole(rel, x) ==
  IF x.below THEN Len(rel) > 1 /\ rel[1] = x.name ELSE rel = <<x.name>>

Matches(rel, x) ==
  IF x.below THEN Len(rel) > 1 /\ rel[1] = x.name ELSE Last(rel) = x.name

Excluded(p, patterns) == \E x \in patterns : Matches(Rel(p), x)

\* The archive gets to a path when the listing of the workspace had its top
\* and no directory above it is excluded.
Entered(p, listed, patterns) ==
  /\ \E q \in listed : q[1] = p[1]
  /\ \A d \in Above(p) \ {p} : ~ Excluded(d, patterns)

Present == {p \in Paths : host[p] # Absent}

BeginSync(c) == Begin(c, [Idle EXCEPT !.pc = "load", !.op = "sync"])

Sync(c) ==
  /\ At(c, "load") /\ call[c].op = "sync"
  /\ \E set \in Loadable({IncludeGit}), patterns \in Excludes :
       Step(c, [call[c] EXCEPT
         !.pc = "archive", !.settings = set, !.todo = Order, !.listed = Present,
         !.patterns = IF set[IncludeGit] = "true" THEN patterns ELSE patterns \cup GitPatterns])
  /\ UNCHANGED <<host, guest, dest, counters, enable_http>>

\* Mutant: the name that the patterns are compared with goes into the archive.
Member_renamed(archive, p) == Put(archive, Rel(p), host[p])

Member(archive, p) == Put(archive, p, host[p])

Archived(c, archive) ==
  Step(c, [call[c] EXCEPT !.archive = archive, !.todo = Tail(@),
                          !.pc = IF Len(call[c].todo) = 1 THEN "copy" ELSE "archive"])

\* Each file as it is when the archive gets to it.  One that is gone since its
\* directory was listed raises FileNotFoundError; below the top, it may have
\* gone before that.
ArchiveFile(c) ==
  /\ At(c, "archive")
  /\ LET p == Head(call[c].todo)
         entered == Entered(p, call[c].listed, call[c].patterns)
     IN \/ /\ \/ ~ entered
              \/ host[p] = Absent /\ Len(p) > 1
              \/ host[p] # Absent /\ Excluded(p, call[c].patterns)
           /\ Archived(c, call[c].archive)
        \/ /\ entered /\ host[p] # Absent /\ ~ Excluded(p, call[c].patterns)
           /\ Archived(c, Member(call[c].archive, p))
        \/ entered /\ host[p] = Absent /\ Return(c)
  /\ UNCHANGED <<host, guest, dest, counters, enable_http>>

CopyArchive(c) ==
  /\ At(c, "copy")
  /\ \/ Step(c, [call[c] EXCEPT !.pc = "extract"]) /\ UNCHANGED faults
     \/ Fault /\ Return(c)
  /\ UNCHANGED <<host, guest, dest, calls, edits, enable_http>>

\* Mutant: tar -k, files that are there stay as they are.
Extract_keep(c) ==
  /\ At(c, "extract")
  /\ guest' = [p \in Paths |-> IF guest[p] = Absent /\ p \in DOMAIN call[c].archive
                               THEN call[c].archive[p] ELSE guest[p]]
  /\ Step(c, [call[c] EXCEPT !.pc = "answer"])
  /\ UNCHANGED <<host, dest, counters, enable_http>>

\* Over what is there; tar may fail when it has unpacked the first n paths.
Extract(c) ==
  LET unpacked(n) == [p \in Paths |->
        IF p \in DOMAIN call[c].archive /\ p \in {Order[i] : i \in 1..n}
        THEN call[c].archive[p] ELSE guest[p]]
  IN
  /\ At(c, "extract")
  /\ \/ /\ guest' = unpacked(Len(Order))
        /\ Step(c, [call[c] EXCEPT !.pc = "answer"])
        /\ UNCHANGED faults
     \/ /\ \E n \in 0..(Len(Order) - 1) : guest' = unpacked(n)
        /\ Fault /\ Return(c)
  /\ UNCHANGED <<host, dest, calls, edits, enable_http>>

-----------------------------------------------------------------------------
(* sync_instance_to_workspace, of a file that the guest has.                *)

BeginBack(c) ==
  \E p \in Paths :
    Begin(c, [Idle EXCEPT !.pc = "copy_back", !.op = "back", !.todo = <<p>>])

CopyBack(c) ==
  /\ At(c, "copy_back")
  /\ LET p == Head(call[c].todo) IN
     \/ /\ guest[p] # Absent
        /\ Touch(p, guest[p]) /\ TouchedBy(c, p, [call[c] EXCEPT !.pc = "answer"])
        /\ UNCHANGED faults
     \/ /\ guest[p] # Absent /\ Fault
        /\ Touch(p, <<>>) /\ TouchedBy(c, p, Idle)
     \/ /\ guest[p] = Absent /\ Return(c)
        /\ UNCHANGED <<host, faults>>
  /\ UNCHANGED <<guest, dest, calls, edits, enable_http>>

-----------------------------------------------------------------------------
(* collect_artifacts.  A remote path is its directory and its name; a name  *)
(* is a sequence: <<"app">>, and <<1, "app">> for 1-app.                    *)

BeginCollect(c) ==
  \E remotes \in Requests :
    Begin(c, [Idle EXCEPT !.pc = "target", !.op = "collect", !.todo = remotes])

\* Mutant: whether the target exists is not looked at.
TargetName_plain(remote, idx) == remote.name

TargetName(remote, idx) ==
  IF remote.name \in DOMAIN dest THEN <<idx>> \o remote.name ELSE remote.name

ChooseTarget(c) ==
  /\ At(c, "target")
  /\ LET idx == Len(call[c].copied) IN
     Step(c, [call[c] EXCEPT
                !.pc = "artifact",
                !.copied = Append(@, [remote |-> Head(call[c].todo),
                                      target |-> TargetName(Head(call[c].todo), idx)])])
  /\ UNCHANGED <<host, guest, dest, counters, enable_http>>

CopyArtifact(c) ==
  /\ At(c, "artifact")
  /\ LET this == Last(call[c].copied)
         left == Tail(call[c].todo)
     IN \/ /\ dest' = Put(dest, this.target, this.remote)
           /\ Step(c, [call[c] EXCEPT !.pc = IF left = <<>> THEN "answer" ELSE "target",
                                      !.todo = left])
           /\ UNCHANGED faults
        \/ Fault /\ Return(c) /\ UNCHANGED dest
  /\ UNCHANGED <<host, guest, calls, edits, enable_http>>

Answer(c) ==
  /\ At(c, "answer") /\ Return(c)
  /\ UNCHANGED <<host, guest, dest, counters, enable_http>>

-----------------------------------------------------------------------------
(* The user and the machine.                                                *)

Edit(p) ==
  /\ edits < MaxEdits /\ edits' = edits + 1
  /\ \E content \in (Drafts[p] \cup {Absent}) \ {host[p]} : Touch(p, content)
  /\ call' = [c \in Callers |-> IF At(c, "idle") THEN call[c]
                                ELSE [call[c] EXCEPT !.touched = @ \cup {p}]]
  /\ UNCHANGED <<guest, dest, calls, faults, enable_http>>

Crash ==
  /\ Fault /\ \E c \in Callers : ~ At(c, "idle")
  /\ call' = [c \in Callers |-> Idle]
  /\ UNCHANGED <<host, guest, dest, calls, edits, enable_http>>

CallStep(c) ==
  \/ LoadFails(c)
  \/ BeginPrepare(c) \/ Prepare(c) \/ ReadEnv(c) \/ TruncateEnv(c) \/ WriteEnv(c) \/ EnvFails(c)
  \/ BeginSync(c) \/ Sync(c) \/ ArchiveFile(c) \/ CopyArchive(c) \/ Extract(c)
  \/ BeginBack(c) \/ CopyBack(c)
  \/ BeginCollect(c) \/ ChooseTarget(c) \/ CopyArtifact(c)
  \/ Answer(c)

Next ==
  \/ \E c \in Callers : CallStep(c)
  \/ \E p \in Paths : Edit(p)
  \/ Crash

Spec == Init /\ [][Next]_vars

-----------------------------------------------------------------------------
(* Properties.                                                              *)

TypeOK ==
  /\ DOMAIN host = Paths /\ DOMAIN guest = Paths
  /\ \A c \in Callers :
       /\ call[c].pc \in CallPCs /\ call[c].op \in Ops
       /\ call[c].touched \cup call[c].listed \cup DOMAIN call[c].archive \subseteq Paths
       /\ At(c, "idle") => call[c] = Idle
  /\ calls \in 0..MaxCalls /\ edits \in 0..MaxEdits /\ faults \in 0..MaxFaults

\* What the configuration files may hold, below a request's overrides or none.
Layers == {Append(files, o) : files \in Configs, o \in Overrides \cup {<<>>}}
LastWords ==
  \A files \in Layers : Accepted(files) =>
    \A p \in Flags \cup Optional : Settings(files)[p] = LastWord(files, p)

\* Whatever the files hold when a call loads its settings: if they are accepted
\* they are, one by one, what the file of the highest precedence says that has
\* anything to say, a request before any file, and the default otherwise.  A
\* file with one key of a table leaves the other keys of that table to the files
\* below (_deep_merge; README.md:278).
LastWordCounts == \A c \in Callers : At(c, "load") => LastWords

\* A write of an .env file that nobody interferes with gives each variable its
\* value to a reader that lets the last line win, keeps every other line in its
\* place, and would not change anything if it were done again
\* (_write_env_targets).
UpsertMerges ==
  [][\A c \in Callers :
       At(c, "write_env") /\ call'[c].pc \in {"read_env", "answer"} =>
         LET t == Head(call[c].todo)
             env == InjectedInto(call[c].settings, t)
         IN host[t] = <<>> =>
              /\ MergedInto(call[c].lines, host'[t], env)
              /\ Upsert(host'[t], env, Keys) = host'[t]]_vars

\* With one transport: when prepare_workspace answers that it has injected the
\* variables, those of every service stand in the file the service is configured
\* for, unless the user has changed that file meanwhile - also when two services
\* share a file (prepare_workspace).
PreparedMeansInjected ==
  ~ enable_http =>
    \A c \in Callers : At(c, "answer") /\ call[c].op = "prepare" /\ call[c].settings # <<>> =>
      \A k \in {"DB", "REDIS"} :
        LET set == call[c].settings IN
        HasTarget(set, k) /\ TargetOf(set, k) \notin call[c].touched =>
          /\ host[TargetOf(set, k)] # Absent
          /\ ValueOf(host[TargetOf(set, k)], k) = Instance

\* With one transport: when a sync answers, the guest has every file that was
\* there when it began and is not excluded, as it is on the host, unless the
\* user has changed it meanwhile, whatever the guest had before
\* (sync_workspace_to_instance).
SyncedIsCurrent ==
  ~ enable_http =>
    \A c \in Callers : At(c, "answer") /\ call[c].op = "sync" =>
      \A p \in call[c].listed \ call[c].touched :
        Entered(p, call[c].listed, call[c].patterns) /\ ~ Excluded(p, call[c].patterns) =>
          guest[p] = host[p]

\* Below the top of the workspace, no archive has anything an exclude pattern
\* names, nor anything under a directory that one names, at whatever depth
\* (filter_member).
ExcludedStayHome ==
  \A c \in Callers : \A p \in DOMAIN call[c].archive : \A i \in 2..Len(p) :
    p[i] \notin {x.name : x \in {y \in call[c].patterns : ~ y.below}}

\* With one transport: when artifacts have been collected, every target that
\* the answer lists holds the file of its own remote path, also when remote
\* paths have the same name and when earlier collections went to the same place
\* - as long as no remote file is itself called like a numbered copy
\* (collect_artifacts).
ArtifactsAreTheirOwn ==
  ~ enable_http =>
    \A c \in Callers : At(c, "answer") /\ call[c].op = "collect" =>
      \/ \E i \in DOMAIN call[c].copied : Len(call[c].copied[i].remote.name) > 1
      \/ \A i \in DOMAIN call[c].copied :
          dest[call[c].copied[i].target] = call[c].copied[i].remote

\* Without include_git, no archive has anything of a .git directory
\* (examples/sample-workspace/.sandboxforge.toml:60; false, see SyncGit.cfg).
GitStaysHome ==
  \A c \in Callers :
    call[c].op = "sync" /\ call[c].settings # <<>> /\ call[c].settings[IncludeGit] = "false" =>
      \A p \in DOMAIN call[c].archive : ".git" \notin {p[i] : i \in DOMAIN p}

=============================================================================
