------------------------ MODULE WorkspaceFilesProofs ------------------------
(***************************************************************************)
(* Proofs about WorkspaceFiles: for every workspace, every content of the  *)
(* configuration files and every bound, that the settings are the last     *)
(* word of the files, that a write of an .env file merges, and that what   *)
(* is excluded stays at home below the top; with one transport, that a     *)
(* prepared workspace has its variables, that a sync brings all files, and *)
(* that collected artifacts do not overwrite each other.                   *)
(***************************************************************************)
EXTENDS WorkspaceFiles, SequenceTheorems, WellFoundedInduction, TLAPS

-----------------------------------------------------------------------------
(* Types.                                                                   *)

EnvPCs == {"read_env", "truncate", "write_env"}
Contents == Files \cup {Absent}

Fields == {"pc", "op", "settings", "todo", "lines", "patterns", "listed", "archive",
           "copied", "touched"}

\* A call that works on paths has one to work on, and none has archived
\* anything before its settings are loaded.
IsCall(k) ==
  /\ k = [f \in Fields |-> k[f]]
  /\ k.pc \in CallPCs /\ k.op \in Ops
  /\ k.touched \subseteq Paths /\ k.listed \subseteq Paths
  /\ DOMAIN k.archive \subseteq Paths /\ k.archive \in [DOMAIN k.archive -> Files]
  /\ k.lines \in Files
  /\ k.pc \in EnvPCs \cup {"archive", "copy_back"} => k.todo \in Seq(Paths) \ {<<>>}
  /\ k.pc \in EnvPCs => k.op = "prepare"
  /\ k.pc \in {"archive", "copy", "extract"} => k.op = "sync"
  /\ k.pc = "copy_back" => k.op = "back"
  /\ k.pc \in {"target", "artifact"} => k.op = "collect"
  /\ k.pc = "idle" => k = Idle
  /\ k.pc = "load" => k.archive = <<>> /\ k.settings = <<>>

Typed ==
  /\ host \in [Paths -> Contents] /\ guest \in [Paths -> Contents]
  /\ call = [c \in Callers |-> call[c]]
  /\ \A c \in Callers : IsCall(call[c])
  /\ calls \in 0..MaxCalls /\ edits \in 0..MaxEdits /\ faults \in 0..MaxFaults

LEMMA NoLines == <<>> \in Files /\ DOMAIN <<>> = {} /\ <<>> \in [DOMAIN <<>> -> Files]
BY DEF Files

LEMMA DraftsAreFiles ==
  ASSUME NEW p \in Paths
  PROVE  Drafts[p] \subseteq Files
BY FilesAssumption

LEMMA IdleIsCall == IsCall(Idle)
BY NoLines DEF IsCall, Idle, CallPCs, Ops, EnvPCs, Fields

\* Only the mark of a call that is interfered with changes.
Marked(k, r, p) ==
  /\ r.pc = k.pc /\ r.op = k.op /\ r.settings = k.settings /\ r.todo = k.todo
  /\ r.lines = k.lines /\ r.patterns = k.patterns /\ r.listed = k.listed
  /\ r.archive = k.archive /\ r.copied = k.copied /\ r.touched = k.touched \cup {p}

LEMMA TouchedCall ==
  ASSUME NEW k, IsCall(k), k.pc # "idle", NEW p \in Paths
  PROVE  /\ IsCall([k EXCEPT !.touched = @ \cup {p}])
         /\ Marked(k, [k EXCEPT !.touched = @ \cup {p}], p)
<1> DEFINE r == [k EXCEPT !.touched = @ \cup {p}]
<1>1. r = [f \in Fields |-> r[f]] /\ Marked(k, r, p)
  <2>1. k = [f \in Fields |-> k[f]]
    BY DEF IsCall
  <2> QED
    BY <2>1 DEF Fields, Marked
<1> HIDE DEF r
<1>2. IsCall(r)
  BY <1>1 DEF IsCall, Marked
<1> QED
  BY <1>1, <1>2 DEF r

\* A step of one call, seen from all of them.
LEMMA StepTyped ==
  ASSUME Typed, NEW c \in Callers, NEW r, IsCall(r), Step(c, r)
  PROVE  /\ call' = [d \in Callers |-> call'[d]]
         /\ call'[c] = r /\ \A d \in Callers \ {c} : call'[d] = call[d]
         /\ \A d \in Callers : IsCall(call'[d])
BY DEF Typed, Step

LEMMA TouchTyped ==
  ASSUME Typed, NEW c \in Callers, NEW r, IsCall(r), NEW p \in Paths, TouchedBy(c, p, r)
  PROVE  /\ call' = [d \in Callers |-> call'[d]]
         /\ call'[c] = r
         /\ \A d \in Callers \ {c} : call'[d] = call[d] \/ Marked(call[d], call'[d], p)
         /\ \A d \in Callers : At(d, "idle") /\ d # c => call'[d] = call[d]
         /\ \A d \in Callers : IsCall(call'[d])
<1>1. /\ call' = [d \in Callers |-> call'[d]]
      /\ call'[c] = r
      /\ \A d \in Callers \ {c} :
           call'[d] = IF At(d, "idle") THEN call[d] ELSE [call[d] EXCEPT !.touched = @ \cup {p}]
  BY DEF TouchedBy
<1>2. ASSUME NEW d \in Callers \ {c}
      PROVE  IsCall(call'[d]) /\ (call'[d] = call[d] \/ Marked(call[d], call'[d], p))
  <2>1. IsCall(call[d])
    BY DEF Typed
  <2>2. CASE At(d, "idle")
    BY <1>1, <2>1, <2>2
  <2>3. CASE ~ At(d, "idle")
    <3> DEFINE m == [call[d] EXCEPT !.touched = @ \cup {p}]
    <3>1. IsCall(m) /\ Marked(call[d], m, p)
      BY <2>1, <2>3, TouchedCall DEF At
    <3>2. call'[d] = m
      BY <1>1, <2>3
    <3> HIDE DEF m
    <3> QED
      BY <3>1, <3>2
  <2> QED
    BY <2>2, <2>3
<1> QED
  BY <1>1, <1>2

\* What every step of a call leaves alone.
Same(k, r) == r.op = k.op /\ r.touched = k.touched
SameSync(k, r) == r.patterns = k.patterns /\ r.listed = k.listed /\ r.archive = k.archive

LEMMA BeginPrepareMoves ==
  ASSUME NEW c \in Callers, BeginPrepare(c)
  PROVE  \E r : IsCall(r) /\ Step(c, r) /\ r.pc = "load" /\ r.op = "prepare"
<1> DEFINE r == [Idle EXCEPT !.pc = "load", !.op = "prepare"]
<1>1. Step(c, r)
  BY DEF BeginPrepare, Begin, Step
<1>2. IsCall(r) /\ r.pc = "load" /\ r.op = "prepare"
  BY IdleIsCall DEF IsCall, Idle, CallPCs, Ops, EnvPCs, Fields
<1> HIDE DEF r
<1> QED
  BY <1>1, <1>2

LEMMA BeginSyncMoves ==
  ASSUME NEW c \in Callers, BeginSync(c)
  PROVE  \E r : IsCall(r) /\ Step(c, r) /\ r.pc = "load" /\ r.op = "sync"
<1> DEFINE r == [Idle EXCEPT !.pc = "load", !.op = "sync"]
<1>1. Step(c, r)
  BY DEF BeginSync, Begin, Step
<1>2. IsCall(r) /\ r.pc = "load" /\ r.op = "sync"
  BY IdleIsCall DEF IsCall, Idle, CallPCs, Ops, EnvPCs, Fields
<1> HIDE DEF r
<1> QED
  BY <1>1, <1>2

LEMMA BeginBackMoves ==
  ASSUME NEW c \in Callers, BeginBack(c)
  PROVE  \E r : IsCall(r) /\ Step(c, r) /\ r.pc = "copy_back" /\ r.op = "back" /\ r.archive = <<>>
<1>1. PICK p \in Paths : Begin(c, [Idle EXCEPT !.pc = "copy_back", !.op = "back", !.todo = <<p>>])
  BY DEF BeginBack
<1> DEFINE todo == <<p>>
<1>2. todo \in Seq(Paths) \ {<<>>}
  OBVIOUS
<1> HIDE DEF todo
<1> DEFINE r == [Idle EXCEPT !.pc = "copy_back", !.op = "back", !.todo = todo]
<1>3. Step(c, r)
  BY <1>1 DEF Begin, Step, todo
<1>4. IsCall(r) /\ r.pc = "copy_back" /\ r.op = "back" /\ r.archive = <<>>
  BY <1>2, IdleIsCall DEF IsCall, Idle, CallPCs, Ops, EnvPCs, Fields
<1> HIDE DEF r
<1> QED
  BY <1>3, <1>4

LEMMA BeginCollectMoves ==
  ASSUME NEW c \in Callers, BeginCollect(c)
  PROVE  \E r : /\ IsCall(r) /\ Step(c, r) /\ r.pc = "target" /\ r.op = "collect"
                /\ r.archive = <<>> /\ r.copied = <<>> /\ r.todo \in Seq(Remotes) \ {<<>>}
<1>1. PICK remotes \in Requests :
        Begin(c, [Idle EXCEPT !.pc = "target", !.op = "collect", !.todo = remotes])
  BY DEF BeginCollect
<1> DEFINE r == [Idle EXCEPT !.pc = "target", !.op = "collect", !.todo = remotes]
<1>2. Step(c, r)
  BY <1>1 DEF Begin, Step
<1>3. r.todo \in Seq(Remotes) \ {<<>>}
  BY FilesAssumption DEF Idle
<1>4. IsCall(r) /\ r.pc = "target" /\ r.op = "collect" /\ r.archive = <<>> /\ r.copied = <<>>
  BY IdleIsCall DEF IsCall, Idle, CallPCs, Ops, EnvPCs, Fields
<1> HIDE DEF r
<1> QED
  BY <1>2, <1>3, <1>4

\* prepare_workspace.

LEMMA TargetPaths ==
  ASSUME NEW set \in Loadable({RedisEnabled, RedisTarget})
  PROVE  InjectTargets(set) \in Seq(Paths) \ {<<>>}
<1>1. PICK whole \in Resolved : set = [p \in {RedisEnabled, RedisTarget} |-> whole[p]]
  BY DEF Loadable
<1>2. /\ HasTarget(set, "REDIS") <=> HasTarget(whole, "REDIS")
      /\ TargetOf(set, "REDIS") = TargetOf(whole, "REDIS")
  BY <1>1 DEF HasTarget, TargetOf
<1>3. Dotenv \in Paths /\ (HasTarget(set, "REDIS") => TargetOf(set, "REDIS") \in Paths)
  BY <1>2, TargetsAssumption
<1> QED
  BY <1>3 DEF InjectTargets

LEMMA PrepareMoves ==
  ASSUME Typed, NEW c \in Callers, Prepare(c)
  PROVE  \E r : /\ IsCall(r) /\ Step(c, r) /\ Same(call[c], r) /\ SameSync(call[c], r)
                /\ r.op = "prepare"
                /\ \/ /\ r.pc = "read_env"
                      /\ r.settings \in Loadable({RedisEnabled, RedisTarget})
                      /\ r.todo = InjectTargets(r.settings)
                   \/ r.pc = "answer" /\ r.settings = call[c].settings
<1>1. IsCall(call[c])
  BY DEF Typed
<1>2. CASE Step(c, [call[c] EXCEPT !.pc = "answer"])
  <2> DEFINE r == [call[c] EXCEPT !.pc = "answer"]
  <2>1. /\ IsCall(r) /\ r.pc = "answer" /\ r.op = "prepare" /\ r.settings = call[c].settings
        /\ Same(call[c], r) /\ SameSync(call[c], r)
    BY <1>1 DEF IsCall, CallPCs, EnvPCs, Fields, Prepare, Same, SameSync
  <2> HIDE DEF r
  <2> QED
    BY <1>2, <2>1 DEF r
<1>3. ASSUME NEW set \in Loadable({RedisEnabled, RedisTarget}),
             Step(c, [call[c] EXCEPT !.pc = "read_env", !.settings = set,
                                     !.todo = InjectTargets(set)])
      PROVE  \E r : /\ IsCall(r) /\ Step(c, r) /\ Same(call[c], r) /\ SameSync(call[c], r)
                    /\ r.op = "prepare" /\ r.pc = "read_env"
                    /\ r.settings \in Loadable({RedisEnabled, RedisTarget})
                    /\ r.todo = InjectTargets(r.settings)
  <2> DEFINE todo == InjectTargets(set)
  <2>1. todo \in Seq(Paths) \ {<<>>}
    BY TargetPaths
  <2> HIDE DEF todo
  <2> DEFINE r == [call[c] EXCEPT !.pc = "read_env", !.settings = set, !.todo = todo]
  <2>2. /\ IsCall(r) /\ r.pc = "read_env" /\ r.op = "prepare" /\ r.settings = set /\ r.todo = todo
        /\ Same(call[c], r) /\ SameSync(call[c], r)
    BY <1>1, <2>1 DEF IsCall, CallPCs, EnvPCs, Fields, Prepare, Same, SameSync
  <2>3. Step(c, r)
    BY <1>3 DEF todo
  <2> HIDE DEF r
  <2> QED
    BY <2>2, <2>3 DEF todo
<1> QED
  BY <1>2, <1>3 DEF Prepare

LEMMA ReadEnvMoves ==
  ASSUME Typed, NEW c \in Callers, ReadEnv(c)
  PROVE  \E r : /\ IsCall(r) /\ Step(c, r) /\ Same(call[c], r) /\ SameSync(call[c], r)
                /\ r.pc = "truncate" /\ r.settings = call[c].settings /\ r.todo = call[c].todo
                /\ Head(r.todo) \in Paths
<1> DEFINE t == Head(call[c].todo)
           lines == IF host[t] = Absent THEN <<>> ELSE host[t]
<1>1. IsCall(call[c])
  BY DEF Typed
<1>2. t \in Paths
  BY <1>1 DEF ReadEnv, IsCall, EnvPCs, At
<1>3. lines \in Files
  BY <1>2, NoLines DEF Typed, Contents
<1>4. Step(c, [call[c] EXCEPT !.pc = "truncate", !.lines = lines])
  BY DEF ReadEnv
<1> HIDE DEF lines
<1> DEFINE r == [call[c] EXCEPT !.pc = "truncate", !.lines = lines]
<1>5. /\ IsCall(r) /\ r.pc = "truncate" /\ r.settings = call[c].settings /\ r.todo = call[c].todo
      /\ Same(call[c], r) /\ SameSync(call[c], r)
  BY <1>1, <1>3 DEF IsCall, CallPCs, EnvPCs, Fields, ReadEnv, At, Same, SameSync
<1> HIDE DEF r
<1> QED
  BY <1>2, <1>4, <1>5 DEF r

-----------------------------------------------------------------------------
(* Lines of .env files.                                                     *)

\* Numbers, if there are any, have a least one: what holds of all lengths is
\* proved by looking at the least length it would not hold of.
LEMMA Least ==
  ASSUME NEW T, T \subseteq Nat, T # {}
  PROVE  \E m \in T : \A y \in T : m <= y
<1>1. PICK m \in T : \A y \in T : ~ (<<y, m>> \in OpToRel(<, Nat))
  BY NatLessThanWellFounded, WFMin
<1>2. ASSUME NEW y \in T PROVE m <= y
  <2>1. <<y, m>> \in Nat \X Nat /\ (y < m => <<y, m>> \in OpToRel(<, Nat))
    BY DEF OpToRel
  <2>2. ~ (y < m)
    BY <1>1, <2>1, Zenon
  <2> QED
    BY <2>2
<1> QED
  BY <1>2

LEMMA MaxOf ==
  ASSUME NEW n \in Nat, NEW S \in SUBSET (0..n), S # {}
  PROVE  Max(S) \in S /\ \A x \in S : x <= Max(S)
<1> DEFINE T == {n - x : x \in S}
<1>1. T \subseteq Nat /\ T # {}
  <2>1. \A x \in S : n - x \in Nat
    OBVIOUS
  <2> QED
    BY <2>1
<1>2. PICK m \in T : \A y \in T : m <= y
  <2> HIDE DEF T
  <2> QED
    BY <1>1, Least
<1>3. PICK x \in S : m = n - x
  BY <1>2
<1>4. \A y \in S : y <= x
  <2> SUFFICES ASSUME NEW y \in S PROVE y <= x
    OBVIOUS
  <2>1. m <= n - y
    BY <1>2
  <2> QED
    BY <1>3, <2>1
<1> QED
  BY <1>4 DEF Max

\* The last line that assigns k gives it v.
LastLine(lines, k, v) ==
  \E i \in DOMAIN lines : /\ lines[i] = Line(k, v)
                          /\ \A j \in DOMAIN lines : lines[j].key = k => j <= i

LEMMA LastLineValue ==
  ASSUME NEW L, NEW lines \in Seq(L), NEW k, NEW v, LastLine(lines, k, v)
  PROVE  ValueOf(lines, k) = v
<1>1. PICK i \in DOMAIN lines : /\ lines[i] = Line(k, v)
                                /\ \A j \in DOMAIN lines : lines[j].key = k => j <= i
  BY DEF LastLine
<1>2. i \in Assigning(lines, k)
  BY <1>1 DEF Line, Assigning
<1>3. Assigning(lines, k) \in SUBSET (0..Len(lines)) /\ Len(lines) \in Nat
  BY DEF Assigning
<1>4. Max(Assigning(lines, k)) = i
  <2>1. /\ Max(Assigning(lines, k)) \in Assigning(lines, k)
        /\ i <= Max(Assigning(lines, k))
    BY <1>2, <1>3, MaxOf
  <2>2. Max(Assigning(lines, k)) <= i
    BY <1>1, <2>1 DEF Assigning
  <2> QED
    BY <1>2, <1>3, <2>1, <2>2
<1>5. ValueOf(lines, k) = lines[i].text
  BY <1>2, <1>4 DEF ValueOf
<1>6. lines[i].text = v
  BY <1>1 DEF Line
<1> QED
  BY <1>5, <1>6

\* A key is written to the line that gave it its value before, or to a new one,
\* and no other key is disturbed.
LEMMA RenderedLines ==
  ASSUME NEW L, NEW lines \in Seq(L), NEW updated \in Seq(L), NEW k, NEW env,
         k \in DOMAIN env => Line(k, env[k]) \in L,
         Assigning(updated, k) = Assigning(lines, k)
  PROVE  LET r == Rendered(lines, updated, k, env) IN
         /\ r \in Seq(L)
         /\ k \in DOMAIN env => LastLine(r, k, env[k])
         /\ \A m : m # k => Assigning(r, m) = Assigning(updated, m)
         /\ \A m, v : m # k /\ LastLine(updated, m, v) => LastLine(r, m, v)
<1> DEFINE r == Rendered(lines, updated, k, env)
           at == Max(Assigning(lines, k))
           new == Line(k, env[k])
<1>1. CASE k \notin DOMAIN env
  BY <1>1 DEF Rendered
<1>2. CASE k \in DOMAIN env /\ Assigning(lines, k) = {}
  <2>1. r = Append(updated, new) /\ new \in L /\ new.key = k
    BY <1>2 DEF Rendered, Line
  <2> HIDE DEF r, new
  <2>2. /\ r \in Seq(L) /\ DOMAIN r = 1..(Len(updated) + 1) /\ DOMAIN updated = 1..Len(updated)
        /\ Len(updated) \in Nat
        /\ r[Len(updated) + 1] = new /\ \A i \in DOMAIN updated : r[i] = updated[i]
    BY <2>1
  <2>3. LastLine(r, k, env[k])
    BY <2>2 DEF LastLine, new
  <2>4. ASSUME NEW m, m # k PROVE Assigning(r, m) = Assigning(updated, m)
    BY <2>1, <2>2, <2>4 DEF Assigning
  <2>5. ASSUME NEW m, NEW v, m # k, LastLine(updated, m, v) PROVE LastLine(r, m, v)
    BY <2>1, <2>2, <2>5 DEF LastLine
  <2> QED
    BY <2>2, <2>3, <2>4, <2>5 DEF r
<1>3. CASE k \in DOMAIN env /\ Assigning(lines, k) # {}
  <2>1. r = [updated EXCEPT ![at] = new] /\ new \in L /\ new.key = k
    BY <1>3 DEF Rendered, Line
  <2>2. at \in Assigning(updated, k) /\ \A i \in Assigning(updated, k) : i <= at
    <3>1. Assigning(lines, k) \in SUBSET (0..Len(lines)) /\ Len(lines) \in Nat
      BY DEF Assigning
    <3> QED
      BY <1>3, <3>1, MaxOf
  <2> HIDE DEF r, new, at
  <2>3. /\ r \in Seq(L) /\ DOMAIN r = DOMAIN updated /\ at \in DOMAIN updated
        /\ updated[at].key = k
        /\ r[at] = new /\ \A i \in DOMAIN updated : i # at => r[i] = updated[i]
    BY <2>1, <2>2 DEF Assigning
  <2>4. LastLine(r, k, env[k])
    BY <2>2, <2>3 DEF LastLine, new, Assigning
  <2>5. ASSUME NEW m, m # k PROVE Assigning(r, m) = Assigning(updated, m)
    BY <2>1, <2>3, <2>5 DEF Assigning
  <2>6. ASSUME NEW m, NEW v, m # k, LastLine(updated, m, v) PROVE LastLine(r, m, v)
    <3>1. PICK i \in DOMAIN updated :
            /\ updated[i] = Line(m, v)
            /\ \A j \in DOMAIN updated : updated[j].key = m => j <= i
      BY <2>6 DEF LastLine
    <3>2. i # at
      BY <2>3, <2>6, <3>1 DEF Line
    <3> QED
      BY <2>1, <2>3, <2>6, <3>1, <3>2 DEF LastLine
  <2> QED
    BY <2>3, <2>4, <2>5, <2>6 DEF r
<1> QED
  BY <1>1, <1>2, <1>3

LEMMA RStripLines ==
  ASSUME NEW L, NEW lines \in Seq(L)
  PROVE  /\ RStrip(lines) \in Seq(L)
         /\ \A k, v : k # "" /\ LastLine(lines, k, v) => LastLine(RStrip(lines), k, v)
<1> DEFINE S == {0} \cup {i \in DOMAIN lines : lines[i] # Blank}
           n == Max(S)
<1>1. n \in 0..Len(lines) /\ \A i \in S : i <= n
  <2>1. S \in SUBSET (0..Len(lines)) /\ S # {} /\ Len(lines) \in Nat
    OBVIOUS
  <2> HIDE DEF S
  <2> QED
    BY <2>1, MaxOf
<1>2. RStrip(lines) = SubSeq(lines, 1, n)
  BY DEF RStrip
<1> HIDE DEF n
<1> DEFINE r == SubSeq(lines, 1, n)
<1>3. r \in Seq(L) /\ DOMAIN r = 1..n /\ \A i \in 1..n : r[i] = lines[i]
  BY <1>1
<1>4. ASSUME NEW k, NEW v, k # "", LastLine(lines, k, v)
      PROVE  LastLine(r, k, v)
  <2>1. PICK i \in DOMAIN lines : /\ lines[i] = Line(k, v)
                                  /\ \A j \in DOMAIN lines : lines[j].key = k => j <= i
    BY <1>4 DEF LastLine
  <2>2. i \in S
    <3>1. lines[i].key = k /\ Blank.key = ""
      BY <2>1 DEF Line, Blank
    <3> QED
      BY <1>4, <3>1
  <2>3. i \in 1..n
    BY <1>1, <2>2
  <2> HIDE DEF r
  <2> QED
    BY <1>1, <1>3, <2>1, <2>3 DEF LastLine
<1> QED
  BY <1>2, <1>3, <1>4

\* The keys are written one after the other.
LEMMA UpsertIs ==
  ASSUME NEW lines, NEW env
  PROVE  Upsert(lines, env, Keys) =
           RStrip(Rendered(lines, Rendered(lines, lines, "DB", env), "REDIS", env))
<1> DEFINE Is(f) == f = [n \in 0..Len(Keys) |->
                           IF n = 0 THEN lines ELSE Rendered(lines, f[n - 1], Keys[n], env)]
           u == CHOOSE f : Is(f)
           first == Rendered(lines, lines, "DB", env)
           second == Rendered(lines, first, "REDIS", env)
<1>1. Len(Keys) = 2 /\ Keys[1] = "DB" /\ Keys[2] = "REDIS"
  BY DEF Keys
<1>2. \E f : Is(f)
  <2> DEFINE w == [n \in 0..2 |-> IF n = 0 THEN lines ELSE IF n = 1 THEN first ELSE second]
  <2>1. w[0] = lines /\ w[1] = first /\ w[2] = second
    OBVIOUS
  <2> DEFINE x == [n \in 0..Len(Keys) |->
                     IF n = 0 THEN lines ELSE Rendered(lines, w[n - 1], Keys[n], env)]
  <2>2. x[0] = lines /\ x[1] = first /\ x[2] = second
    <3> HIDE DEF w
    <3> QED
      BY <1>1, <2>1
  <2>3. w = x
    <3>1. w = [n \in 0..2 |-> w[n]] /\ x = [n \in 0..2 |-> x[n]]
      BY <1>1
    <3>2. \A n \in 0..2 : w[n] = x[n]
      BY <2>1, <2>2
    <3> HIDE DEF w, x
    <3> QED
      BY <3>1, <3>2
  <2> HIDE DEF w
  <2> QED
    BY <2>3
<1>3. Is(u)
  <2> HIDE DEF Is
  <2> QED
    BY <1>2
<1>4. u[2] = second
  <2> HIDE DEF u
  <2>1. u[0] = lines
    BY <1>1, <1>3
  <2>2. u[1] = first
    BY <1>1, <1>3, <2>1
  <2> QED
    BY <1>1, <1>3, <2>2
<1>5. Upsert(lines, env, Keys) = RStrip(u[Len(Keys)])
  BY Zenon DEF Upsert
<1> QED
  BY <1>1, <1>4, <1>5

\* What an injection of variables gives.
LEMMA UpsertLines ==
  ASSUME NEW L, NEW lines \in Seq(L), NEW env, \A k \in {"DB", "REDIS"} \cap DOMAIN env : Line(k, env[k]) \in L
  PROVE  /\ Upsert(lines, env, Keys) \in Seq(L)
         /\ \A k \in {"DB", "REDIS"} \cap DOMAIN env : LastLine(Upsert(lines, env, Keys), k, env[k])
<1> DEFINE first == Rendered(lines, lines, "DB", env)
           second == Rendered(lines, first, "REDIS", env)
<1>1. /\ first \in Seq(L)
      /\ "DB" \in DOMAIN env => LastLine(first, "DB", env["DB"])
      /\ Assigning(first, "REDIS") = Assigning(lines, "REDIS")
  BY RenderedLines
<1> HIDE DEF first
<1>2. /\ second \in Seq(L)
      /\ "REDIS" \in DOMAIN env => LastLine(second, "REDIS", env["REDIS"])
      /\ "DB" \in DOMAIN env => LastLine(second, "DB", env["DB"])
  BY <1>1, RenderedLines
<1> HIDE DEF second
<1>3. Upsert(lines, env, Keys) = RStrip(second)
  BY UpsertIs DEF first, second
<1>4. /\ RStrip(second) \in Seq(L)
      /\ "REDIS" \in DOMAIN env => LastLine(RStrip(second), "REDIS", env["REDIS"])
      /\ "DB" \in DOMAIN env => LastLine(RStrip(second), "DB", env["DB"])
  BY <1>2, RStripLines
<1> QED
  BY <1>3, <1>4

-----------------------------------------------------------------------------
(* Steps, one by one.                                                       *)

LEMMA TouchFiles ==
  ASSUME Typed, NEW p \in Paths, NEW content \in Contents, Touch(p, content)
  PROVE  /\ host' \in [Paths -> Contents] /\ host'[p] = content
         /\ \A q \in Paths \ {p} : host'[q] = host[q]
BY DEF Typed, Touch

LEMMA InjectedLines ==
  ASSUME NEW lines \in Files, NEW set, NEW t
  PROVE  LET new == Upsert(lines, InjectedInto(set, t), Keys) IN
         /\ new \in Files
         /\ \A k \in {"DB", "REDIS"} : HasTarget(set, k) /\ TargetOf(set, k) = t =>
              LastLine(new, k, Instance)
<1> DEFINE env == InjectedInto(set, t)
<1>1. /\ DOMAIN env = {k \in {"DB", "REDIS"} : HasTarget(set, k) /\ TargetOf(set, k) = t}
      /\ \A k \in DOMAIN env : env[k] = Instance
  BY DEF InjectedInto
<1>2. Line("DB", Instance) \in Lines /\ Line("REDIS", Instance) \in Lines
  BY DEF Lines
<1>3. \A k \in {"DB", "REDIS"} \cap DOMAIN env : Line(k, env[k]) \in Lines
  BY <1>1, <1>2
<1> HIDE DEF env
<1>4. /\ Upsert(lines, env, Keys) \in Files
      /\ \A k \in {"DB", "REDIS"} \cap DOMAIN env : LastLine(Upsert(lines, env, Keys), k, env[k])
  BY <1>3, UpsertLines DEF Files
<1> QED
  BY <1>1, <1>4 DEF env

LEMMA OverwrittenFile ==
  ASSUME NEW old \in Files, NEW new \in Files
  PROVE  Overwritten(old, new) \in Files /\ (old = <<>> => Overwritten(old, new) = new)
<1> DEFINE rest == SubSeq(old, Len(new) + 1, Len(old))
<1>1. rest \in Seq(Lines) /\ (old = <<>> => rest = <<>>)
  BY DEF Files
<1> HIDE DEF rest
<1>2. Overwritten(old, new) = new \o rest
  BY DEF Overwritten, rest
<1> QED
  BY <1>1, <1>2 DEF Files

LEMMA TruncateEnvMoves ==
  ASSUME Typed, NEW c \in Callers, TruncateEnv(c)
  PROVE  \E r : /\ IsCall(r) /\ Same(call[c], r) /\ SameSync(call[c], r)
                /\ r.pc = "write_env" /\ r.settings = call[c].settings /\ r.todo = call[c].todo
                /\ Head(r.todo) \in Paths
                /\ TouchedBy(c, Head(r.todo), r) /\ Touch(Head(r.todo), <<>>)
<1> DEFINE r == [call[c] EXCEPT !.pc = "write_env"]
           t == Head(call[c].todo)
<1>1. IsCall(call[c])
  BY DEF Typed
<1>2. t \in Paths
  BY <1>1 DEF TruncateEnv, IsCall, EnvPCs, At
<1>3. /\ IsCall(r) /\ r.pc = "write_env" /\ r.settings = call[c].settings /\ r.todo = call[c].todo
      /\ Same(call[c], r) /\ SameSync(call[c], r)
  BY <1>1 DEF IsCall, CallPCs, EnvPCs, Fields, TruncateEnv, At, Same, SameSync
<1>4. TouchedBy(c, t, r) /\ Touch(t, <<>>)
  BY DEF TruncateEnv
<1> HIDE DEF r
<1> QED
  BY <1>2, <1>3, <1>4

LEMMA WriteEnvMoves ==
  ASSUME Typed, NEW c \in Callers, WriteEnv(c)
  PROVE  LET t == Head(call[c].todo)
             new == Upsert(call[c].lines, InjectedInto(call[c].settings, t), Keys)
             content == IF host[t] = Absent THEN Absent ELSE Overwritten(host[t], new)
         IN /\ t \in Paths /\ new \in Files /\ content \in Contents /\ Touch(t, content)
            /\ \E r : /\ IsCall(r) /\ Same(call[c], r) /\ SameSync(call[c], r)
                      /\ r.pc = IF Tail(call[c].todo) = <<>> THEN "answer" ELSE "read_env"
                      /\ r.settings = call[c].settings /\ r.todo = Tail(call[c].todo)
                      /\ TouchedBy(c, t, r)
<1> DEFINE t == Head(call[c].todo)
           new == Upsert(call[c].lines, InjectedInto(call[c].settings, t), Keys)
           content == IF host[t] = Absent THEN Absent ELSE Overwritten(host[t], new)
           left == Tail(call[c].todo)
           pc == IF left = <<>> THEN "answer" ELSE "read_env"
           r == [call[c] EXCEPT !.pc = pc, !.todo = left, !.lines = <<>>]
<1>1. IsCall(call[c])
  BY DEF Typed
<1>2. t \in Paths /\ left \in Seq(Paths) /\ call[c].lines \in Files
  BY <1>1 DEF WriteEnv, IsCall, EnvPCs, At
<1>3. new \in Files
  BY <1>2, InjectedLines
<1>4. content \in Contents
  <2> HIDE DEF new
  <2> QED
    BY <1>2, <1>3, OverwrittenFile DEF Typed, Contents
<1>5. Touch(t, content) /\ TouchedBy(c, t, r)
  BY DEF WriteEnv
<1>6. pc \in {"answer", "read_env"} /\ (pc = "read_env" => left # <<>>)
  OBVIOUS
<1>7. call[c].op = "prepare"
  BY <1>1 DEF IsCall, EnvPCs, WriteEnv, At
<1> DEFINE p == pc  l == left
<1> HIDE DEF p, l, content, new
<1>8. LET s == [call[c] EXCEPT !.pc = p, !.todo = l, !.lines = <<>>] IN
      /\ IsCall(s) /\ s.pc = p /\ s.todo = l /\ s.settings = call[c].settings
      /\ Same(call[c], s) /\ SameSync(call[c], s)
  <2>1. p \in {"answer", "read_env"} /\ (p = "read_env" => l # <<>>) /\ l \in Seq(Paths)
    BY <1>2, <1>6 DEF p, l
  <2> QED
    BY <1>1, <1>7, <2>1, NoLines DEF IsCall, CallPCs, EnvPCs, Fields, Same, SameSync
<1>9. /\ IsCall(r) /\ r.pc = pc /\ r.todo = left /\ r.settings = call[c].settings
      /\ Same(call[c], r) /\ SameSync(call[c], r)
  BY <1>8 DEF p, l
<1> HIDE DEF r
<1>10. \E s : /\ IsCall(s) /\ Same(call[c], s) /\ SameSync(call[c], s)
              /\ s.pc = pc /\ s.settings = call[c].settings /\ s.todo = left
              /\ TouchedBy(c, t, s)
  BY <1>5, <1>9
<1> QED
  BY <1>2, <1>3, <1>4, <1>5, <1>10 DEF content, new

LEMMA SyncMoves ==
  ASSUME Typed, NEW c \in Callers, Sync(c)
  PROVE  \E r : /\ IsCall(r) /\ Step(c, r) /\ Same(call[c], r) /\ r.op = "sync"
                /\ r.pc = "archive" /\ r.todo = Order /\ r.listed = Present /\ r.archive = <<>>
<1>1. IsCall(call[c])
  BY DEF Typed
<1>2. PICK set \in Loadable({IncludeGit}), patterns \in Excludes :
        Step(c, [call[c] EXCEPT
          !.pc = "archive", !.settings = set, !.todo = Order, !.listed = Present,
          !.patterns = IF set[IncludeGit] = "true" THEN patterns ELSE patterns \cup GitPatterns])
  BY DEF Sync
<1> DEFINE all == IF set[IncludeGit] = "true" THEN patterns ELSE patterns \cup GitPatterns
<1> HIDE DEF all
<1> DEFINE r == [call[c] EXCEPT !.pc = "archive", !.settings = set, !.todo = Order,
                                !.listed = Present, !.patterns = all]
<1>3. Step(c, r)
  BY <1>2 DEF all
<1>4. Order \in Seq(Paths) \ {<<>>}
  BY FilesAssumption, TargetsAssumption DEF Paths
<1>5. call[c].op = "sync" /\ call[c].archive = <<>>
  BY <1>1 DEF Sync, IsCall, At
<1>6. Present \subseteq Paths
  BY DEF Present
<1>7. /\ IsCall(r) /\ Same(call[c], r) /\ r.op = "sync"
      /\ r.pc = "archive" /\ r.todo = Order /\ r.listed = Present /\ r.archive = <<>>
  BY <1>1, <1>4, <1>5, <1>6 DEF IsCall, CallPCs, EnvPCs, Fields, Same
<1> HIDE DEF r
<1> QED
  BY <1>3, <1>7

\* What the archive has after the next path, unless the call fails at it.
ArchiveNext(k, p, r) ==
  /\ r.settings = k.settings /\ r.patterns = k.patterns /\ r.listed = k.listed
  /\ r.todo = Tail(k.todo) /\ r.pc = IF Len(k.todo) = 1 THEN "copy" ELSE "archive"
  /\ \/ /\ \/ ~ Entered(p, k.listed, k.patterns)
           \/ host[p] = Absent /\ Len(p) > 1
           \/ host[p] # Absent /\ Excluded(p, k.patterns)
        /\ r.archive = k.archive
     \/ /\ Entered(p, k.listed, k.patterns) /\ host[p] # Absent /\ ~ Excluded(p, k.patterns)
        /\ r.archive = Put(k.archive, p, host[p])

LEMMA ArchivedMoves ==
  ASSUME Typed, NEW c \in Callers, At(c, "archive"), NEW archive, Archived(c, archive),
         DOMAIN archive \subseteq Paths, archive \in [DOMAIN archive -> Files]
  PROVE  \E r : /\ IsCall(r) /\ Step(c, r) /\ Same(call[c], r)
                /\ r.settings = call[c].settings /\ r.patterns = call[c].patterns
                /\ r.listed = call[c].listed /\ r.archive = archive
                /\ r.todo = Tail(call[c].todo)
                /\ r.pc = IF Len(call[c].todo) = 1 THEN "copy" ELSE "archive"
<1> DEFINE left == Tail(call[c].todo)
           pc == IF Len(call[c].todo) = 1 THEN "copy" ELSE "archive"
<1>1. IsCall(call[c])
  BY DEF Typed
<1>2. call[c].todo \in Seq(Paths) \ {<<>>} /\ call[c].op = "sync"
  BY <1>1 DEF IsCall, At
<1>3. left \in Seq(Paths) /\ pc \in {"copy", "archive"} /\ (pc = "archive" => left # <<>>)
  <2>1. left \in Seq(Paths) /\ Len(left) = Len(call[c].todo) - 1 /\ Len(call[c].todo) \in Nat
    BY <1>2, HeadTailProperties
  <2>2. pc = "archive" => left # <<>>
    <3>1. pc = "archive" => Len(left) # 0
      BY <2>1
    <3>2. Len(<<>>) = 0
      OBVIOUS
    <3> HIDE DEF left, pc
    <3> QED
      BY <3>1, <3>2
  <2> QED
    BY <2>1, <2>2
<1>4. Step(c, [call[c] EXCEPT !.archive = archive, !.todo = left, !.pc = pc])
  BY DEF Archived
<1> HIDE DEF left, pc
<1> DEFINE r == [call[c] EXCEPT !.archive = archive, !.todo = left, !.pc = pc]
<1>5. /\ IsCall(r) /\ Same(call[c], r) /\ r.settings = call[c].settings
      /\ r.patterns = call[c].patterns /\ r.listed = call[c].listed /\ r.archive = archive
      /\ r.todo = left /\ r.pc = pc
  BY <1>1, <1>2, <1>3 DEF IsCall, CallPCs, EnvPCs, Fields, Same
<1> HIDE DEF r
<1>6. \E s : /\ IsCall(s) /\ Step(c, s) /\ Same(call[c], s) /\ s.settings = call[c].settings
             /\ s.patterns = call[c].patterns /\ s.listed = call[c].listed /\ s.archive = archive
             /\ s.todo = left /\ s.pc = pc
  BY <1>4, <1>5 DEF r
<1> QED
  BY <1>6 DEF left, pc

LEMMA ArchiveFileMoves ==
  ASSUME Typed, NEW c \in Callers, ArchiveFile(c)
  PROVE  LET p == Head(call[c].todo) IN
         /\ p \in Paths
         /\ \/ Return(c)
            \/ \E r : IsCall(r) /\ Step(c, r) /\ Same(call[c], r) /\ ArchiveNext(call[c], p, r)
<1> DEFINE p == Head(call[c].todo)
           k == call[c]
           entered == Entered(p, k.listed, k.patterns)
<1>1. IsCall(call[c])
  BY DEF Typed
<1>2. p \in Paths /\ At(c, "archive")
  BY <1>1 DEF IsCall, At, ArchiveFile
<1>3. DOMAIN k.archive \subseteq Paths /\ k.archive \in [DOMAIN k.archive -> Files]
  BY <1>1 DEF IsCall
<1>4. CASE /\ \/ ~ entered
              \/ host[p] = Absent /\ Len(p) > 1
              \/ host[p] # Absent /\ Excluded(p, k.patterns)
           /\ Archived(c, k.archive)
  <2>1. PICK r : /\ IsCall(r) /\ Step(c, r) /\ Same(call[c], r)
                 /\ r.settings = call[c].settings /\ r.patterns = call[c].patterns
                 /\ r.listed = call[c].listed /\ r.archive = k.archive
                 /\ r.todo = Tail(call[c].todo)
                 /\ r.pc = IF Len(call[c].todo) = 1 THEN "copy" ELSE "archive"
    BY <1>2, <1>3, <1>4, ArchivedMoves
  <2>2. ArchiveNext(k, p, r)
    BY <1>4, <2>1 DEF ArchiveNext
  <2> QED
    BY <1>2, <2>1, <2>2
<1>5. CASE /\ entered /\ host[p] # Absent /\ ~ Excluded(p, k.patterns)
           /\ Archived(c, Member(k.archive, p))
  <2> DEFINE archive == Put(k.archive, p, host[p])
  <2>1. Archived(c, archive)
    BY <1>5 DEF Member
  <2>2. host[p] \in Files
    BY <1>2, <1>5 DEF Typed, Contents
  <2>3. DOMAIN archive \subseteq Paths /\ archive \in [DOMAIN archive -> Files]
    BY <1>2, <1>3, <2>2 DEF Put
  <2> HIDE DEF archive
  <2>4. PICK r : /\ IsCall(r) /\ Step(c, r) /\ Same(call[c], r)
                 /\ r.settings = call[c].settings /\ r.patterns = call[c].patterns
                 /\ r.listed = call[c].listed /\ r.archive = archive
                 /\ r.todo = Tail(call[c].todo)
                 /\ r.pc = IF Len(call[c].todo) = 1 THEN "copy" ELSE "archive"
    BY <1>2, <2>1, <2>3, ArchivedMoves
  <2>5. ArchiveNext(k, p, r)
    BY <1>5, <2>4 DEF ArchiveNext, archive
  <2> QED
    BY <1>2, <2>4, <2>5
<1>6. CASE Return(c)
  BY <1>2, <1>6
<1> QED
  BY <1>4, <1>5, <1>6 DEF ArchiveFile

LEMMA CopyArchiveMoves ==
  ASSUME Typed, NEW c \in Callers, CopyArchive(c)
  PROVE  \/ Return(c)
         \/ \E r : /\ IsCall(r) /\ Step(c, r) /\ Same(call[c], r) /\ SameSync(call[c], r)
                   /\ r.pc = "extract"
<1>1. IsCall(call[c])
  BY DEF Typed
<1> DEFINE r == [call[c] EXCEPT !.pc = "extract"]
<1>2. IsCall(r) /\ Same(call[c], r) /\ SameSync(call[c], r) /\ r.pc = "extract"
  BY <1>1 DEF IsCall, CallPCs, EnvPCs, Fields, Same, SameSync, CopyArchive, At
<1>3. Return(c) \/ Step(c, r)
  BY DEF CopyArchive
<1> HIDE DEF r
<1> QED
  BY <1>2, <1>3

LEMMA ExtractMoves ==
  ASSUME Typed, NEW c \in Callers, Extract(c)
  PROVE  /\ guest' \in [Paths -> Contents]
         /\ \/ Return(c)
            \/ /\ guest' = [p \in Paths |-> IF p \in DOMAIN call[c].archive
                                            THEN call[c].archive[p] ELSE guest[p]]
               /\ \E r : /\ IsCall(r) /\ Step(c, r) /\ Same(call[c], r) /\ SameSync(call[c], r)
                         /\ r.pc = "answer"
<1> DEFINE unpacked(n) == [p \in Paths |->
             IF p \in DOMAIN call[c].archive /\ p \in {Order[i] : i \in 1..n}
             THEN call[c].archive[p] ELSE guest[p]]
           r == [call[c] EXCEPT !.pc = "answer"]
<1>1. IsCall(call[c])
  BY DEF Typed
<1>2. \A p \in DOMAIN call[c].archive : call[c].archive[p] \in Contents
  BY <1>1 DEF IsCall, Contents
<1>3. \A n : unpacked(n) \in [Paths -> Contents]
  BY <1>2 DEF Typed
<1>4. unpacked(Len(Order)) = [p \in Paths |-> IF p \in DOMAIN call[c].archive
                                              THEN call[c].archive[p] ELSE guest[p]]
  <2>1. DOMAIN Order = 1..Len(Order)
    BY FilesAssumption
  <2>2. Paths = {Order[i] : i \in 1..Len(Order)}
    BY <2>1 DEF Paths
  <2> QED
    BY <2>2
<1>5. IsCall(r) /\ Same(call[c], r) /\ SameSync(call[c], r) /\ r.pc = "answer"
  BY <1>1 DEF IsCall, CallPCs, EnvPCs, Fields, Same, SameSync, Extract, At
<1>6. \/ guest' = unpacked(Len(Order)) /\ Step(c, r)
      \/ (\E n \in 0..(Len(Order) - 1) : guest' = unpacked(n)) /\ Return(c)
  BY DEF Extract
<1> HIDE DEF r, unpacked
<1> QED
  BY <1>3, <1>4, <1>5, <1>6

LEMMA CopyBackMoves ==
  ASSUME Typed, NEW c \in Callers, CopyBack(c)
  PROVE  \/ Return(c) /\ UNCHANGED host
         \/ \E p \in Paths, content \in Contents : \E r :
              /\ Touch(p, content) /\ TouchedBy(c, p, r) /\ IsCall(r)
              /\ r.op \in {"back", "none"} /\ r.archive \in {<<>>, call[c].archive}
              /\ r.pc \in {"answer", "idle"}
              /\ r.patterns = call[c].patterns \/ r.archive = <<>>
<1> DEFINE p == Head(call[c].todo)
           r == [call[c] EXCEPT !.pc = "answer"]
<1>1. IsCall(call[c])
  BY DEF Typed
<1>2. p \in Paths /\ call[c].op = "back"
  BY <1>1 DEF IsCall, CopyBack, At
<1>3. guest[p] \in Contents /\ <<>> \in Contents
  BY <1>2, NoLines DEF Typed, Contents
<1>4. IsCall(r) /\ r.op = "back" /\ r.archive = call[c].archive /\ r.pc = "answer" /\ r.patterns = call[c].patterns
  BY <1>1, <1>2 DEF IsCall, CallPCs, EnvPCs, Fields
<1>5. IsCall(Idle) /\ Idle.op = "none" /\ Idle.archive = <<>> /\ Idle.pc = "idle"
  BY IdleIsCall DEF Idle
<1>6. \/ Touch(p, guest[p]) /\ TouchedBy(c, p, r)
      \/ Touch(p, <<>>) /\ TouchedBy(c, p, Idle)
      \/ Return(c) /\ UNCHANGED host
  BY DEF CopyBack
<1> HIDE DEF r, p
<1> QED
  BY <1>2, <1>3, <1>4, <1>5, <1>6

LEMMA ChooseTargetMoves ==
  ASSUME Typed, NEW c \in Callers, ChooseTarget(c)
  PROVE  \E r : /\ IsCall(r) /\ Step(c, r) /\ Same(call[c], r) /\ SameSync(call[c], r)
                /\ r.pc = "artifact" /\ r.op = "collect" /\ r.todo = call[c].todo
                /\ r.copied = Append(call[c].copied,
                     [remote |-> Head(call[c].todo),
                      target |-> TargetName(Head(call[c].todo), Len(call[c].copied))])
<1> DEFINE copied == Append(call[c].copied,
                       [remote |-> Head(call[c].todo),
                        target |-> TargetName(Head(call[c].todo), Len(call[c].copied))])
<1>1. IsCall(call[c])
  BY DEF Typed
<1>2. Step(c, [call[c] EXCEPT !.pc = "artifact", !.copied = copied])
  BY DEF ChooseTarget
<1> HIDE DEF copied
<1> DEFINE r == [call[c] EXCEPT !.pc = "artifact", !.copied = copied]
<1>3. /\ IsCall(r) /\ Same(call[c], r) /\ SameSync(call[c], r)
      /\ r.pc = "artifact" /\ r.op = "collect" /\ r.todo = call[c].todo /\ r.copied = copied
  BY <1>1 DEF IsCall, CallPCs, EnvPCs, Fields, Same, SameSync, ChooseTarget, At
<1> HIDE DEF r
<1> QED
  BY <1>2, <1>3 DEF r, copied

LEMMA CopyArtifactMoves ==
  ASSUME Typed, NEW c \in Callers, CopyArtifact(c)
  PROVE  LET this == Last(call[c].copied)
             left == Tail(call[c].todo)
         IN \/ Return(c) /\ UNCHANGED dest
            \/ /\ dest' = Put(dest, this.target, this.remote)
               /\ \E r : /\ IsCall(r) /\ Step(c, r) /\ Same(call[c], r) /\ SameSync(call[c], r)
                         /\ r.pc = IF left = <<>> THEN "answer" ELSE "target"
                         /\ r.todo = left /\ r.copied = call[c].copied
<1> DEFINE left == Tail(call[c].todo)
           pc == IF left = <<>> THEN "answer" ELSE "target"
           this == Last(call[c].copied)
<1>1. IsCall(call[c])
  BY DEF Typed
<1>2. \/ Return(c) /\ UNCHANGED dest
      \/ /\ dest' = Put(dest, this.target, this.remote)
         /\ Step(c, [call[c] EXCEPT !.pc = pc, !.todo = left])
  BY DEF CopyArtifact
<1>3. pc \in {"answer", "target"}
  OBVIOUS
<1> HIDE DEF pc, left, this
<1> DEFINE r == [call[c] EXCEPT !.pc = pc, !.todo = left]
<1>4. /\ IsCall(r) /\ Same(call[c], r) /\ SameSync(call[c], r)
      /\ r.pc = pc /\ r.todo = left /\ r.copied = call[c].copied
  BY <1>1, <1>3 DEF IsCall, CallPCs, EnvPCs, Fields, Same, SameSync, CopyArtifact, At
<1> HIDE DEF r
<1>5. \/ Return(c) /\ UNCHANGED dest
      \/ /\ dest' = Put(dest, this.target, this.remote)
         /\ \E s : /\ IsCall(s) /\ Step(c, s) /\ Same(call[c], s) /\ SameSync(call[c], s)
                   /\ s.pc = pc /\ s.todo = left /\ s.copied = call[c].copied
  BY <1>2, <1>4 DEF r
<1> QED
  BY <1>5 DEF pc, left, this

-----------------------------------------------------------------------------
(* Every step.                                                              *)

PrepareStep(c) == Prepare(c) \/ ReadEnv(c) \/ TruncateEnv(c) \/ WriteEnv(c)
SyncStep(c) == Sync(c) \/ ArchiveFile(c) \/ CopyArchive(c) \/ Extract(c)
CollectStep(c) == BeginCollect(c) \/ ChooseTarget(c) \/ CopyArtifact(c)

\* A step of c in the eyes of all: at most a mark for the others.
Seen(c) ==
  /\ call' = [d \in Callers |-> call'[d]]
  /\ \A d \in Callers : IsCall(call'[d])
  /\ \A d \in Callers \ {c} : call'[d] = call[d] \/ \E p \in Paths : Marked(call[d], call'[d], p)
  /\ \A d \in Callers \ {c} : At(d, "idle") => call'[d] = call[d]

\* A tool is served by its own steps.
Tool(c) ==
  LET r == call'[c] IN
  /\ r.op = "prepare" => r.pc = "load" \/ PrepareStep(c)
  /\ r.op = "sync" => r.pc = "load" \/ SyncStep(c)
  /\ r.op = "collect" => CollectStep(c)
  /\ \/ SyncStep(c) \/ r.archive = <<>>
     \/ r.archive = call[c].archive /\ r.patterns = call[c].patterns

LEMMA StepSeen ==
  ASSUME Typed, NEW c \in Callers, NEW r, IsCall(r), Step(c, r)
  PROVE  Seen(c) /\ call'[c] = r
BY StepTyped DEF Seen

LEMMA TouchSeen ==
  ASSUME Typed, NEW c \in Callers, NEW r, IsCall(r), NEW p \in Paths, TouchedBy(c, p, r)
  PROVE  Seen(c) /\ call'[c] = r
BY TouchTyped DEF Seen

LEMMA ReturnSeen ==
  ASSUME Typed, NEW c \in Callers, Return(c)
  PROVE  Seen(c) /\ Tool(c) /\ call'[c] = Idle
<1>1. Step(c, Idle)
  BY DEF Return
<1>2. Seen(c) /\ call'[c] = Idle
  BY <1>1, IdleIsCall, StepSeen
<1>3. Idle.op = "none" /\ Idle.archive = <<>>
  BY DEF Idle
<1> QED
  BY <1>2, <1>3 DEF Tool

LEMMA StepFiles ==
  ASSUME Typed, NEW c \in Callers, CallStep(c)
  PROVE  /\ host' \in [Paths -> Contents] /\ guest' \in [Paths -> Contents]
         /\ calls' \in 0..MaxCalls /\ edits' \in 0..MaxEdits /\ faults' \in 0..MaxFaults
         /\ enable_http' = enable_http
<1> DEFINE Counted == /\ calls' \in 0..MaxCalls /\ edits' \in 0..MaxEdits
                      /\ faults' \in 0..MaxFaults /\ enable_http' = enable_http
<1> USE FilesAssumption DEF Typed, counters
<1>1. CASE LoadFails(c)
  BY <1>1 DEF LoadFails
<1>2. CASE BeginPrepare(c) \/ BeginSync(c) \/ BeginBack(c) \/ BeginCollect(c)
  <2>1. \E r : Begin(c, r)
    BY <1>2 DEF BeginPrepare, BeginSync, BeginBack, BeginCollect
  <2>2. /\ calls < MaxCalls /\ calls' = calls + 1
        /\ UNCHANGED <<host, guest, edits, faults, enable_http>>
    BY <2>1 DEF Begin
  <2> QED
    BY <2>2
<1>3. CASE Prepare(c) \/ ReadEnv(c) \/ Sync(c) \/ ArchiveFile(c) \/ ChooseTarget(c) \/ Answer(c)
  BY <1>3 DEF Prepare, ReadEnv, Sync, ArchiveFile, ChooseTarget, Answer
<1>4. CASE TruncateEnv(c)
  <2>1. Counted /\ UNCHANGED guest
    BY <1>4 DEF TruncateEnv
  <2>2. PICK p \in Paths : Touch(p, <<>>)
    BY <1>4, TruncateEnvMoves
  <2>3. host' \in [Paths -> Contents]
    BY <2>2, TouchFiles, NoLines DEF Contents
  <2> QED
    BY <2>1, <2>3
<1>5. CASE WriteEnv(c)
  <2>1. Counted /\ UNCHANGED guest
    BY <1>5 DEF WriteEnv
  <2>2. \E p \in Paths, content \in Contents : Touch(p, content)
    BY <1>5, WriteEnvMoves
  <2>3. host' \in [Paths -> Contents]
    BY <2>2, TouchFiles
  <2> QED
    BY <2>1, <2>3
<1>6. CASE EnvFails(c) \/ CopyArchive(c) \/ CopyArtifact(c)
  <2>1. UNCHANGED <<host, guest, calls, edits, enable_http>>
    BY <1>6 DEF EnvFails, CopyArchive, CopyArtifact
  <2>2. faults' = faults \/ Fault
    BY <1>6 DEF EnvFails, CopyArchive, CopyArtifact
  <2>3. faults' \in 0..MaxFaults
    BY <2>2 DEF Fault
  <2> QED
    BY <2>1, <2>3
<1>7. CASE Extract(c)
  <2>1. Counted /\ UNCHANGED host
    BY <1>7 DEF Extract, Fault
  <2>2. guest' \in [Paths -> Contents]
    BY <1>7, ExtractMoves
  <2> QED
    BY <2>1, <2>2
<1>8. CASE CopyBack(c)
  <2>1. Counted /\ UNCHANGED guest
    BY <1>8 DEF CopyBack, Fault
  <2>2. UNCHANGED host \/ \E p \in Paths, content \in Contents : Touch(p, content)
    BY <1>8, CopyBackMoves
  <2>3. host' \in [Paths -> Contents]
    BY <2>2, TouchFiles
  <2> QED
    BY <2>1, <2>3
<1> QED
  BY <1>1, <1>2, <1>3, <1>4, <1>5, <1>6, <1>7, <1>8 DEF CallStep

LEMMA CallSeen ==
  ASSUME Typed, NEW c \in Callers, CallStep(c)
  PROVE  Seen(c) /\ Tool(c)
<1>1. CASE LoadFails(c) \/ EnvFails(c) \/ Answer(c)
  BY <1>1, ReturnSeen DEF LoadFails, EnvFails, Answer
<1>2. CASE BeginPrepare(c) \/ BeginSync(c)
  <2>1. PICK r : IsCall(r) /\ Step(c, r) /\ r.pc = "load" /\ r.op \in {"prepare", "sync"}
    BY <1>2, BeginPrepareMoves, BeginSyncMoves
  <2>2. r.archive = <<>>
    BY <2>1 DEF IsCall
  <2>3. Seen(c) /\ call'[c] = r
    BY <2>1, StepSeen
  <2> QED
    BY <2>1, <2>2, <2>3 DEF Tool
<1>3. CASE BeginBack(c)
  <2>1. PICK r : IsCall(r) /\ Step(c, r) /\ r.pc = "copy_back" /\ r.op = "back" /\ r.archive = <<>>
    BY <1>3, BeginBackMoves
  <2>2. Seen(c) /\ call'[c] = r
    BY <2>1, StepSeen
  <2> QED
    BY <2>1, <2>2 DEF Tool
<1>4. CASE BeginCollect(c)
  <2>1. PICK r : IsCall(r) /\ Step(c, r) /\ r.op = "collect" /\ r.archive = <<>>
    BY <1>4, BeginCollectMoves
  <2>2. Seen(c) /\ call'[c] = r
    BY <2>1, StepSeen
  <2> QED
    BY <1>4, <2>1, <2>2 DEF Tool, CollectStep
<1>5. CASE Prepare(c) \/ ReadEnv(c)
  <2>1. PICK r : IsCall(r) /\ Step(c, r) /\ SameSync(call[c], r) /\ Same(call[c], r)
    BY <1>5, PrepareMoves, ReadEnvMoves
  <2>2. Seen(c) /\ call'[c] = r
    BY <2>1, StepSeen
  <2>3. call[c].op = "prepare"
    <3>1. IsCall(call[c])
      BY DEF Typed
    <3> QED
      BY <1>5, <3>1 DEF Prepare, ReadEnv, At, IsCall, EnvPCs
  <2> QED
    BY <1>5, <2>1, <2>2, <2>3 DEF Tool, PrepareStep, SameSync, Same
<1>6. CASE TruncateEnv(c) \/ WriteEnv(c)
  <2>1. \E p \in Paths : \E r : /\ IsCall(r) /\ TouchedBy(c, p, r)
                               /\ SameSync(call[c], r) /\ Same(call[c], r)
    <3>1. CASE TruncateEnv(c)
      <4>1. PICK r : /\ IsCall(r) /\ Same(call[c], r) /\ SameSync(call[c], r)
                     /\ Head(r.todo) \in Paths /\ TouchedBy(c, Head(r.todo), r)
        BY <3>1, TruncateEnvMoves
      <4> QED
        BY <4>1
    <3>2. CASE WriteEnv(c)
      <4> DEFINE t == Head(call[c].todo)
      <4>1. t \in Paths /\ \E r : /\ IsCall(r) /\ Same(call[c], r) /\ SameSync(call[c], r)
                                 /\ TouchedBy(c, t, r)
        BY <3>2, WriteEnvMoves
      <4> HIDE DEF t
      <4> QED
        BY <4>1
    <3> QED
      BY <1>6, <3>1, <3>2
  <2>2. PICK r : Seen(c) /\ call'[c] = r /\ SameSync(call[c], r) /\ Same(call[c], r)
    BY <2>1, TouchSeen
  <2>3. call[c].op = "prepare"
    <3>1. IsCall(call[c])
      BY DEF Typed
    <3> QED
      BY <1>6, <3>1 DEF TruncateEnv, WriteEnv, At, IsCall, EnvPCs
  <2> QED
    BY <1>6, <2>2, <2>3 DEF Tool, PrepareStep, SameSync, Same
<1>7. CASE SyncStep(c)
  <2>1. \/ Return(c)
        \/ \E r : IsCall(r) /\ Step(c, r) /\ r.op = call[c].op
    BY <1>7, SyncMoves, ArchiveFileMoves, CopyArchiveMoves, ExtractMoves DEF SyncStep, Same
  <2>2. CASE Return(c)
    BY <2>2, ReturnSeen
  <2>3. CASE \E r : IsCall(r) /\ Step(c, r) /\ r.op = call[c].op
    <3>1. PICK r : IsCall(r) /\ Step(c, r) /\ r.op = call[c].op
      BY <2>3
    <3>2. Seen(c) /\ call'[c] = r
      BY <3>1, StepSeen
    <3>3. call[c].op = "sync"
      <4>1. IsCall(call[c])
        BY DEF Typed
      <4> QED
        BY <1>7, <4>1 DEF SyncStep, Sync, ArchiveFile, CopyArchive, Extract, At, IsCall
    <3> QED
      BY <1>7, <3>1, <3>2, <3>3 DEF Tool
  <2> QED
    BY <2>1, <2>2, <2>3
<1>8. CASE CopyBack(c)
  <2>1. CASE Return(c)
    BY <2>1, ReturnSeen
  <2>2. ASSUME NEW p \in Paths, NEW r, TouchedBy(c, p, r), IsCall(r), r.op \in {"back", "none"},
               r.archive \in {<<>>, call[c].archive},
               r.patterns = call[c].patterns \/ r.archive = <<>>
        PROVE  Seen(c) /\ Tool(c)
    <3>1. Seen(c) /\ call'[c] = r
      BY <2>2, TouchSeen
    <3> QED
      BY <2>2, <3>1 DEF Tool
  <2> QED
    BY <1>8, <2>1, <2>2, CopyBackMoves
<1>9. CASE ChooseTarget(c) \/ CopyArtifact(c)
  <2>1. \/ Return(c)
        \/ \E r : IsCall(r) /\ Step(c, r) /\ SameSync(call[c], r) /\ Same(call[c], r)
    BY <1>9, ChooseTargetMoves, CopyArtifactMoves
  <2>2. CASE Return(c)
    BY <2>2, ReturnSeen
  <2>3. CASE \E r : IsCall(r) /\ Step(c, r) /\ SameSync(call[c], r) /\ Same(call[c], r)
    <3>1. PICK r : IsCall(r) /\ Step(c, r) /\ SameSync(call[c], r) /\ Same(call[c], r)
      BY <2>3
    <3>2. Seen(c) /\ call'[c] = r
      BY <3>1, StepSeen
    <3>3. call[c].op = "collect"
      <4>1. IsCall(call[c])
        BY DEF Typed
      <4> QED
        BY <1>9, <4>1 DEF ChooseTarget, CopyArtifact, At, IsCall
    <3> QED
      BY <1>9, <3>1, <3>2, <3>3 DEF Tool, CollectStep, Same, SameSync
  <2> QED
    BY <2>1, <2>2, <2>3
<1> QED
  BY <1>1, <1>2, <1>3, <1>4, <1>5, <1>6, <1>7, <1>8, <1>9 DEF CallStep, SyncStep

LEMMA EditSeen ==
  ASSUME Typed, NEW p \in Paths, Edit(p)
  PROVE  /\ call' = [d \in Callers |-> call'[d]]
         /\ \A d \in Callers : IsCall(call'[d])
         /\ \A d \in Callers : IF At(d, "idle") THEN call'[d] = call[d]
                                                ELSE Marked(call[d], call'[d], p)
         /\ host' \in [Paths -> Contents] /\ \A q \in Paths \ {p} : host'[q] = host[q]
         /\ edits' \in 0..MaxEdits
         /\ UNCHANGED <<guest, dest, calls, faults, enable_http>>
<1>1. /\ call' = [d \in Callers |-> call'[d]]
      /\ \A d \in Callers : call'[d] = IF At(d, "idle") THEN call[d]
                                       ELSE [call[d] EXCEPT !.touched = @ \cup {p}]
      /\ UNCHANGED <<guest, dest, calls, faults, enable_http>>
  BY DEF Edit
<1>2. ASSUME NEW d \in Callers
      PROVE  IsCall(call'[d]) /\ IF At(d, "idle") THEN call'[d] = call[d]
                                                  ELSE Marked(call[d], call'[d], p)
  <2>1. IsCall(call[d])
    BY DEF Typed
  <2>2. CASE At(d, "idle")
    BY <1>1, <2>1, <2>2
  <2>3. CASE ~ At(d, "idle")
    <3> DEFINE m == [call[d] EXCEPT !.touched = @ \cup {p}]
    <3>1. IsCall(m) /\ Marked(call[d], m, p)
      BY <2>1, <2>3, TouchedCall DEF At
    <3>2. call'[d] = m
      BY <1>1, <2>3
    <3> HIDE DEF m
    <3> QED
      BY <2>3, <3>1, <3>2
  <2> QED
    BY <2>2, <2>3
<1>3. PICK content \in Drafts[p] \cup {Absent} : Touch(p, content)
  BY DEF Edit
<1>4. content \in Contents
  BY DraftsAreFiles DEF Contents
<1>5. host' \in [Paths -> Contents] /\ \A q \in Paths \ {p} : host'[q] = host[q]
  BY <1>3, <1>4, TouchFiles
<1>6. edits' \in 0..MaxEdits
  BY FilesAssumption DEF Edit, Typed
<1> QED
  BY <1>1, <1>2, <1>5, <1>6

LEMMA TypedInit == Init => Typed
<1> SUFFICES ASSUME Init PROVE Typed
  OBVIOUS
<1>1. UNION {Drafts[p] : p \in Paths} \subseteq Files
  BY DraftsAreFiles
<1>2. host \in [Paths -> Contents]
  BY <1>1, FilesAssumption DEF Init, Contents
<1> QED
  BY <1>2, IdleIsCall, FilesAssumption DEF Init, Typed, Contents

LEMMA TypedStep == Typed /\ [Next]_vars => Typed'
<1> SUFFICES ASSUME Typed, [Next]_vars PROVE Typed'
  OBVIOUS
<1>1. CASE UNCHANGED vars
  BY <1>1 DEF vars, counters, Typed, IsCall
<1>2. ASSUME NEW c \in Callers, CallStep(c) PROVE Typed'
  BY <1>2, StepFiles, CallSeen DEF Seen, Typed
<1>3. ASSUME NEW p \in Paths, Edit(p) PROVE Typed'
  BY <1>3, EditSeen DEF Typed
<1>4. CASE Crash
  BY <1>4, IdleIsCall, FilesAssumption DEF Crash, Fault, Typed
<1> QED
  BY <1>1, <1>2, <1>3, <1>4 DEF Next

\* Every variable keeps its type: files stay sequences of lines, and every call
\* has what the step it is at works on.
THEOREM TypesHold == Spec => []Typed
BY TypedInit, TypedStep, PTL DEF Spec

\* The workspace and the instance have the paths they had, every call is at a
\* step of its tool and works on paths of the workspace, and no bound is passed.
THEOREM TypeCorrect == Spec => []TypeOK
<1>1. Typed => TypeOK
  BY DEF Typed, TypeOK, IsCall, At, Contents
<1> QED
  BY <1>1, TypesHold, PTL

-----------------------------------------------------------------------------
(* What the patterns keep out.                                              *)

\* Nothing in an archive is excluded, and nothing above it.
FilterInv ==
  \A c \in Callers : \A p \in DOMAIN call[c].archive :
    \A d \in Above(p) : ~ Excluded(d, call[c].patterns)

\* The same of one call.
Filtered(k) ==
  \A p \in DOMAIN k.archive : \A d \in Above(p) : ~ Excluded(d, k.patterns)

LEMMA NothingFiltered ==
  ASSUME NEW k, k.archive = <<>>
  PROVE  Filtered(k)
BY NoLines DEF Filtered

LEMMA FilteredStep ==
  ASSUME Typed, NEW c \in Callers, CallStep(c), Filtered(call[c])
  PROVE  Filtered(call'[c])
<1>1. CASE ~ SyncStep(c)
  <2>1. \/ call'[c].archive = <<>>
        \/ call'[c].archive = call[c].archive /\ call'[c].patterns = call[c].patterns
    BY <1>1, CallSeen DEF Tool
  <2> QED
    BY <2>1, NothingFiltered DEF Filtered
<1>2. CASE Return(c)
  BY <1>2, ReturnSeen, NothingFiltered DEF Idle
<1>3. CASE Sync(c)
  <2>1. PICK r : IsCall(r) /\ Step(c, r) /\ r.archive = <<>>
    BY <1>3, SyncMoves
  <2>2. call'[c] = r
    BY <2>1, StepSeen
  <2> QED
    BY <2>1, <2>2, NothingFiltered
<1>4. CASE ArchiveFile(c) /\ ~ Return(c)
  <2> DEFINE p == Head(call[c].todo)
  <2>1. PICK r : IsCall(r) /\ Step(c, r) /\ ArchiveNext(call[c], p, r)
    BY <1>4, ArchiveFileMoves
  <2>2. call'[c] = r
    BY <2>1, StepSeen
  <2> HIDE DEF p
  <2>3. r.patterns = call[c].patterns
    BY <2>1 DEF ArchiveNext
  <2>4. CASE r.archive = call[c].archive
    BY <2>2, <2>3, <2>4 DEF Filtered
  <2>5. CASE /\ Entered(p, call[c].listed, call[c].patterns) /\ ~ Excluded(p, call[c].patterns)
             /\ r.archive = Put(call[c].archive, p, host[p])
    <3>1. \A d \in Above(p) : ~ Excluded(d, r.patterns)
      BY <2>3, <2>5 DEF Entered
    <3>2. DOMAIN r.archive = DOMAIN call[c].archive \cup {p}
      BY <2>5 DEF Put
    <3> QED
      BY <2>2, <2>3, <3>1, <3>2 DEF Filtered
  <2> QED
    BY <2>1, <2>4, <2>5 DEF ArchiveNext
<1>5. CASE (CopyArchive(c) \/ Extract(c)) /\ ~ Return(c)
  <2>1. PICK r : IsCall(r) /\ Step(c, r) /\ SameSync(call[c], r)
    BY <1>5, CopyArchiveMoves, ExtractMoves
  <2>2. call'[c] = r
    BY <2>1, StepSeen
  <2> QED
    BY <2>1, <2>2 DEF SameSync, Filtered
<1> QED
  BY <1>1, <1>2, <1>3, <1>4, <1>5 DEF SyncStep

LEMMA FilterStep == Typed /\ FilterInv /\ [Next]_vars => FilterInv'
<1> SUFFICES ASSUME Typed, FilterInv, [Next]_vars PROVE FilterInv'
  OBVIOUS
<1>1. \A d \in Callers : Filtered(call[d])
  BY DEF FilterInv, Filtered
<1>2. \A d \in Callers : \A k, p : Marked(call[d], k, p) => Filtered(k)
  BY <1>1 DEF Marked, Filtered
<1>3. CASE UNCHANGED vars
  BY <1>3 DEF vars, FilterInv
<1>4. ASSUME NEW c \in Callers, CallStep(c), NEW d \in Callers PROVE Filtered(call'[d])
  <2>1. Seen(c)
    BY <1>4, CallSeen
  <2>2. CASE d = c
    BY <1>1, <1>4, <2>2, FilteredStep
  <2>3. CASE d # c
    <3>1. call'[d] = call[d] \/ \E p \in Paths : Marked(call[d], call'[d], p)
      BY <2>1, <2>3 DEF Seen
    <3> QED
      BY <1>1, <1>2, <3>1
  <2> QED
    BY <2>2, <2>3
<1>5. ASSUME NEW p \in Paths, Edit(p), NEW d \in Callers PROVE Filtered(call'[d])
  <2>1. call'[d] = call[d] \/ Marked(call[d], call'[d], p)
    BY <1>5, EditSeen
  <2> QED
    BY <1>1, <1>2, <2>1
<1>6. ASSUME Crash, NEW d \in Callers PROVE Filtered(call'[d])
  <2>1. call'[d] = Idle /\ Idle.archive = <<>>
    BY <1>6 DEF Crash, Idle
  <2> QED
    BY <2>1, NothingFiltered
<1>7. \/ UNCHANGED vars
      \/ \A d \in Callers : Filtered(call'[d])
  BY <1>4, <1>5, <1>6 DEF Next
<1>8. CASE \A d \in Callers : Filtered(call'[d])
  BY <1>8 DEF FilterInv, Filtered
<1> QED
  BY <1>3, <1>7, <1>8

\* Below the top, what a pattern is compared with ends in the entry's own name.
LEMMA OwnName ==
  ASSUME NEW p \in Paths, NEW i \in 2..Len(p)
  PROVE  SubSeq(p, 1, i) \in Above(p) /\ Last(Rel(SubSeq(p, 1, i))) = p[i]
<1> DEFINE d == SubSeq(p, 1, i)
           top == IF d[1] \in DOMAIN Undotted THEN Undotted[d[1]] ELSE d[1]
           S == Elements(Paths) \cup {top}
<1>1. p \in Seq(Elements(Paths)) /\ Len(p) \in Nat
  BY FilesAssumption
<1>2. d \in Above(p)
  BY <1>1 DEF Above
<1>3. d \in Seq(Elements(Paths)) /\ Len(d) = i /\ d[i] = p[i]
  BY <1>1
<1> HIDE DEF d
<1>4. /\ Tail(d) \in Seq(Elements(Paths)) /\ Len(Tail(d)) = i - 1 /\ Tail(d)[i - 1] = d[i]
  BY <1>3
<1>5. Rel(d) = <<top>> \o Tail(d)
  BY DEF Rel
<1> HIDE DEF top
<1>6. <<top>> \in Seq(S) /\ Tail(d) \in Seq(S) /\ Len(<<top>>) = 1
  BY <1>4
<1> DEFINE t == Tail(d)  o == <<top>>
<1> HIDE DEF S, t, o
<1>7. Len(o \o t) = i /\ (o \o t)[i] = t[i - 1]
  BY <1>4, <1>6, ConcatProperties DEF t, o
<1>8. Last(Rel(d)) = d[i]
  BY <1>4, <1>5, <1>7 DEF Last, t, o
<1> QED
  BY <1>2, <1>3, <1>8 DEF d

\* Below the top of the workspace, nothing an exclude pattern names is archived,
\* nor anything under a directory that one names.
THEOREM PatternsKeepOut == Spec => []ExcludedStayHome
<1>1. Init => FilterInv
  BY NoLines DEF Init, FilterInv, Idle
<1>2. Typed /\ FilterInv => ExcludedStayHome
  <2> SUFFICES ASSUME Typed, FilterInv, NEW c \in Callers, NEW p \in DOMAIN call[c].archive,
                      NEW i \in 2..Len(p), NEW y \in call[c].patterns, ~ y.below, p[i] = y.name
               PROVE  FALSE
    BY DEF ExcludedStayHome
  <2>1. p \in Paths
    BY DEF Typed, IsCall
  <2>2. SubSeq(p, 1, i) \in Above(p) /\ Last(Rel(SubSeq(p, 1, i))) = p[i]
    BY <2>1, OwnName
  <2>3. Matches(Rel(SubSeq(p, 1, i)), y)
    BY <2>2 DEF Matches
  <2>4. Excluded(SubSeq(p, 1, i), call[c].patterns)
    BY <2>3 DEF Excluded
  <2> QED
    BY <2>2, <2>4 DEF FilterInv
<1> QED
  BY <1>1, <1>2, TypesHold, FilterStep, PTL DEF Spec

-----------------------------------------------------------------------------
(* One transport.                                                           *)

LoneInv == ~ enable_http => \A c \in Callers \ {Stdio} : At(c, "idle")

LEMMA OnlyStdio ==
  ASSUME Typed, LoneInv, ~ enable_http, NEW c \in Callers, CallStep(c)
  PROVE  c = Stdio
<1> SUFFICES ASSUME c # Stdio PROVE FALSE
  OBVIOUS
<1>1. At(c, "idle")
  BY DEF LoneInv
<1>2. BeginPrepare(c) \/ BeginSync(c) \/ BeginBack(c) \/ BeginCollect(c)
  BY <1>1 DEF CallStep, LoadFails, Prepare, ReadEnv, TruncateEnv, WriteEnv, EnvFails, Sync,
     ArchiveFile, CopyArchive, Extract, CopyBack, ChooseTarget, CopyArtifact, Answer, At
<1>3. Served(c)
  BY <1>2 DEF BeginPrepare, BeginSync, BeginBack, BeginCollect, Begin
<1> QED
  BY <1>3 DEF Served

\* What can happen to the only call.
LEMMA LoneSteps ==
  ASSUME Typed, LoneInv, ~ enable_http, [Next]_vars
  PROVE  /\ ~ enable_http'
         /\ \A c \in Callers \ {Stdio} : At(c, "idle")'
         /\ LET k == call[Stdio]
                r == call'[Stdio]
            IN \/ r = k /\ UNCHANGED <<host, guest, dest>>
               \/ CallStep(Stdio) /\ Tool(Stdio) /\ IsCall(r)
               \/ /\ \E p \in Paths : /\ IF k.pc = "idle" THEN r = k ELSE Marked(k, r, p)
                                      /\ \A q \in Paths \ {p} : host'[q] = host[q]
                  /\ UNCHANGED <<guest, dest>>
               \/ r = Idle
<1>0. Stdio \in Callers /\ \A c \in Callers \ {Stdio} : At(c, "idle")
  BY FilesAssumption DEF LoneInv
<1>1. CASE UNCHANGED vars
  BY <1>0, <1>1 DEF vars, At
<1>2. ASSUME NEW c \in Callers, CallStep(c)
      PROVE  /\ ~ enable_http' /\ \A d \in Callers \ {Stdio} : At(d, "idle")'
             /\ CallStep(Stdio) /\ Tool(Stdio) /\ IsCall(call'[Stdio])
  <2>1. c = Stdio
    BY <1>2, OnlyStdio
  <2>2. Seen(Stdio) /\ Tool(Stdio) /\ ~ enable_http'
    BY <1>2, <2>1, CallSeen, StepFiles
  <2> QED
    BY <1>0, <1>2, <2>1, <2>2 DEF Seen, At
<1>3. ASSUME NEW p \in Paths, Edit(p)
      PROVE  /\ ~ enable_http' /\ \A d \in Callers \ {Stdio} : At(d, "idle")'
             /\ IF call[Stdio].pc = "idle" THEN call'[Stdio] = call[Stdio]
                                           ELSE Marked(call[Stdio], call'[Stdio], p)
             /\ \A q \in Paths \ {p} : host'[q] = host[q]
             /\ UNCHANGED <<guest, dest>>
  BY <1>0, <1>3, EditSeen DEF At
<1>4. CASE Crash
  BY <1>0, <1>4 DEF Crash, At, Idle
<1> QED
  BY <1>1, <1>2, <1>3, <1>4 DEF Next

LEMMA LoneStep == Typed /\ LoneInv /\ [Next]_vars => LoneInv'
<1> SUFFICES ASSUME Typed, LoneInv, [Next]_vars PROVE LoneInv'
  OBVIOUS
<1>1. enable_http' = enable_http
  BY StepFiles, EditSeen DEF Next, Crash, vars
<1>2. CASE enable_http
  BY <1>1, <1>2 DEF LoneInv
<1>3. CASE ~ enable_http
  BY <1>3, LoneSteps DEF LoneInv
<1> QED
  BY <1>2, <1>3

\* Without the http transport there is never more than one call.
THEOREM LoneHolds == Spec => [](Typed /\ LoneInv)
<1>1. Init => LoneInv
  BY DEF Init, LoneInv, At, Idle
<1> QED
  BY <1>1, TypesHold, LoneStep, PTL DEF Spec

-----------------------------------------------------------------------------
(* Sync.                                                                    *)

Elems(s) == {s[i] : i \in DOMAIN s}

\* The archive wants a path of the listing.
Wanted(p, k) == Entered(p, k.listed, k.patterns) /\ ~ Excluded(p, k.patterns)

\* As long as the user has not changed them, archived files are as they are on
\* the host, and those that were listed are there and are archived or will be;
\* in the end the instance has them.
SyncGood(k, h, g) ==
  /\ k.pc \in {"archive", "copy", "extract"} =>
       /\ \A p \in DOMAIN k.archive \ k.touched : k.archive[p] = h[p]
       /\ \A p \in k.listed \ k.touched :
            /\ h[p] # Absent
            /\ Wanted(p, k) => p \in DOMAIN k.archive \/ (k.pc = "archive" /\ p \in Elems(k.todo))
  /\ k.pc = "answer" /\ k.op = "sync" =>
       \A p \in k.listed \ k.touched : Wanted(p, k) => g[p] = h[p]

SyncInv == ~ enable_http => SyncGood(call[Stdio], host, guest)

LEMMA NextOfTodo ==
  ASSUME NEW todo \in Seq(Paths), todo # <<>>, NEW q \in Elems(todo), q # Head(todo)
  PROVE  q \in Elems(Tail(todo)) /\ Len(todo) # 1
<1>1. PICK i \in 1..Len(todo) : q = todo[i]
  BY DEF Elems
<1>2. i # 1 /\ Len(todo) \in Nat
  BY <1>1
<1>3. /\ Tail(todo) \in Seq(Paths) /\ Len(Tail(todo)) = Len(todo) - 1
      /\ Tail(todo)[i - 1] = todo[i]
  BY <1>1, <1>2
<1>4. i - 1 \in 1..Len(Tail(todo)) /\ DOMAIN Tail(todo) = 1..Len(Tail(todo))
  BY <1>1, <1>2, <1>3
<1> DEFINE t == Tail(todo)
<1>5. q = t[i - 1] /\ i - 1 \in DOMAIN t
  BY <1>1, <1>3, <1>4
<1> HIDE DEF t
<1>6. q \in Elems(t)
  BY <1>5 DEF Elems
<1> QED
  BY <1>1, <1>2, <1>6 DEF t

LEMMA SyncGoodStep ==
  ASSUME Typed, CallStep(Stdio), SyncGood(call[Stdio], host, guest), SyncStep(Stdio), ~ Return(Stdio)
  PROVE  SyncGood(call'[Stdio], host', guest')
<1> DEFINE k == call[Stdio]
           r == call'[Stdio]
<1>0. Stdio \in Callers
  BY FilesAssumption
<1>1. CASE Sync(Stdio)
  <2>1. PICK s : /\ IsCall(s) /\ Step(Stdio, s) /\ s.pc = "archive" /\ s.todo = Order
                 /\ s.listed = Present /\ s.archive = <<>>
    BY <1>0, <1>1, SyncMoves
  <2>2. r = s /\ UNCHANGED <<host, guest>>
    BY <1>0, <1>1, <2>1, StepSeen DEF Sync
  <2>3. \A p \in Present : host[p] # Absent /\ p \in Elems(Order)
    BY DEF Present, Paths, Elems
  <2> QED
    BY <2>1, <2>2, <2>3, NoLines DEF SyncGood
<1>2. CASE ArchiveFile(Stdio)
  <2> DEFINE p == Head(k.todo)
  <2>1. PICK s : IsCall(s) /\ Step(Stdio, s) /\ Same(k, s) /\ ArchiveNext(k, p, s)
    BY <1>0, <1>2, ArchiveFileMoves
  <2>2. r = s /\ UNCHANGED <<host, guest>>
    BY <1>0, <1>2, <2>1, StepSeen DEF ArchiveFile
  <2>3. k.pc = "archive" /\ k.todo \in Seq(Paths) /\ k.todo # <<>>
    BY <1>0, <1>2 DEF Typed, IsCall, ArchiveFile, At
  <2>4. /\ s.patterns = k.patterns /\ s.listed = k.listed /\ s.touched = k.touched
        /\ s.todo = Tail(k.todo) /\ s.pc = IF Len(k.todo) = 1 THEN "copy" ELSE "archive"
    BY <2>1 DEF ArchiveNext, Same
  <2>5. /\ \A q \in DOMAIN k.archive \ k.touched : k.archive[q] = host[q]
        /\ \A q \in k.listed \ k.touched :
             /\ host[q] # Absent
             /\ Wanted(q, k) => q \in DOMAIN k.archive \/ q \in Elems(k.todo)
    BY <2>3 DEF SyncGood
  <2>6. \A q \in DOMAIN s.archive \ s.touched : s.archive[q] = host[q]
    <3>1. CASE s.archive = k.archive
      BY <2>4, <2>5, <3>1
    <3>2. CASE s.archive = Put(k.archive, p, host[p])
      BY <2>4, <2>5, <3>2 DEF Put
    <3> QED
      BY <2>1, <3>1, <3>2 DEF ArchiveNext
  <2>7. ASSUME NEW q \in s.listed \ s.touched, Wanted(q, s)
        PROVE  q \in DOMAIN s.archive \/ (s.pc = "archive" /\ q \in Elems(s.todo))
    <3>1. Wanted(q, k) /\ host[q] # Absent /\ q \in k.listed \ k.touched
      BY <2>4, <2>5, <2>7 DEF Wanted
    <3>2. DOMAIN k.archive \subseteq DOMAIN s.archive
      <4>1. DOMAIN Put(k.archive, p, host[p]) = DOMAIN k.archive \cup {p}
        BY DEF Put
      <4> QED
        BY <2>1, <4>1 DEF ArchiveNext
    <3>3. CASE q = p
      <4>1. s.archive = Put(k.archive, p, host[p])
        BY <2>1, <3>1, <3>3 DEF ArchiveNext, Wanted
      <4> QED
        BY <3>3, <4>1 DEF Put
    <3>4. CASE q # p /\ q \in Elems(k.todo)
      <4>1. q \in Elems(Tail(k.todo)) /\ Len(k.todo) # 1
        BY <2>3, <3>4, NextOfTodo
      <4> QED
        BY <2>4, <4>1
    <3> QED
      BY <2>5, <3>1, <3>2, <3>3, <3>4
  <2>8. \A q \in s.listed \ s.touched : host[q] # Absent
    BY <2>4, <2>5
  <2>9. SyncGood(s, host, guest)
    BY <2>4, <2>6, <2>7, <2>8 DEF SyncGood
  <2> QED
    BY <2>2, <2>9
<1>3. CASE CopyArchive(Stdio)
  <2>1. PICK s : IsCall(s) /\ Step(Stdio, s) /\ Same(k, s) /\ SameSync(k, s) /\ s.pc = "extract"
    BY <1>0, <1>3, CopyArchiveMoves
  <2>2. r = s /\ UNCHANGED <<host, guest>> /\ k.pc = "copy"
    BY <1>0, <1>3, <2>1, StepSeen DEF CopyArchive, At
  <2>3. SyncGood(s, host, guest)
    BY <2>1, <2>2 DEF SyncGood, Same, SameSync, Wanted
  <2> QED
    BY <2>2, <2>3
<1>4. CASE Extract(Stdio)
  <2>1. guest' = [p \in Paths |-> IF p \in DOMAIN k.archive THEN k.archive[p] ELSE guest[p]]
    BY <1>0, <1>4, ExtractMoves
  <2>2. PICK s : IsCall(s) /\ Step(Stdio, s) /\ Same(k, s) /\ SameSync(k, s) /\ s.pc = "answer"
    BY <1>0, <1>4, ExtractMoves
  <2>3. r = s /\ UNCHANGED host /\ k.pc = "extract"
    BY <1>0, <1>4, <2>2, StepSeen DEF Extract, At
  <2>4. ASSUME NEW p \in s.listed \ s.touched, Wanted(p, s)
        PROVE  guest'[p] = host[p]
    <3>1. p \in Paths
      BY <2>2 DEF IsCall
    <3>2. p \in DOMAIN k.archive /\ k.archive[p] = host[p]
      BY <2>2, <2>3, <2>4 DEF SyncGood, Same, SameSync, Wanted
    <3> QED
      BY <2>1, <3>1, <3>2
  <2> QED
    BY <2>2, <2>3, <2>4 DEF SyncGood
<1> QED
  BY <1>1, <1>2, <1>3, <1>4 DEF SyncStep

LEMMA SyncInvStep == Typed /\ LoneInv /\ SyncInv /\ [Next]_vars => SyncInv'
<1> SUFFICES ASSUME Typed, LoneInv, SyncInv, [Next]_vars, ~ enable_http PROVE SyncInv'
  <2>1. ASSUME Typed, [Next]_vars PROVE enable_http' = enable_http
    BY <2>1, StepFiles, EditSeen DEF Next, Crash, vars
  <2> QED
    BY <2>1 DEF SyncInv
<1> DEFINE k == call[Stdio]
           r == call'[Stdio]
<1>1. SyncGood(k, host, guest) /\ Stdio \in Callers
  BY FilesAssumption DEF SyncInv
<1>2. SyncGood(Idle, host', guest')
  BY DEF SyncGood, Idle
<1>3. CASE r = k /\ UNCHANGED <<host, guest, dest>>
  BY <1>1, <1>3 DEF SyncInv
<1>4. CASE CallStep(Stdio) /\ Tool(Stdio) /\ IsCall(r)
  <2>1. CASE Return(Stdio)
    BY <1>1, <1>2, <2>1, ReturnSeen DEF SyncInv
  <2>2. CASE SyncStep(Stdio) /\ ~ Return(Stdio)
    BY <1>1, <1>4, <2>2, SyncGoodStep DEF SyncInv
  <2>3. CASE ~ SyncStep(Stdio)
    <3>1. r.op = "sync" => r.pc = "load"
      BY <1>4, <2>3 DEF Tool
    <3>2. SyncGood(r, host', guest')
      BY <1>4, <3>1 DEF SyncGood, IsCall
    <3> QED
      BY <3>2 DEF SyncInv
  <2> QED
    BY <2>1, <2>2, <2>3
<1>5. ASSUME NEW p \in Paths, IF k.pc = "idle" THEN r = k ELSE Marked(k, r, p),
             \A q \in Paths \ {p} : host'[q] = host[q], UNCHANGED <<guest, dest>>
      PROVE  SyncInv'
  <2>1. IsCall(k)
    BY <1>1 DEF Typed
  <2>2. CASE k.pc = "idle"
    <3>1. r = Idle
      BY <1>5, <2>1, <2>2 DEF IsCall
    <3> QED
      BY <1>2, <3>1 DEF SyncInv
  <2>3. CASE Marked(k, r, p)
    <3>1. k.listed \subseteq Paths /\ DOMAIN k.archive \subseteq Paths
      BY <2>1 DEF IsCall
    <3>2. /\ r.pc = k.pc /\ r.op = k.op /\ r.todo = k.todo /\ r.patterns = k.patterns
          /\ r.listed = k.listed /\ r.archive = k.archive /\ r.touched = k.touched \cup {p}
      BY <2>3 DEF Marked
    <3>3. \A q : Wanted(q, r) <=> Wanted(q, k)
      BY <3>2 DEF Wanted
    <3> HIDE DEF k, r
    <3>4. SyncGood(r, host', guest')
      BY <1>1, <1>5, <3>1, <3>2, <3>3 DEF SyncGood
    <3> QED
      BY <3>4 DEF SyncInv, r
  <2> QED
    BY <1>5, <2>2, <2>3
<1>6. CASE r = Idle
  BY <1>2, <1>6 DEF SyncInv
<1> QED
  BY <1>3, <1>4, <1>5, <1>6, LoneSteps

\* With one transport, a sync that answers has brought every file that was there
\* when it began and is not excluded, as it is on the host, unless the user has
\* changed it meanwhile.
THEOREM SyncBringsAll == Spec => []SyncedIsCurrent
<1>1. Init => SyncInv
  BY FilesAssumption DEF Init, SyncInv, SyncGood, Idle
<1>2. LoneInv /\ SyncInv => SyncedIsCurrent
  <2> SUFFICES ASSUME LoneInv, SyncInv, ~ enable_http, NEW c \in Callers, At(c, "answer"),
                      call[c].op = "sync", NEW p \in call[c].listed \ call[c].touched,
                      Entered(p, call[c].listed, call[c].patterns) /\ ~ Excluded(p, call[c].patterns)
               PROVE  guest[p] = host[p]
    BY DEF SyncedIsCurrent
  <2>1. c = Stdio
    BY DEF LoneInv, At
  <2> QED
    BY <2>1 DEF SyncInv, SyncGood, Wanted, At
<1> QED
  BY <1>1, <1>2, LoneHolds, SyncInvStep, PTL DEF Spec

-----------------------------------------------------------------------------
(* Artifacts.                                                               *)

\* The name that a remote path's i-th copy gets where its own is taken.
Numbered(m, i) == <<i>> \o m.name

Names == {m.name : m \in Remotes} \cup {Numbered(m, i) : i \in Nat, m \in Remotes}
Copies == [remote : Remotes, target : Names]

Plain(copied) == \A i \in DOMAIN copied : Len(copied[i].remote.name) = 1

\* TargetName, of any local_dest.
NameIn(d, remote, idx) == IF remote.name \in DOMAIN d THEN Numbered(remote, idx) ELSE remote.name

\* Every target is the name of its remote path, or that name with the number of
\* the copy; the one that is chosen is free, unless remote files are themselves
\* called like numbered copies, and the ones before it hold their own.
CollectGood(k, d) ==
  k.op = "collect" =>
    /\ k.pc \in {"target", "artifact"} => k.todo \in Seq(Remotes) \ {<<>>}
    /\ k.copied \in Seq(Copies)
    /\ \A i \in DOMAIN k.copied :
         k.copied[i].target \in {k.copied[i].remote.name, Numbered(k.copied[i].remote, i - 1)}
    /\ k.pc = "artifact" =>
         /\ k.copied # <<>>
         /\ LET this == k.copied[Len(k.copied)] IN
            this.target = NameIn(d, this.remote, Len(k.copied) - 1)
    /\ Plain(k.copied) =>
         \A i \in DOMAIN k.copied : k.pc # "artifact" \/ i # Len(k.copied) =>
           k.copied[i].target \in DOMAIN d /\ d[k.copied[i].target] = k.copied[i].remote

CollectInv == ~ enable_http => CollectGood(call[Stdio], dest)

LEMMA NumberedName ==
  ASSUME NEW m \in Remotes, NEW i
  PROVE  /\ Len(m.name) \in Nat \ {0}
         /\ Len(Numbered(m, i)) = Len(m.name) + 1 /\ Numbered(m, i)[1] = i
<1>1. Len(m.name) \in Nat \ {0} /\ m.name = [j \in 1..Len(m.name) |-> m.name[j]]
  BY FilesAssumption
<1> DEFINE s == m.name
           S == {i} \cup {s[j] : j \in 1..Len(s)}
<1> HIDE DEF s
<1>2. s \in Seq(S)
  <2> DEFINE n == Len(s)
  <2>1. n \in Nat /\ s = [j \in 1..n |-> s[j]] /\ \A j \in 1..n : s[j] \in S
    BY <1>1 DEF s
  <2> HIDE DEF n, S
  <2> QED
    BY <2>1
<1>3. <<i>> \in Seq(S) /\ Len(<<i>>) = 1
  OBVIOUS
<1> DEFINE o == <<i>>
<1> HIDE DEF S, o
<1>4. Len(o \o s) = 1 + Len(s) /\ (o \o s)[1] = o[1]
  BY <1>1, <1>2, <1>3, ConcatProperties DEF s, o
<1> QED
  BY <1>1, <1>4 DEF s, o, Numbered

\* A target that was chosen is none of those before it.
LEMMA FreshTarget ==
  ASSUME NEW copied \in Seq(Copies), NEW d, copied # <<>>, Plain(copied),
         \A i \in DOMAIN copied :
           copied[i].target \in {copied[i].remote.name, Numbered(copied[i].remote, i - 1)},
         copied[Len(copied)].target = NameIn(d, copied[Len(copied)].remote, Len(copied) - 1),
         NEW i \in DOMAIN copied, i # Len(copied), copied[i].target \in DOMAIN d
  PROVE  copied[i].target # copied[Len(copied)].target
<1> DEFINE n == Len(copied)
           this == copied[n]
<1>1. n \in Nat \ {0} /\ DOMAIN copied = 1..n /\ this \in Copies /\ copied[i] \in Copies
  OBVIOUS
<1>2. this.remote \in Remotes /\ copied[i].remote \in Remotes
  BY <1>1 DEF Copies
<1>3. Len(this.remote.name) = 1 /\ Len(copied[i].remote.name) = 1
  BY <1>1 DEF Plain
<1>4. CASE this.remote.name \notin DOMAIN d
  BY <1>4 DEF NameIn
<1>5. CASE this.remote.name \in DOMAIN d
  <2>1. this.target = Numbered(this.remote, n - 1)
    BY <1>5 DEF NameIn
  <2>2. Len(this.target) = 2 /\ this.target[1] = n - 1
    <3>1. /\ Len(Numbered(this.remote, n - 1)) = Len(this.remote.name) + 1
          /\ Numbered(this.remote, n - 1)[1] = n - 1
      BY <1>2, NumberedName
    <3> QED
      BY <1>3, <2>1, <3>1
  <2>3. CASE copied[i].target = copied[i].remote.name
    <3>1. Len(copied[i].target) = 1
      BY <1>3, <2>3
    <3>2. Len(copied[i].target) # Len(copied[Len(copied)].target)
      <4>1. Len(copied[Len(copied)].target) = 2
        BY <2>2
      <4>2. 1 # 2
        OBVIOUS
      <4> QED
        BY <3>1, <4>1, <4>2, Zenon
    <3> QED
      BY <3>2, Zenon
  <2>4. CASE copied[i].target = Numbered(copied[i].remote, i - 1)
    <3>1. copied[i].target[1] = i - 1
      BY <1>2, <2>4, NumberedName
    <3> QED
      BY <1>1, <2>2, <3>1
  <2> QED
    BY <2>3, <2>4
<1> QED
  BY <1>4, <1>5

LEMMA CollectGoodStep ==
  ASSUME Typed, CallStep(Stdio), CollectGood(call[Stdio], dest), CollectStep(Stdio), ~ Return(Stdio)
  PROVE  CollectGood(call'[Stdio], dest')
<1> DEFINE k == call[Stdio]
           r == call'[Stdio]
<1>0. Stdio \in Callers
  BY FilesAssumption
<1>1. CASE BeginCollect(Stdio)
  <2>1. PICK s : /\ IsCall(s) /\ Step(Stdio, s) /\ s.pc = "target" /\ s.copied = <<>>
                 /\ s.todo \in Seq(Remotes) \ {<<>>}
    BY <1>0, <1>1, BeginCollectMoves
  <2>2. r = s
    BY <1>0, <2>1, StepSeen
  <2>3. <<>> \in Seq(Copies) /\ DOMAIN <<>> = {}
    OBVIOUS
  <2>4. CollectGood(s, dest')
    BY <2>1, <2>3 DEF CollectGood
  <2> QED
    BY <2>2, <2>4
<1>2. CASE ChooseTarget(Stdio)
  <2> DEFINE n == Len(k.copied)
             m == Head(k.todo)
             new == [remote |-> m, target |-> TargetName(m, n)]
  <2>1. PICK s : /\ IsCall(s) /\ Step(Stdio, s) /\ s.pc = "artifact" /\ s.todo = k.todo
                 /\ s.copied = Append(k.copied, new)
    BY <1>0, <1>2, ChooseTargetMoves
  <2>2. r = s /\ UNCHANGED dest
    BY <1>0, <1>2, <2>1, StepSeen DEF ChooseTarget
  <2>3. k.pc = "target" /\ k.op = "collect"
    BY <1>0, <1>2 DEF Typed, IsCall, ChooseTarget, At
  <2>4. /\ k.todo \in Seq(Remotes) \ {<<>>} /\ k.copied \in Seq(Copies)
        /\ \A i \in DOMAIN k.copied :
             k.copied[i].target \in {k.copied[i].remote.name, Numbered(k.copied[i].remote, i - 1)}
        /\ Plain(k.copied) => \A i \in DOMAIN k.copied :
             k.copied[i].target \in DOMAIN dest /\ dest[k.copied[i].target] = k.copied[i].remote
    BY <2>3 DEF CollectGood
  <2>5. m \in Remotes /\ n \in Nat /\ DOMAIN k.copied = 1..n
    <3>1. m \in Remotes
      BY <2>4, HeadTailProperties
    <3>2. n \in Nat /\ DOMAIN k.copied = 1..n
      BY <2>4, LenProperties
    <3> QED
      BY <3>1, <3>2
  <2>6. new.remote = m /\ new.target = NameIn(dest, m, n)
    BY DEF TargetName, NameIn, Numbered
  <2>7. new.target \in {m.name, Numbered(m, n)}
    BY <2>6 DEF NameIn
  <2>8. new \in Copies
    <3>1. new.target \in Names
      <4>1. m.name \in Names /\ Numbered(m, n) \in Names
        BY <2>5 DEF Names
      <4> QED
        BY <2>7, <4>1
    <3> QED
      BY <2>5, <3>1 DEF Copies
  <2> HIDE DEF new, n, m
  <2>9. /\ s.copied \in Seq(Copies) /\ Len(s.copied) = n + 1 /\ s.copied # <<>>
        /\ DOMAIN s.copied = 1..(n + 1) /\ s.copied[n + 1] = new
        /\ \A i \in 1..n : s.copied[i] = k.copied[i]
    <3> DEFINE old == k.copied
    <3>1. old \in Seq(Copies) /\ Len(old) = n
      BY <2>4 DEF n
    <3> HIDE DEF old
    <3>2. /\ Append(old, new) \in Seq(Copies) /\ Len(Append(old, new)) = n + 1
          /\ Append(old, new) # <<>> /\ DOMAIN Append(old, new) = 1..(n + 1)
          /\ Append(old, new)[n + 1] = new
          /\ \A i \in 1..n : Append(old, new)[i] = old[i]
      BY <2>5, <2>8, <3>1
    <3> QED
      BY <2>1, <3>2 DEF old
  <2>10. \A i \in DOMAIN s.copied :
           s.copied[i].target \in {s.copied[i].remote.name, Numbered(s.copied[i].remote, i - 1)}
    <3>1. ASSUME NEW i \in 1..n
          PROVE  s.copied[i].target \in {s.copied[i].remote.name, Numbered(s.copied[i].remote, i - 1)}
      BY <2>4, <2>5, <2>9, <3>1
    <3>2. (n + 1) - 1 = n
      BY <2>5
    <3>3. s.copied[n + 1].target \in {s.copied[n + 1].remote.name,
                                     Numbered(s.copied[n + 1].remote, (n + 1) - 1)}
      BY <2>6, <2>7, <2>9, <3>2
    <3>4. \A i \in DOMAIN s.copied : i \in 1..n \/ i = n + 1
      BY <2>5, <2>9
    <3> QED
      BY <3>1, <3>3, <3>4
  <2>11. s.copied[Len(s.copied)].target = NameIn(dest, s.copied[Len(s.copied)].remote, Len(s.copied) - 1)
    <3>1. Len(s.copied) - 1 = n
      BY <2>5, <2>9
    <3> QED
      BY <2>6, <2>9, <3>1
  <2>12. Plain(s.copied) => \A i \in DOMAIN s.copied : i # Len(s.copied) =>
           s.copied[i].target \in DOMAIN dest /\ dest[s.copied[i].target] = s.copied[i].remote
    <3>1. Plain(s.copied) => Plain(k.copied)
      BY <2>5, <2>9 DEF Plain
    <3>2. \A i \in DOMAIN s.copied : i # Len(s.copied) => i \in 1..n
      BY <2>5, <2>9
    <3> QED
      BY <2>4, <2>5, <2>9, <3>1, <3>2
  <2>13. CollectGood(s, dest)
    BY <2>1, <2>4, <2>9, <2>10, <2>11, <2>12 DEF CollectGood
  <2> QED
    BY <2>2, <2>13
<1>3. CASE CopyArtifact(Stdio)
  <2> DEFINE n == Len(k.copied)
             this == Last(k.copied)
             left == Tail(k.todo)
  <2>1. dest' = Put(dest, this.target, this.remote)
    BY <1>0, <1>3, CopyArtifactMoves
  <2>2. PICK s : /\ IsCall(s) /\ Step(Stdio, s)
                 /\ s.pc = IF left = <<>> THEN "answer" ELSE "target"
                 /\ s.todo = left /\ s.copied = k.copied
    BY <1>0, <1>3, CopyArtifactMoves
  <2>3. r = s
    BY <1>0, <2>2, StepSeen
  <2>4. k.pc = "artifact" /\ k.op = "collect"
    BY <1>0, <1>3 DEF Typed, IsCall, CopyArtifact, At
  <2>5. /\ k.todo \in Seq(Remotes) \ {<<>>} /\ k.copied \in Seq(Copies) /\ k.copied # <<>>
        /\ \A i \in DOMAIN k.copied :
             k.copied[i].target \in {k.copied[i].remote.name, Numbered(k.copied[i].remote, i - 1)}
        /\ k.copied[n].target = NameIn(dest, k.copied[n].remote, n - 1)
        /\ Plain(k.copied) => \A i \in DOMAIN k.copied : i # n =>
             k.copied[i].target \in DOMAIN dest /\ dest[k.copied[i].target] = k.copied[i].remote
    BY <2>4 DEF CollectGood
  <2>6. this = k.copied[n]
    BY DEF Last
  <2>7. left \in Seq(Remotes)
    BY <2>5
  <2> HIDE DEF this, left
  <2>8. Plain(k.copied) => \A i \in DOMAIN k.copied :
          k.copied[i].target \in DOMAIN dest' /\ dest'[k.copied[i].target] = k.copied[i].remote
    <3> SUFFICES ASSUME Plain(k.copied), NEW i \in DOMAIN k.copied
                 PROVE  k.copied[i].target \in DOMAIN dest' /\ dest'[k.copied[i].target] = k.copied[i].remote
      OBVIOUS
    <3>1. CASE i = n
      BY <2>1, <2>6, <3>1 DEF Put
    <3>2. CASE i # n
      <4>1. k.copied[i].target \in DOMAIN dest /\ dest[k.copied[i].target] = k.copied[i].remote
        BY <2>5, <3>2
      <4>2. k.copied[i].target # this.target
        BY <2>5, <2>6, <3>2, <4>1, FreshTarget
      <4> QED
        BY <2>1, <4>1, <4>2 DEF Put
    <3> QED
      BY <3>1, <3>2
  <2>9. /\ s.pc \in {"answer", "target"} /\ (s.pc = "target" => left # <<>>)
    BY <2>2
  <2>10. CollectGood(s, dest')
    <3> DEFINE e == dest'
    <3> HIDE DEF e, k
    <3>1. /\ s.copied = k.copied /\ s.todo = left
          /\ Plain(k.copied) => \A i \in DOMAIN k.copied :
               k.copied[i].target \in DOMAIN e /\ e[k.copied[i].target] = k.copied[i].remote
      BY <2>2, <2>8 DEF e
    <3>2. CollectGood(s, e)
      BY <2>5, <2>7, <2>9, <3>1 DEF CollectGood
    <3> QED
      BY <3>2 DEF e
  <2> QED
    BY <2>3, <2>10
<1> QED
  BY <1>1, <1>2, <1>3 DEF CollectStep

LEMMA CollectInvStep == Typed /\ LoneInv /\ CollectInv /\ [Next]_vars => CollectInv'
<1> SUFFICES ASSUME Typed, LoneInv, CollectInv, [Next]_vars, ~ enable_http PROVE CollectInv'
  <2>1. ASSUME Typed, [Next]_vars PROVE enable_http' = enable_http
    BY <2>1, StepFiles, EditSeen DEF Next, Crash, vars
  <2> QED
    BY <2>1 DEF CollectInv
<1> DEFINE k == call[Stdio]
           r == call'[Stdio]
<1>1. CollectGood(k, dest) /\ Stdio \in Callers
  BY FilesAssumption DEF CollectInv
<1>2. CollectGood(Idle, dest')
  BY DEF CollectGood, Idle
<1>3. CASE r = k /\ UNCHANGED <<host, guest, dest>>
  BY <1>1, <1>3 DEF CollectInv
<1>4. CASE CallStep(Stdio) /\ Tool(Stdio) /\ IsCall(r)
  <2>1. CASE Return(Stdio)
    BY <1>1, <1>2, <2>1, ReturnSeen DEF CollectInv
  <2>2. CASE CollectStep(Stdio) /\ ~ Return(Stdio)
    BY <1>1, <1>4, <2>2, CollectGoodStep DEF CollectInv
  <2>3. CASE ~ CollectStep(Stdio)
    BY <1>4, <2>3 DEF Tool, CollectInv, CollectGood
  <2> QED
    BY <2>1, <2>2, <2>3
<1>5. ASSUME NEW p \in Paths, IF k.pc = "idle" THEN r = k ELSE Marked(k, r, p),
             UNCHANGED <<guest, dest>>
      PROVE  CollectInv'
  <2>1. CASE r = k
    BY <1>1, <1>5, <2>1 DEF CollectInv
  <2>2. CASE Marked(k, r, p)
    <3>1. r.pc = k.pc /\ r.op = k.op /\ r.todo = k.todo /\ r.copied = k.copied
      BY <2>2 DEF Marked
    <3> HIDE DEF k, r
    <3>2. CollectGood(r, dest)
      BY <1>1, <3>1 DEF CollectGood
    <3> QED
      BY <1>5, <3>2 DEF CollectInv, r
  <2> QED
    BY <1>5, <2>1, <2>2
<1>6. CASE r = Idle
  BY <1>2, <1>6 DEF CollectInv
<1> QED
  BY <1>3, <1>4, <1>5, <1>6, LoneSteps

\* With one transport, when artifacts have been collected every target that the
\* answer lists holds the file of its own remote path - as long as no remote
\* file is itself called like a numbered copy.
THEOREM TargetsAreDistinct == Spec => []ArtifactsAreTheirOwn
<1>1. Init => CollectInv
  BY FilesAssumption DEF Init, CollectInv, CollectGood, Idle
<1>2. LoneInv /\ CollectInv => ArtifactsAreTheirOwn
  <2> SUFFICES ASSUME LoneInv, CollectInv, ~ enable_http, NEW c \in Callers, At(c, "answer"),
                      call[c].op = "collect",
                      ~ \E i \in DOMAIN call[c].copied : Len(call[c].copied[i].remote.name) > 1,
                      NEW i \in DOMAIN call[c].copied
               PROVE  dest[call[c].copied[i].target] = call[c].copied[i].remote
    BY DEF ArtifactsAreTheirOwn
  <2>1. c = Stdio
    BY DEF LoneInv, At
  <2> DEFINE copied == call[c].copied
  <2>2. /\ copied \in Seq(Copies)
        /\ Plain(copied) => dest[copied[i].target] = copied[i].remote
    BY <2>1 DEF CollectInv, CollectGood, At
  <2>3. Plain(copied)
    <3> SUFFICES ASSUME NEW j \in DOMAIN copied PROVE Len(copied[j].remote.name) = 1
      BY DEF Plain
    <3>1. copied[j].remote \in Remotes
      <4>1. copied[j] \in Copies
        BY <2>2
      <4> QED
        BY <4>1 DEF Copies
    <3>2. Len(copied[j].remote.name) \in Nat \ {0}
      BY <3>1, NumberedName
    <3> DEFINE length == Len(copied[j].remote.name)
    <3>3. ~ (length > 1)
      OBVIOUS
    <3> HIDE DEF length
    <3>4. length = 1
      <4>1. length \in Nat \ {0}
        BY <3>2 DEF length
      <4> QED
        BY <3>3, <4>1
    <3> QED
      BY <3>4 DEF length
  <2> QED
    BY <2>2, <2>3
<1> QED
  BY <1>1, <1>2, LoneHolds, CollectInvStep, PTL DEF Spec

-----------------------------------------------------------------------------
(* Injected variables.                                                      *)

Services == {"DB", "REDIS"}

\* Unless the user has changed it, the file has the variables of its services.
Done(k, h, t) ==
  t \notin k.touched =>
    /\ h[t] # Absent
    /\ \A key \in Services : HasTarget(k.settings, key) /\ TargetOf(k.settings, key) = t =>
         ValueOf(h[t], key) = Instance

\* Either every file is still to be written or the one of redis is, which then
\* is not .env; a file that was emptied stays empty until it is written, unless
\* the user has changed it; in the end every file is done.
PrepareGood(k, h) ==
  k.op = "prepare" =>
    /\ k.pc \in EnvPCs =>
         \/ k.todo = InjectTargets(k.settings)
         \/ /\ HasTarget(k.settings, "REDIS") /\ TargetOf(k.settings, "REDIS") # Dotenv
            /\ k.todo = <<TargetOf(k.settings, "REDIS")>>
            /\ Done(k, h, Dotenv)
    /\ k.pc = "write_env" => Head(k.todo) \in k.touched \/ h[Head(k.todo)] = <<>>
    /\ k.pc = "answer" /\ k.settings # <<>> =>
         \A key \in Services : HasTarget(k.settings, key) =>
           TargetOf(k.settings, key) \in Paths /\ Done(k, h, TargetOf(k.settings, key))

PrepareInv == ~ enable_http => PrepareGood(call[Stdio], host)

\* The targets, one after the other.
LEMMA Targets ==
  ASSUME NEW set
  PROVE  /\ TargetOf(set, "DB") = Dotenv /\ Head(InjectTargets(set)) = Dotenv
         /\ \/ /\ HasTarget(set, "REDIS") /\ TargetOf(set, "REDIS") # Dotenv
               /\ Tail(InjectTargets(set)) = <<TargetOf(set, "REDIS")>>
            \/ /\ Tail(InjectTargets(set)) = <<>>
               /\ HasTarget(set, "REDIS") => TargetOf(set, "REDIS") = Dotenv
<1> DEFINE t == TargetOf(set, "REDIS")  v == Dotenv
<1>1. TargetOf(set, "DB") = Dotenv
  BY DEF TargetOf
<1> HIDE DEF t, v
<1>2. InjectTargets(set) = IF HasTarget(set, "REDIS") /\ t # v THEN <<v, t>> ELSE <<v>>
  BY DEF InjectTargets, t, v
<1>3. /\ Head(<<v, t>>) = v /\ Tail(<<v, t>>) = <<t>>
      /\ Head(<<v>>) = v /\ Tail(<<v>>) = <<>>
  OBVIOUS
<1>4. /\ Head(InjectTargets(set)) = v
      /\ \/ HasTarget(set, "REDIS") /\ t # v /\ Tail(InjectTargets(set)) = <<t>>
         \/ Tail(InjectTargets(set)) = <<>> /\ (HasTarget(set, "REDIS") => t = v)
  BY <1>2, <1>3
<1> QED
  BY <1>1, <1>4 DEF t, v

\* A write that nobody interferes with is done.
LEMMA WrittenIsDone ==
  ASSUME NEW k, NEW h, NEW t, NEW lines \in Files,
         t \notin k.touched => h[t] = Upsert(lines, InjectedInto(k.settings, t), Keys)
  PROVE  Done(k, h, t)
<1> DEFINE new == Upsert(lines, InjectedInto(k.settings, t), Keys)
<1>1. /\ new \in Files
      /\ \A key \in Services : HasTarget(k.settings, key) /\ TargetOf(k.settings, key) = t =>
           LastLine(new, key, Instance)
  BY InjectedLines DEF Services
<1>2. new # Absent
  BY <1>1, FilesAssumption
<1> HIDE DEF new
<1>3. \A key : LastLine(new, key, Instance) => ValueOf(new, key) = Instance
  BY <1>1, LastLineValue DEF Files
<1> QED
  BY <1>1, <1>2, <1>3 DEF Done, new

LEMMA PrepareGoodStep ==
  ASSUME Typed, CallStep(Stdio), PrepareGood(call[Stdio], host), PrepareStep(Stdio)
  PROVE  PrepareGood(call'[Stdio], host')
<1> DEFINE k == call[Stdio]
           r == call'[Stdio]
<1>0. Stdio \in Callers /\ IsCall(k)
  BY FilesAssumption DEF Typed
<1>1. CASE Prepare(Stdio)
  <2>1. PICK s : /\ IsCall(s) /\ Step(Stdio, s)
                 /\ \/ s.pc = "read_env" /\ s.todo = InjectTargets(s.settings)
                    \/ s.pc = "answer" /\ s.settings = k.settings
    BY <1>0, <1>1, PrepareMoves
  <2>2. r = s
    BY <1>0, <2>1, StepSeen
  <2>3. k.settings = <<>>
    BY <1>0, <1>1 DEF IsCall, Prepare, At
  <2>4. PrepareGood(s, host')
    BY <2>1, <2>3 DEF PrepareGood, EnvPCs
  <2> QED
    BY <2>2, <2>4
<1>2. CASE ReadEnv(Stdio)
  <2>1. PICK s : /\ IsCall(s) /\ Step(Stdio, s) /\ Same(k, s) /\ s.pc = "truncate"
                 /\ s.settings = k.settings /\ s.todo = k.todo
    BY <1>0, <1>2, ReadEnvMoves
  <2>2. r = s /\ UNCHANGED host /\ k.pc = "read_env"
    BY <1>0, <1>2, <2>1, StepSeen DEF ReadEnv, At
  <2>3. PrepareGood(s, host)
    BY <2>1, <2>2 DEF PrepareGood, EnvPCs, Same, Done
  <2> QED
    BY <2>2, <2>3
<1>3. CASE TruncateEnv(Stdio)
  <2>1. PICK s : /\ IsCall(s) /\ Same(k, s) /\ s.pc = "write_env"
                 /\ s.settings = k.settings /\ s.todo = k.todo /\ Head(s.todo) \in Paths
                 /\ TouchedBy(Stdio, Head(s.todo), s) /\ Touch(Head(s.todo), <<>>)
    BY <1>0, <1>3, TruncateEnvMoves
  <2> DEFINE t == Head(s.todo)
  <2>2. r = s /\ k.pc = "truncate" /\ k.op = "prepare"
    BY <1>0, <1>3, <2>1, TouchSeen DEF TruncateEnv, At, IsCall, EnvPCs
  <2>3. <<>> \in Contents /\ Dotenv \in Paths
    BY NoLines, TargetsAssumption DEF Contents
  <2>4. host'[t] = <<>> /\ \A q \in Paths \ {t} : host'[q] = host[q]
    BY <2>1, <2>3, TouchFiles
  <2>5. \/ s.todo = InjectTargets(s.settings)
        \/ /\ HasTarget(s.settings, "REDIS") /\ TargetOf(s.settings, "REDIS") # Dotenv
           /\ s.todo = <<TargetOf(s.settings, "REDIS")>>
           /\ Done(k, host, Dotenv)
    BY <2>1, <2>2 DEF PrepareGood, EnvPCs
  <2>6. s.todo = <<TargetOf(s.settings, "REDIS")>> => t = TargetOf(s.settings, "REDIS")
    OBVIOUS
  <2>7. TargetOf(s.settings, "REDIS") # Dotenv /\ t = TargetOf(s.settings, "REDIS")
           /\ Done(k, host, Dotenv) => Done(s, host', Dotenv)
    BY <2>1, <2>3, <2>4 DEF Done, Same
  <2>8. PrepareGood(s, host')
    BY <2>1, <2>4, <2>5, <2>6, <2>7 DEF PrepareGood
  <2> QED
    BY <2>2, <2>8
<1>4. CASE WriteEnv(Stdio)
  <2> DEFINE t == Head(k.todo)
             new == Upsert(k.lines, InjectedInto(k.settings, t), Keys)
             content == IF host[t] = Absent THEN Absent ELSE Overwritten(host[t], new)
             set == k.settings
  <2>1. t \in Paths /\ new \in Files /\ content \in Contents /\ Touch(t, content)
    BY <1>0, <1>4, WriteEnvMoves
  <2>2. PICK s : /\ IsCall(s) /\ Same(k, s)
                 /\ s.pc = IF Tail(k.todo) = <<>> THEN "answer" ELSE "read_env"
                 /\ s.settings = k.settings /\ s.todo = Tail(k.todo)
                 /\ TouchedBy(Stdio, t, s)
    BY <1>0, <1>4, WriteEnvMoves
  <2>3. r = s /\ k.pc = "write_env" /\ k.op = "prepare" /\ k.lines \in Files
    BY <1>0, <1>4, <2>1, <2>2, TouchSeen DEF WriteEnv, At, IsCall, EnvPCs
  <2>4. host'[t] = content /\ \A q \in Paths \ {t} : host'[q] = host[q]
    BY <2>1, TouchFiles
  <2>5. Done(s, host', t)
    <3>1. t \notin s.touched => host[t] = <<>>
      BY <2>2, <2>3 DEF PrepareGood, Same
    <3>2. <<>> \in Files /\ <<>> # Absent
      BY NoLines, FilesAssumption
    <3>3. Overwritten(<<>>, new) = new
      <4> HIDE DEF new
      <4> QED
        BY <2>1, <3>2, OverwrittenFile
    <3> HIDE DEF new
    <3>4. t \notin s.touched => host'[t] = new
      BY <2>4, <3>1, <3>2, <3>3
    <3>5. t \notin s.touched => host'[t] = Upsert(k.lines, InjectedInto(s.settings, t), Keys)
      BY <2>2, <3>4 DEF new
    <3> QED
      BY <2>3, <3>5, WrittenIsDone
  <2> HIDE DEF new, content
  <2>6. \/ k.todo = InjectTargets(set)
        \/ /\ HasTarget(set, "REDIS") /\ TargetOf(set, "REDIS") # Dotenv
           /\ k.todo = <<TargetOf(set, "REDIS")>>
           /\ Done(k, host, Dotenv)
    BY <2>3 DEF PrepareGood, EnvPCs
  <2>7. CASE k.todo = InjectTargets(set)
    <3>1. t = Dotenv /\ TargetOf(set, "DB") = Dotenv
      BY <2>7, Targets
    <3>2. CASE /\ HasTarget(set, "REDIS") /\ TargetOf(set, "REDIS") # Dotenv
               /\ Tail(k.todo) = <<TargetOf(set, "REDIS")>>
      <4>1. s.pc = "read_env"
        BY <2>2, <3>2
      <4>2. PrepareGood(s, host')
        BY <2>2, <2>5, <3>1, <3>2, <4>1 DEF PrepareGood
      <4> QED
        BY <2>3, <4>2
    <3>3. CASE Tail(k.todo) = <<>> /\ (HasTarget(set, "REDIS") => TargetOf(set, "REDIS") = Dotenv)
      <4>1. s.pc = "answer"
        BY <2>2, <3>3
      <4>2. \A key \in Services : HasTarget(set, key) => TargetOf(set, key) = t
        BY <3>1, <3>3 DEF Services
      <4>3. PrepareGood(s, host')
        BY <2>1, <2>2, <2>5, <4>1, <4>2 DEF PrepareGood, EnvPCs
      <4> QED
        BY <2>3, <4>3
    <3> QED
      BY <2>7, <3>2, <3>3, Targets
  <2>8. CASE /\ HasTarget(set, "REDIS") /\ TargetOf(set, "REDIS") # Dotenv
             /\ k.todo = <<TargetOf(set, "REDIS")>>
             /\ Done(k, host, Dotenv)
    <3>1. t = TargetOf(set, "REDIS") /\ Tail(k.todo) = <<>>
      BY <2>8
    <3>2. s.pc = "answer"
      BY <2>2, <3>1
    <3>3. Done(s, host', Dotenv)
      BY <2>2, <2>4, <2>8, <3>1, TargetsAssumption DEF Done, Same
    <3>4. \A key \in Services : TargetOf(set, key) = Dotenv \/ TargetOf(set, key) = t
      BY <3>1, Targets DEF Services
    <3>5. PrepareGood(s, host')
      BY <2>1, <2>2, <2>5, <3>2, <3>3, <3>4, TargetsAssumption DEF PrepareGood, EnvPCs
    <3> QED
      BY <2>3, <3>5
  <2> QED
    BY <2>6, <2>7, <2>8
<1> QED
  BY <1>1, <1>2, <1>3, <1>4 DEF PrepareStep

LEMMA PrepareInvStep == Typed /\ LoneInv /\ PrepareInv /\ [Next]_vars => PrepareInv'
<1> SUFFICES ASSUME Typed, LoneInv, PrepareInv, [Next]_vars, ~ enable_http PROVE PrepareInv'
  <2>1. ASSUME Typed, [Next]_vars PROVE enable_http' = enable_http
    BY <2>1, StepFiles, EditSeen DEF Next, Crash, vars
  <2> QED
    BY <2>1 DEF PrepareInv
<1> DEFINE k == call[Stdio]
           r == call'[Stdio]
<1>1. PrepareGood(k, host) /\ IsCall(k)
  BY FilesAssumption DEF PrepareInv, Typed
<1>2. PrepareGood(Idle, host')
  BY DEF PrepareGood, Idle
<1>3. CASE r = k /\ UNCHANGED <<host, guest, dest>>
  BY <1>1, <1>3 DEF PrepareInv
<1>4. CASE CallStep(Stdio) /\ Tool(Stdio) /\ IsCall(r)
  <2>1. CASE PrepareStep(Stdio)
    BY <1>1, <1>4, <2>1, PrepareGoodStep DEF PrepareInv
  <2>2. CASE ~ PrepareStep(Stdio)
    <3>1. r.op = "prepare" => r.pc = "load"
      BY <1>4, <2>2 DEF Tool
    <3>2. PrepareGood(r, host')
      BY <3>1 DEF PrepareGood, EnvPCs
    <3> QED
      BY <3>2 DEF PrepareInv
  <2> QED
    BY <2>1, <2>2
<1>5. ASSUME NEW p \in Paths, IF k.pc = "idle" THEN r = k ELSE Marked(k, r, p),
             \A q \in Paths \ {p} : host'[q] = host[q]
      PROVE  PrepareInv'
  <2>1. CASE k.pc = "idle"
    <3>1. r = Idle
      BY <1>1, <1>5, <2>1 DEF IsCall
    <3> QED
      BY <1>2, <3>1 DEF PrepareInv
  <2>2. CASE Marked(k, r, p)
    <3>1. /\ r.pc = k.pc /\ r.op = k.op /\ r.todo = k.todo /\ r.settings = k.settings
          /\ r.touched = k.touched \cup {p}
      BY <2>2 DEF Marked
    <3>2. k.pc \in EnvPCs => Head(k.todo) \in Paths
      BY <1>1 DEF IsCall
    <3> HIDE DEF k, r
    <3>3. ASSUME NEW t \in Paths, Done(k, host, t) PROVE Done(r, host', t)
      BY <1>5, <3>1, <3>3 DEF Done
    <3>4. PrepareGood(r, host')
      BY <1>1, <1>5, <3>1, <3>2, <3>3, TargetsAssumption DEF PrepareGood, EnvPCs
    <3> QED
      BY <3>4 DEF PrepareInv, r
  <2> QED
    BY <1>5, <2>1, <2>2
<1>6. CASE r = Idle
  BY <1>2, <1>6 DEF PrepareInv
<1> QED
  BY <1>3, <1>4, <1>5, <1>6, LoneSteps

\* With one transport, when prepare_workspace answers that it has injected the
\* variables, those of every service stand in the file it is configured for,
\* unless the user has changed that file meanwhile.
THEOREM VariablesAreInjected == Spec => []PreparedMeansInjected
<1>1. Init => PrepareInv
  BY FilesAssumption DEF Init, PrepareInv, PrepareGood, Idle
<1>2. LoneInv /\ PrepareInv => PreparedMeansInjected
  <2> SUFFICES ASSUME LoneInv, PrepareInv, ~ enable_http, NEW c \in Callers, At(c, "answer"),
                      call[c].op = "prepare", call[c].settings # <<>>, NEW key \in Services,
                      HasTarget(call[c].settings, key),
                      TargetOf(call[c].settings, key) \notin call[c].touched
               PROVE  /\ host[TargetOf(call[c].settings, key)] # Absent
                      /\ ValueOf(host[TargetOf(call[c].settings, key)], key) = Instance
    BY DEF PreparedMeansInjected, Services
  <2>1. c = Stdio
    BY DEF LoneInv, At
  <2>2. Done(call[c], host, TargetOf(call[c].settings, key))
    BY <2>1 DEF PrepareInv, PrepareGood, At
  <2> QED
    BY <2>2 DEF Done
<1> QED
  BY <1>1, <1>2, LoneHolds, PrepareInvStep, PTL DEF Spec

-----------------------------------------------------------------------------
(* What a write leaves as it was.                                           *)

\* A key with its last line already in place is not written again.
LEMMA RenderedAgain ==
  ASSUME NEW L, NEW lines \in Seq(L), NEW k, NEW env,
         k \in DOMAIN env => LastLine(lines, k, env[k])
  PROVE  Rendered(lines, lines, k, env) = lines
<1>1. CASE k \notin DOMAIN env
  BY <1>1 DEF Rendered
<1>2. CASE k \in DOMAIN env
  <2> DEFINE at == Max(Assigning(lines, k))
             v == Line(k, env[k])
  <2>1. PICK i \in DOMAIN lines : /\ lines[i] = v
                                  /\ \A j \in DOMAIN lines : lines[j].key = k => j <= i
    BY <1>2 DEF LastLine
  <2>2. i \in Assigning(lines, k)
    BY <2>1 DEF Line, Assigning
  <2>3. Assigning(lines, k) \in SUBSET (0..Len(lines)) /\ Len(lines) \in Nat
    BY DEF Assigning
  <2>4. at = i
    <3>1. at \in Assigning(lines, k) /\ i <= at
      BY <2>2, <2>3, MaxOf
    <3>2. at <= i
      BY <2>1, <3>1 DEF Assigning
    <3> QED
      BY <2>2, <2>3, <3>1, <3>2
  <2>5. Rendered(lines, lines, k, env) = [lines EXCEPT ![at] = v]
    BY <1>2, <2>2 DEF Rendered
  <2> HIDE DEF at, v
  <2>6. [lines EXCEPT ![i] = v] = lines
    BY <2>1
  <2> QED
    BY <2>4, <2>5, <2>6
<1> QED
  BY <1>1, <1>2

LEMMA RStripAgain ==
  ASSUME NEW L, NEW lines \in Seq(L)
  PROVE  RStrip(RStrip(lines)) = RStrip(lines)
<1> DEFINE S == {0} \cup {i \in DOMAIN lines : lines[i] # Blank}
           n == Max(S)
           r == SubSeq(lines, 1, n)
           T == {0} \cup {i \in DOMAIN r : r[i] # Blank}
           m == Max(T)
<1>1. n \in S /\ n \in 0..Len(lines) /\ Len(lines) \in Nat
  <2>1. S \in SUBSET (0..Len(lines)) /\ S # {} /\ Len(lines) \in Nat
    OBVIOUS
  <2> HIDE DEF S
  <2> QED
    BY <2>1, MaxOf
<1>2. RStrip(lines) = r
  BY DEF RStrip
<1>3. n # 0 => n \in DOMAIN lines /\ lines[n] # Blank
  BY <1>1
<1> HIDE DEF n
<1>4. r \in Seq(L) /\ Len(r) = n /\ DOMAIN r = 1..n /\ \A i \in 1..n : r[i] = lines[i]
  BY <1>1
<1> HIDE DEF r
<1>5. n \in T /\ T \in SUBSET (0..n) /\ n \in Nat
  BY <1>1, <1>3, <1>4
<1>6. m = n
  <2> HIDE DEF T
  <2>1. m \in T /\ n <= m
    BY <1>5, MaxOf
  <2> HIDE DEF m
  <2> QED
    BY <1>5, <2>1
<1>7. RStrip(r) = SubSeq(r, 1, m)
  BY DEF RStrip
<1> HIDE DEF m
<1>8. SubSeq(r, 1, n) = r
  BY <1>4, SubSeqFull
<1> QED
  BY <1>2, <1>6, <1>7, <1>8

\* Every line that is about none of the keys is where it was, and none is added.
Kept(old, new, env) ==
  Foreign(new, env) = Foreign(old, env) /\ \A i \in Foreign(old, env) : new[i] = old[i]

LEMMA RenderedKeeps ==
  ASSUME NEW L, NEW lines \in Seq(L), NEW updated \in Seq(L), NEW k, NEW env,
         k \in DOMAIN env => Line(k, env[k]) \in L,
         Assigning(updated, k) = Assigning(lines, k)
  PROVE  Kept(updated, Rendered(lines, updated, k, env), env)
<1> DEFINE r == Rendered(lines, updated, k, env)
           at == Max(Assigning(lines, k))
           new == Line(k, env[k])
<1>1. CASE k \notin DOMAIN env
  BY <1>1 DEF Rendered, Kept
<1>2. CASE k \in DOMAIN env /\ Assigning(lines, k) = {}
  <2>1. r = Append(updated, new) /\ new \in L /\ new.key = k
    BY <1>2 DEF Rendered, Line
  <2> HIDE DEF r, new
  <2>2. /\ DOMAIN r = 1..(Len(updated) + 1) /\ DOMAIN updated = 1..Len(updated)
        /\ Len(updated) \in Nat
        /\ r[Len(updated) + 1] = new /\ \A i \in DOMAIN updated : r[i] = updated[i]
    BY <2>1
  <2>3. Kept(updated, r, env)
    BY <1>2, <2>1, <2>2 DEF Kept, Foreign
  <2> QED
    BY <2>3 DEF r
<1>3. CASE k \in DOMAIN env /\ Assigning(lines, k) # {}
  <2>1. r = [updated EXCEPT ![at] = new] /\ new \in L /\ new.key = k
    BY <1>3 DEF Rendered, Line
  <2>2. at \in Assigning(updated, k)
    <3>1. Assigning(lines, k) \in SUBSET (0..Len(lines)) /\ Len(lines) \in Nat
      BY DEF Assigning
    <3> QED
      BY <1>3, <3>1, MaxOf
  <2> HIDE DEF r, new, at
  <2>3. /\ DOMAIN r = DOMAIN updated /\ at \in DOMAIN updated /\ updated[at].key = k
        /\ r[at] = new /\ \A i \in DOMAIN updated : i # at => r[i] = updated[i]
    BY <2>1, <2>2 DEF Assigning
  <2>4. Kept(updated, r, env)
    BY <1>3, <2>1, <2>3 DEF Kept, Foreign
  <2> QED
    BY <2>4 DEF r
<1> QED
  BY <1>1, <1>2, <1>3

LEMMA RStripKeeps ==
  ASSUME NEW L, NEW lines \in Seq(L), NEW env
  PROVE  Kept(lines, RStrip(lines), env)
<1> DEFINE S == {0} \cup {i \in DOMAIN lines : lines[i] # Blank}
           n == Max(S)
<1>1. n \in 0..Len(lines) /\ \A i \in S : i <= n
  <2>1. S \in SUBSET (0..Len(lines)) /\ S # {} /\ Len(lines) \in Nat
    OBVIOUS
  <2> HIDE DEF S
  <2> QED
    BY <2>1, MaxOf
<1>2. RStrip(lines) = SubSeq(lines, 1, n)
  BY DEF RStrip
<1> HIDE DEF n
<1> DEFINE r == SubSeq(lines, 1, n)
<1>3. DOMAIN r = 1..n /\ (\A i \in 1..n : r[i] = lines[i]) /\ DOMAIN lines = 1..Len(lines)
  BY <1>1
<1> HIDE DEF r
<1>4. \A i \in DOMAIN lines : lines[i] # Blank => i \in 1..n
  BY <1>1, <1>3
<1>5. Kept(lines, r, env)
  BY <1>1, <1>3, <1>4 DEF Kept, Foreign
<1> QED
  BY <1>2, <1>5 DEF r

LEMMA UpsertKeeps ==
  ASSUME NEW L, NEW lines \in Seq(L), NEW env, \A k \in {"DB", "REDIS"} \cap DOMAIN env : Line(k, env[k]) \in L
  PROVE  Kept(lines, Upsert(lines, env, Keys), env)
<1> DEFINE first == Rendered(lines, lines, "DB", env)
           second == Rendered(lines, first, "REDIS", env)
<1>1. first \in Seq(L) /\ Assigning(first, "REDIS") = Assigning(lines, "REDIS")
  BY RenderedLines
<1>2. Kept(lines, first, env)
  BY RenderedKeeps
<1> HIDE DEF first
<1>3. second \in Seq(L)
  BY <1>1, RenderedLines
<1>4. Kept(first, second, env)
  BY <1>1, RenderedKeeps
<1> HIDE DEF second
<1>5. Kept(second, RStrip(second), env)
  BY <1>3, RStripKeeps
<1>6. Upsert(lines, env, Keys) = RStrip(second)
  BY UpsertIs DEF first, second
<1> QED
  BY <1>2, <1>4, <1>5, <1>6 DEF Kept

LEMMA UpsertAgain ==
  ASSUME NEW L, NEW lines \in Seq(L), NEW env, \A k \in {"DB", "REDIS"} \cap DOMAIN env : Line(k, env[k]) \in L
  PROVE  LET new == Upsert(lines, env, Keys) IN Upsert(new, env, Keys) = new
<1> DEFINE new == Upsert(lines, env, Keys)
           second == Rendered(lines, Rendered(lines, lines, "DB", env), "REDIS", env)
<1>1. new \in Seq(L) /\ \A k \in {"DB", "REDIS"} \cap DOMAIN env : LastLine(new, k, env[k])
  BY UpsertLines
<1>2. second \in Seq(L)
  <2> DEFINE first == Rendered(lines, lines, "DB", env)
  <2>1. first \in Seq(L) /\ Assigning(first, "REDIS") = Assigning(lines, "REDIS")
    BY RenderedLines
  <2> HIDE DEF first
  <2>2. Rendered(lines, first, "REDIS", env) \in Seq(L)
    BY <2>1, RenderedLines
  <2> QED
    BY <2>2 DEF first
<1>3. new = RStrip(second)
  BY UpsertIs
<1> HIDE DEF new, second
<1>4. Rendered(new, new, "DB", env) = new /\ Rendered(new, new, "REDIS", env) = new
  BY <1>1, RenderedAgain
<1>5. Upsert(new, env, Keys) = RStrip(new)
  BY <1>4, UpsertIs
<1>6. RStrip(new) = new
  BY <1>2, <1>3, RStripAgain
<1> QED
  BY <1>5, <1>6 DEF new

\* A write of an .env file that nobody interferes with gives each variable its
\* value, keeps every other line in its place, and would not change anything if
\* it were done again.
THEOREM WritesMerge == Spec => UpsertMerges
<1> DEFINE Merges(c) ==
      LET t == Head(call[c].todo)
          env == InjectedInto(call[c].settings, t)
      IN host[t] = <<>> =>
           /\ MergedInto(call[c].lines, host'[t], env)
           /\ Upsert(host'[t], env, Keys) = host'[t]
<1>1. ASSUME Typed, NEW c \in Callers, WriteEnv(c)
      PROVE  Merges(c)
  <2> DEFINE k == call[c]
             t == Head(k.todo)
             env == InjectedInto(k.settings, t)
             new == Upsert(k.lines, env, Keys)
  <2> SUFFICES ASSUME host[t] = <<>>
               PROVE  MergedInto(k.lines, host'[t], env) /\ Upsert(host'[t], env, Keys) = host'[t]
    OBVIOUS
  <2>1. k.lines \in Files /\ <<>> \in Files /\ <<>> # Absent
    <3>1. <<>> \in Files /\ <<>> # Absent
      BY NoLines, FilesAssumption
    <3>2. IsCall(k)
      BY <1>1 DEF Typed
    <3> QED
      BY <3>1, <3>2 DEF IsCall
  <2>2. /\ t \in Paths /\ new \in Files
        /\ Touch(t, IF host[t] = Absent THEN Absent ELSE Overwritten(host[t], new))
        /\ (IF host[t] = Absent THEN Absent ELSE Overwritten(host[t], new)) \in Contents
    BY <1>1, WriteEnvMoves
  <2>3. host'[t] = new
    <3> HIDE DEF new
    <3>1. Overwritten(<<>>, new) = new
      BY <2>1, <2>2, OverwrittenFile
    <3>2. (IF host[t] = Absent THEN Absent ELSE Overwritten(host[t], new)) = new
      BY <2>1, <3>1
    <3> QED
      BY <1>1, <2>2, <3>2, TouchFiles
  <2>4. \A key \in {"DB", "REDIS"} \cap DOMAIN env : Line(key, env[key]) \in Lines
    BY DEF InjectedInto, Lines
  <2>5. DOMAIN env \subseteq {"DB", "REDIS"}
    BY DEF InjectedInto
  <2> HIDE DEF env
  <2>6. Kept(k.lines, new, env) /\ Upsert(new, env, Keys) = new
    BY <2>1, <2>4, UpsertKeeps, UpsertAgain DEF Files
  <2>7. \A key \in DOMAIN env : ValueOf(new, key) = env[key]
    <3>1. new \in Seq(Lines) /\ \A key \in DOMAIN env : LastLine(new, key, env[key])
      BY <2>1, <2>4, <2>5, UpsertLines DEF Files
    <3> HIDE DEF new
    <3> QED
      BY <3>1, LastLineValue
  <2> HIDE DEF new
  <2> QED
    BY <2>3, <2>6, <2>7 DEF MergedInto, Kept
<1>2. ASSUME Typed, [Next]_vars, NEW c \in Callers, At(c, "write_env"), call'[c].pc \in {"read_env", "answer"}
      PROVE  Merges(c)
  <2>1. call'[c] # call[c] /\ ~ (\E p : Marked(call[c], call'[c], p)) /\ call'[c] # Idle
    BY <1>2 DEF At, Marked, Idle
  <2>2. PICK d \in Callers : CallStep(d)
    BY <1>2, <2>1, EditSeen DEF Next, vars, Crash
  <2>3. d = c
    BY <1>2, <2>1, <2>2, CallSeen DEF Seen
  <2>4. WriteEnv(c)
    <3>1. ~ Return(c)
      BY <1>2, <2>1, ReturnSeen
    <3> QED
      BY <1>2, <2>2, <2>3, <3>1 DEF At, CallStep, LoadFails, BeginPrepare, Prepare, ReadEnv, TruncateEnv,
         EnvFails, BeginSync, Sync, ArchiveFile, CopyArchive, Extract, BeginBack, CopyBack,
         BeginCollect, ChooseTarget, CopyArtifact, Answer, Begin
  <2> QED
    BY <1>1, <1>2, <2>4
<1>3. Typed /\ [Next]_vars =>
        [\A c \in Callers :
           At(c, "write_env") /\ call'[c].pc \in {"read_env", "answer"} => Merges(c)]_vars
  BY <1>2
<1> QED
  BY <1>3, TypesHold, PTL DEF Spec, UpsertMerges

-----------------------------------------------------------------------------
(* Settings.                                                                *)

\* The merge of the first n files.
IsMerge(f, files, n) ==
  f = [i \in 0..n |-> IF i = 0 THEN Defaults ELSE DeepMerge(f[i - 1], files[i])]

LEMMA MergeExists ==
  ASSUME NEW files, NEW N \in Nat
  PROVE  \E f : IsMerge(f, files, N)
<1> DEFINE T == {n \in Nat : ~ \E f : IsMerge(f, files, n)}
<1>1. SUFFICES ASSUME T # {} PROVE FALSE
  OBVIOUS
<1>2. PICK m \in T : \A y \in T : m <= y
  <2>1. T \subseteq Nat
    OBVIOUS
  <2> HIDE DEF T
  <2> QED
    BY <1>1, <2>1, Least
<1>3. m # 0
  <2> DEFINE f == [i \in 0..0 |-> Defaults]
  <2>1. IsMerge(f, files, 0)
    BY DEF IsMerge
  <2> HIDE DEF f
  <2> QED
    BY <1>2, <2>1
<1>4. m - 1 \in Nat /\ m \in Nat
  <2>1. m \in Nat
    BY <1>2, Zenon
  <2> HIDE DEF T
  <2> QED
    BY <1>3, <2>1
<1>5. PICK g : IsMerge(g, files, m - 1)
  <2>1. ~ (m <= m - 1)
    BY <1>4
  <2>2. m - 1 \notin T
    BY <1>2, <2>1, Zenon
  <2> QED
    BY <1>4, <2>2
<1> DEFINE last == DeepMerge(g[m - 1], files[m])
           f == [i \in 0..m |-> IF i = m THEN last ELSE g[i]]
           h == [i \in 0..m |-> IF i = 0 THEN Defaults ELSE DeepMerge(f[i - 1], files[i])]
<1>6. ASSUME NEW i \in 0..m PROVE f[i] = h[i]
  <2>1. CASE i = m
    <3>1. f[m - 1] = g[m - 1]
      BY <1>4
    <3> QED
      BY <1>3, <1>4, <2>1, <3>1
  <2>2. CASE i = 0
    <3>1. g[0] = Defaults
      BY <1>4, <1>5 DEF IsMerge
    <3> QED
      BY <1>3, <2>2, <3>1
  <2>3. CASE i # 0 /\ i # m
    <3>1. i \in 0..(m - 1) /\ i - 1 \in 0..m /\ i - 1 # m
      BY <1>4, <2>3
    <3>2. g[i] = DeepMerge(g[i - 1], files[i])
      BY <1>5, <2>3, <3>1 DEF IsMerge
    <3>3. f[i - 1] = g[i - 1] /\ f[i] = g[i]
      BY <2>3, <3>1
    <3>4. h[i] = DeepMerge(f[i - 1], files[i])
      BY <2>3
    <3> QED
      BY <3>2, <3>3, <3>4
  <2> QED
    BY <2>1, <2>2, <2>3
<1>7. f = h
  <2>1. f = [i \in 0..m |-> f[i]] /\ h = [i \in 0..m |-> h[i]]
    OBVIOUS
  <2> HIDE DEF f, h
  <2> QED
    BY <1>6, <2>1
<1>8. IsMerge(f, files, m)
  <2> HIDE DEF f
  <2> QED
    BY <1>7 DEF IsMerge
<1> HIDE DEF f
<1> QED
  BY <1>2, <1>8

LEMMA MergedSteps ==
  ASSUME NEW S, NEW files \in Seq(S)
  PROVE  \E f : Merged(files) = f[Len(files)] /\ IsMerge(f, files, Len(files))
<1> DEFINE merged == CHOOSE f : IsMerge(f, files, Len(files))
<1>1. IsMerge(merged, files, Len(files))
  BY MergeExists
<1>2. Merged(files) = merged[Len(files)]
  BY Zenon DEF Merged, IsMerge
<1> HIDE DEF merged
<1> QED
  BY <1>1, <1>2

\* What a file says that speaks of a setting counts, and nothing else.
LEMMA MergeSays ==
  ASSUME NEW base, NEW file, NEW p, p \in Above(p)
  PROVE  ValueAt(DeepMerge(base, file), p) =
           IF SpeaksOf(file, p) THEN ValueAt(file, p) ELSE ValueAt(base, p)
BY DEF DeepMerge, SpeaksOf, ValueAt

LEMMA WholePath ==
  ASSUME NEW a, NEW b, NEW c
  PROVE  <<a, b>> \in Above(<<a, b>>) /\ <<a, b, c>> \in Above(<<a, b, c>>)
<1>1. ASSUME NEW S, NEW p \in Seq(S), p # <<>> PROVE p \in Above(p)
  <2>1. SubSeq(p, 1, Len(p)) = p /\ Len(p) \in 1..Len(p)
    BY <1>1, SubSeqFull
  <2> QED
    BY <2>1 DEF Above
<1>2. <<a, b>> \in Seq({a, b, c}) \ {<<>>} /\ <<a, b, c>> \in Seq({a, b, c}) \ {<<>>}
  OBVIOUS
<1> QED
  BY <1>1, <1>2

LEMMA SettingPaths ==
  ASSUME NEW p \in Flags \cup Optional
  PROVE  p \in Above(p) /\ p \in DOMAIN Defaults
<1>1. IncludeGit \in Above(IncludeGit) /\ RedisEnabled \in Above(RedisEnabled) /\ RedisTarget \in Above(RedisTarget)
  BY WholePath DEF IncludeGit, RedisEnabled, RedisTarget
<1>2. p \in {IncludeGit, RedisEnabled, RedisTarget}
  BY DEF Flags, Optional
<1>3. p \in DOMAIN Defaults
  BY DEF Defaults
<1> QED
  BY <1>1, <1>2, <1>3

\* The last word of the first n files.
WordOf(files, p, n) ==
  LET speaking == {i \in 1..n : SpeaksOf(files[i], p)} IN
  IF speaking = {} THEN Defaults[p] ELSE ValueAt(files[Max(speaking)], p)

LEMMA NextWord ==
  ASSUME NEW files, NEW p, NEW n \in Nat
  PROVE  WordOf(files, p, n + 1) =
           IF SpeaksOf(files[n + 1], p) THEN ValueAt(files[n + 1], p) ELSE WordOf(files, p, n)
<1> DEFINE old == {i \in 1..n : SpeaksOf(files[i], p)}
           new == {i \in 1..(n + 1) : SpeaksOf(files[i], p)}
<1>1. CASE ~ SpeaksOf(files[n + 1], p)
  <2>1. new = old
    BY <1>1
  <2> QED
    BY <1>1, <2>1 DEF WordOf
<1>2. CASE SpeaksOf(files[n + 1], p)
  <2>1. n + 1 \in new /\ new \in SUBSET (0..(n + 1)) /\ n + 1 \in Nat
    BY <1>2
  <2> HIDE DEF new
  <2>2. Max(new) \in new /\ n + 1 <= Max(new)
    BY <2>1, MaxOf
  <2>3. Max(new) = n + 1
    <3> DEFINE m == Max(new)
    <3>1. m \in 0..(n + 1) /\ n + 1 <= m
      BY <2>1, <2>2
    <3> HIDE DEF m
    <3> QED
      BY <3>1 DEF m
  <2>4. WordOf(files, p, n + 1) = ValueAt(files[n + 1], p)
    BY <2>1, <2>3 DEF WordOf, new
  <2> QED
    BY <1>2, <2>4
<1> QED
  BY <1>1, <1>2

LEMMA WordsCount ==
  ASSUME NEW S, NEW files \in Seq(S), NEW p \in Flags \cup Optional
  PROVE  ValueAt(Merged(files), p) = LastWord(files, p)
<1> DEFINE N == Len(files)
<1>1. N \in Nat /\ DOMAIN files = 1..N
  OBVIOUS
<1>2. PICK f : Merged(files) = f[N] /\ IsMerge(f, files, N)
  BY MergedSteps
<1> DEFINE T == {n \in 0..N : ValueAt(f[n], p) # WordOf(files, p, n)}
<1>3. T = {}
  <2> SUFFICES ASSUME T # {} PROVE FALSE
    OBVIOUS
  <2>1. PICK m \in T : \A y \in T : m <= y
    <3>1. T \subseteq Nat
      BY <1>1
    <3> HIDE DEF T
    <3> QED
      BY <3>1, Least
  <2>2. m \in 0..N /\ ValueAt(f[m], p) # WordOf(files, p, m)
    BY <2>1, Zenon
  <2>3. m # 0
    <3>1. f[0] = Defaults
      BY <1>1, <1>2 DEF IsMerge
    <3>2. ValueAt(Defaults, p) = Defaults[p]
      BY SettingPaths DEF ValueAt
    <3>3. {i \in 1..0 : SpeaksOf(files[i], p)} = {}
      OBVIOUS
    <3>4. WordOf(files, p, 0) = Defaults[p]
      BY <3>3 DEF WordOf
    <3> QED
      BY <2>2, <3>1, <3>2, <3>4
  <2>4. m \in 1..N /\ m - 1 \in 0..N /\ m - 1 \in Nat /\ m \in Nat /\ (m - 1) + 1 = m
    <3> HIDE DEF T
    <3> QED
      BY <1>1, <2>2, <2>3
  <2>5. ValueAt(f[m - 1], p) = WordOf(files, p, m - 1)
    <3>1. ~ (m <= m - 1)
      BY <2>4
    <3>2. m - 1 \notin T
      BY <2>1, <3>1, Zenon
    <3> QED
      BY <2>4, <3>2
  <2>6. f[m] = DeepMerge(f[m - 1], files[m])
    BY <1>2, <2>3, <2>4 DEF IsMerge
  <2>7. ValueAt(f[m], p) = IF SpeaksOf(files[m], p) THEN ValueAt(files[m], p) ELSE ValueAt(f[m - 1], p)
    BY <2>6, MergeSays, SettingPaths
  <2>8. WordOf(files, p, m) =
          IF SpeaksOf(files[m], p) THEN ValueAt(files[m], p) ELSE WordOf(files, p, m - 1)
    <3> DEFINE n == m - 1
    <3>1. n \in Nat /\ n + 1 = m
      BY <2>4
    <3> HIDE DEF n
    <3>2. WordOf(files, p, n + 1) =
            IF SpeaksOf(files[n + 1], p) THEN ValueAt(files[n + 1], p) ELSE WordOf(files, p, n)
      BY <3>1, NextWord
    <3> QED
      BY <3>1, <3>2 DEF n
  <2> HIDE DEF T
  <2> QED
    BY <2>2, <2>5, <2>7, <2>8
<1>4. ValueAt(f[N], p) = WordOf(files, p, N)
  BY <1>1, <1>3
<1>5. WordOf(files, p, N) = LastWord(files, p)
  BY <1>1 DEF WordOf, LastWord
<1> QED
  BY <1>2, <1>4, <1>5

\* Whatever the configuration files hold, the settings of a call are what the
\* file of the highest precedence says that speaks of them, a request before any
\* file, and the default where none does.
THEOREM LastWordDecides == Spec => []LastWordCounts
<1>1. LastWords
  <2> SUFFICES ASSUME NEW files \in Layers, NEW p \in Flags \cup Optional
               PROVE  Settings(files)[p] = LastWord(files, p)
    BY DEF LastWords
  <2>1. PICK base \in Configs, o \in Overrides \cup {<<>>} : files = Append(base, o)
    BY DEF Layers
  <2> DEFINE S == Elements(Configs) \cup {o}
  <2>2. base \in Seq(S)
    <3>1. base \in Seq(Elements(Configs))
      BY FilesAssumption
    <3> QED
      BY <3>1, SeqMonotonic
  <2>3. o \in S
    OBVIOUS
  <2> HIDE DEF S
  <2>4. files \in Seq(S)
    BY <2>1, <2>2, <2>3
  <2> QED
    BY <2>4, WordsCount DEF Settings
<1>2. LastWordCounts
  BY <1>1 DEF LastWordCounts
<1> QED
  BY <1>2, PTL

=============================================================================
