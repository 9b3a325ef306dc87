-------------------------- MODULE ImageCacheProofs --------------------------
(***************************************************************************)
(* Proofs about ImageCache: type correctness for every set of callers and  *)
(* settings, and what holds when one transport builds.  A tag tells the    *)
(* labels of its image, an image that is reused has the labels that were   *)
(* checked, and under the settings that tell the tracked files it has them *)
(* as they are.                                                            *)
(***************************************************************************)
EXTENDS ImageCache, TLAPS

-----------------------------------------------------------------------------
(* Lemmas about tags, images and calls.                                     *)

\* t takes nothing from a fingerprint that state does not have.
NamedBy(t, state) ==
  t # ImageTag => /\ t.commit # "-" => t.commit = state.commit
                  /\ t.deps # "-" => t.deps = state.deps

\* The tag that is expected for a fingerprint is a tag, made from it.
LEMMA ExpectedTag ==
  ASSUME NEW state \in Keys, NEW set \in Settings
  PROVE  /\ expected_cached_image_tag(state, set) \in Tags
         /\ NamedBy(expected_cached_image_tag(state, set), state)
<1>1. ASSUME NEW parts
      PROVE  /\ Masked(state, parts) \in Keys
             /\ Masked(state, parts).commit \in {state.commit, "-"}
             /\ Masked(state, parts).deps \in {state.deps, "-"}
  <2>1. Masked(state, parts) =
          [commit |-> IF "commit" \in parts THEN state.commit ELSE "-",
           dirty |-> IF "dirty" \in parts THEN state.dirty ELSE "-",
           deps |-> IF "deps" \in parts THEN state.deps ELSE "-",
           tracked |-> IF "tracked" \in parts THEN state.tracked ELSE <<"-", "-">>]
    BY DEF Masked, Parts, Unread
  <2> QED
    BY <2>1 DEF Keys
<1> QED
  BY <1>1 DEF expected_cached_image_tag, NamedBy, Tags

\* A part of the workspace, read or not, is a part of a fingerprint.
LEMMA ReadsTyped ==
  ASSUME host \in Sources
  PROVE  /\ Unread \in Keys
         /\ dependencies_hash(host) \in {"base", "edited", "none"}
         /\ \A value \in {tracked_hash(host), failed.tracked} :
              value \in (Commits \cup {NoGit, "-"}) \X {"none", "code", "deps", "no_deps", "-"}
         /\ host.commit \in Commits
  BY DEF Sources, Unread, Keys, dependencies_hash, tracked_hash, failed

\* A workspace makes a tree, and so does unpacking it over the guest's copy.
LEMMA TreesTyped ==
  ASSUME NEW s \in Sources, copy \in Trees, NEW exclude
  PROVE  Contents(s) \in Trees /\ Unpacked(s, exclude) \in Trees
<1>1. Contents(s) \in Trees
  BY DEF Sources, Contents, Trees, dependencies_hash
<1>2. /\ Contents(s).code \in (Commits \cup {NoGit}) \X BOOLEAN
      /\ copy.code \in (Commits \cup {NoGit}) \X BOOLEAN
      /\ Contents(s).deps \in {"base", "edited", "none"}
      /\ copy.deps \in {"base", "edited", "none"}
      /\ Contents(s).files \in SUBSET (Commits \cup {"untracked", "ignored"})
      /\ copy.files \in SUBSET (Commits \cup {"untracked", "ignored"})
  BY <1>1 DEF Trees
<1> QED
  BY <1>1, <1>2 DEF Unpacked, Trees

\* Naming an image changes that name alone.
LEMMA NamedImages ==
  ASSUME NEW t \in Tags, NEW image \in Image,
         Present \subseteq Tags, images \in [Present -> Image],
         images' = Named(t, image)
  PROVE  /\ Present' = Present \cup {t}
         /\ Present' \subseteq Tags /\ images' \in [Present' -> Image]
         /\ images'[t] = image
         /\ \A u \in Present \ {t} : images'[u] = images[u]
  BY DEF Present, Named

\* The other outcome of a reuse: the image has another name already.
Renamed(c) ==
  /\ call[c].tag \in Present \ {ImageTag}
  /\ images' = Named(ImageTag, images[call[c].tag])

LEMMA RenamedImages ==
  ASSUME Present \subseteq Tags, images \in [Present -> Image], NEW c \in Callers, Renamed(c)
  PROVE  /\ Present' = Present \cup {ImageTag}
         /\ Present' \subseteq Tags /\ images' \in [Present' -> Image]
         /\ \A u \in Present \ {ImageTag} : images'[u] = images[u]
<1>1. images[call[c].tag] \in Image /\ ImageTag \in Tags
  BY DEF Renamed, Tags
<1> QED
  BY <1>1, NamedImages DEF Renamed

\* r is the call k, further on: for the same settings, begun on the same
\* sources, and no less disturbed.
SameBuild(r, k) == r.set = k.set /\ r.begun = k.begun /\ (k.disturbed => r.disturbed)

\* And no more disturbed.
SameCall(r, k) == SameBuild(r, k) /\ (r.disturbed => k.disturbed)

\* r is the call k with another part of the workspace read as it is, or r is
\* disturbed.
ReadsOn(r, k) ==
  /\ SameBuild(r, k)
  /\ \/ r.disturbed
     \/ /\ r.state.commit = k.state.commit
        /\ r.state.dirty = IF k.pc = "dirty" THEN part(host).dirty ELSE k.state.dirty

\* A caller that moves on within its call keeps the rest of it.
LEMMA GotoCall ==
  ASSUME call \in [Callers -> CallRecord \cup {Idle}], NEW c \in Callers,
         call[c].pc # "idle", NEW p \in CallPCs, Goto(c, p)
  PROVE  /\ call' \in [Callers -> CallRecord \cup {Idle}]
         /\ call'[c] = [call[c] EXCEPT !.pc = p]
         /\ call'[c].pc = p /\ call'[c].tag = call[c].tag
         /\ call'[c].state = call[c].state /\ SameCall(call'[c], call[c])
         /\ call'[c].seen = call[c].seen
         /\ \A d \in Callers \ {c} : call'[d] = call[d]
<1>1. call[c] \in CallRecord
  BY DEF Idle
<1>2. [call[c] EXCEPT !.pc = p] \in CallRecord
  BY <1>1 DEF CallRecord
<1>3. call' = [call EXCEPT ![c] = [call[c] EXCEPT !.pc = p]]
  BY DEF Goto
<1> QED
  BY <1>1, <1>2, <1>3 DEF CallRecord, SameCall, SameBuild

\* A caller that returns is idle.
LEMMA ReturnCall ==
  ASSUME call \in [Callers -> CallRecord \cup {Idle}], NEW c \in Callers, Return(c)
  PROVE  /\ call' \in [Callers -> CallRecord \cup {Idle}]
         /\ call'[c] = Idle /\ call'[c].pc = "idle"
         /\ \A d \in Callers \ {c} : call'[d] = call[d]
  BY DEF Return, Idle

\* A call in progress has a record of its own.
LEMMA Busy ==
  ASSUME call \in [Callers -> CallRecord \cup {Idle}], NEW c \in Callers,
         call[c].pc # "idle"
  PROVE  call[c] \in CallRecord
  BY DEF Idle

-----------------------------------------------------------------------------
(* Type correctness.                                                        *)

\* What TypeOK says of the images, of the calls.
ImagesTyped == Present \subseteq Tags /\ images \in [Present -> Image]
CallsTyped ==
  /\ call \in [Callers -> CallRecord \cup {Idle}]
  /\ \A c \in Callers : call[c].pc = "tag" => call[c].tag # ImageTag

\* A step of a call within its call, to a place other than "tag", or to it
\* with a tag of its own.
LEMMA GotoTyped ==
  ASSUME CallsTyped, NEW c \in Callers, call[c].pc # "idle", NEW p \in CallPCs,
         p = "tag" => call[c].tag # ImageTag, Goto(c, p)
  PROVE  CallsTyped'
<1>1. /\ call' \in [Callers -> CallRecord \cup {Idle}]
      /\ call'[c].pc = p /\ call'[c].tag = call[c].tag
      /\ \A d \in Callers \ {c} : call'[d] = call[d]
  BY GotoCall DEF CallsTyped
<1> QED
  BY <1>1 DEF CallsTyped

LEMMA ReturnTyped ==
  ASSUME CallsTyped, NEW c \in Callers, Return(c)
  PROVE  CallsTyped'
  BY ReturnCall DEF CallsTyped

\* The steps that fingerprint the workspace fill in the call's fingerprint and
\* leave its tag.
LEMMA ReadStep ==
  ASSUME CallsTyped, host \in Sources, NEW c \in Callers,
         ReadStatus(c) \/ ReadDependencies(c) \/ ReadTracked(c)
  PROVE  \E r \in CallRecord : /\ call' = [call EXCEPT ![c] = r]
                               /\ r.pc \in {"deps", "tracked", "found"}
                               /\ r.tag = call[c].tag /\ ReadsOn(r, call[c])
<1> DEFINE k == call[c]
<1>1. k \in CallRecord
  BY Busy DEF CallsTyped, ReadStatus, ReadDependencies, ReadTracked
<1>2. k.state \in Keys /\ k.disturbed \in BOOLEAN
  BY <1>1 DEF CallRecord
<1>3. CASE ReadStatus(c)
  <2>1. PICK value \in {"dirty", "clean"} :
          call' = [call EXCEPT ![c].pc = "deps", ![c].state.dirty = value,
                               ![c].disturbed = @ \/ value # part(host).dirty]
    BY <1>3 DEF ReadStatus
  <2> DEFINE state == [k.state EXCEPT !.dirty = value]
             disturbed == k.disturbed \/ value # part(host).dirty
             r == [k EXCEPT !.pc = "deps", !.state = state, !.disturbed = disturbed]
  <2>2. /\ state \in Keys /\ state.commit = k.state.commit /\ state.dirty = value
        /\ disturbed \in BOOLEAN /\ (k.disturbed => disturbed)
        /\ disturbed \/ value = part(host).dirty
    BY <1>2 DEF Keys
  <2>p. k.pc = "dirty"
    BY <1>3 DEF ReadStatus
  <2>3. r \in CallRecord /\ r.pc = "deps" /\ r.tag = k.tag /\ ReadsOn(r, k)
    <3> HIDE DEF state, disturbed, k
    <3> QED
      BY <1>1, <2>2, <2>p DEF CallRecord, CallPCs, ReadsOn, SameBuild
  <2>4. call' = [call EXCEPT ![c] = r]
    BY <2>1
  <2> HIDE DEF r
  <2> QED
    BY <2>3, <2>4
<1>4. CASE ReadDependencies(c)
  <2> DEFINE p == IF k.set.strategy = "content_hash" THEN "tracked" ELSE "found"
             state == [k.state EXCEPT !.deps = dependencies_hash(host)]
             r == [k EXCEPT !.pc = p, !.state = state]
  <2>2. /\ state \in Keys /\ state.commit = k.state.commit /\ state.dirty = k.state.dirty
        /\ p \in {"tracked", "found"}
    BY <1>2 DEF Keys, dependencies_hash
  <2>p. k.pc = "deps"
    BY <1>4 DEF ReadDependencies
  <2>3. r \in CallRecord /\ r.pc = p /\ r.tag = k.tag /\ ReadsOn(r, k)
    <3> HIDE DEF state, k, p
    <3> QED
      BY <1>1, <2>2, <2>p DEF CallRecord, CallPCs, ReadsOn, SameBuild
  <2>4. call' = [call EXCEPT ![c] = r]
    BY <1>4 DEF ReadDependencies
  <2> HIDE DEF r
  <2> QED
    BY <2>2, <2>3, <2>4
<1>5. CASE ReadTracked(c)
  <2>1. PICK value \in {tracked_hash(host), failed.tracked} :
          call' = [call EXCEPT ![c].pc = "found", ![c].state.tracked = value,
                               ![c].disturbed = @ \/ value # tracked_hash(host)]
    BY <1>5 DEF ReadTracked
  <2> DEFINE state == [k.state EXCEPT !.tracked = value]
             disturbed == k.disturbed \/ value # tracked_hash(host)
             r == [k EXCEPT !.pc = "found", !.state = state, !.disturbed = disturbed]
  <2>2. /\ state \in Keys /\ state.commit = k.state.commit /\ state.dirty = k.state.dirty
        /\ disturbed \in BOOLEAN /\ (k.disturbed => disturbed)
    BY <1>2, ReadsTyped DEF Keys
  <2>p. k.pc = "tracked"
    BY <1>5 DEF ReadTracked
  <2>3. r \in CallRecord /\ r.pc = "found" /\ r.tag = k.tag /\ ReadsOn(r, k)
    <3> HIDE DEF state, disturbed, k
    <3> QED
      BY <1>1, <2>2, <2>p DEF CallRecord, CallPCs, ReadsOn, SameBuild
  <2>4. call' = [call EXCEPT ![c] = r]
    BY <2>1
  <2> HIDE DEF r
  <2> QED
    BY <2>3, <2>4
<1> QED
  BY <1>3, <1>4, <1>5

\* The steps of the validation's fingerprint leave the call's own and its tag.
LEMMA RecaptureStep ==
  ASSUME CallsTyped, host \in Sources, NEW c \in Callers,
         Recapture(c) \/ RecaptureStatus(c) \/ RecaptureDependencies(c)
  PROVE  \E r \in CallRecord : /\ call' = [call EXCEPT ![c] = r]
                               /\ r.pc \in {"seen_dirty", "seen_deps", "inspect"}
                               /\ r.tag = call[c].tag /\ r.state = call[c].state
                               /\ SameCall(r, call[c])
<1> DEFINE k == call[c]
<1>1. k \in CallRecord
  BY Busy DEF CallsTyped, Recapture, RecaptureStatus, RecaptureDependencies
<1>2. k.seen \in Keys
  BY <1>1 DEF CallRecord
<1>3. ASSUME NEW p \in {"seen_dirty", "seen_deps", "inspect"}, NEW seen \in Keys
      PROVE  LET r == [k EXCEPT !.pc = p, !.seen = seen]
             IN  /\ r \in CallRecord /\ r.pc = p /\ r.tag = k.tag /\ r.state = k.state
                 /\ SameCall(r, k)
  <2> HIDE DEF k
  <2> QED
    BY <1>1 DEF CallRecord, CallPCs, SameCall, SameBuild
<1>4. CASE Recapture(c)
  <2>1. PICK commit \in Commits \cup {NoGit} :
          call' = [call EXCEPT ![c].pc = "seen_dirty", ![c].seen.commit = commit]
    BY <1>4 DEF Recapture
  <2>2. [k.seen EXCEPT !.commit = commit] \in Keys
    BY <1>2 DEF Keys
  <2>3. call' = [call EXCEPT ![c] =
                  [k EXCEPT !.pc = "seen_dirty", !.seen = [k.seen EXCEPT !.commit = commit]]]
    BY <2>1
  <2> QED
    BY <1>3, <2>2, <2>3
<1>5. CASE RecaptureStatus(c)
  <2>1. PICK value \in {"dirty", "clean"} :
          call' = [call EXCEPT ![c].pc = "seen_deps", ![c].seen.dirty = value]
    BY <1>5 DEF RecaptureStatus
  <2>2. [k.seen EXCEPT !.dirty = value] \in Keys
    BY <1>2 DEF Keys
  <2>3. call' = [call EXCEPT ![c] =
                  [k EXCEPT !.pc = "seen_deps", !.seen = [k.seen EXCEPT !.dirty = value]]]
    BY <2>1
  <2> QED
    BY <1>3, <2>2, <2>3
<1>6. CASE RecaptureDependencies(c)
  <2>2. [k.seen EXCEPT !.deps = dependencies_hash(host)] \in Keys
    BY <1>2 DEF Keys, dependencies_hash
  <2>3. call' = [call EXCEPT ![c] =
                  [k EXCEPT !.pc = "inspect",
                            !.seen = [k.seen EXCEPT !.deps = dependencies_hash(host)]]]
    BY <1>6 DEF RecaptureDependencies
  <2> QED
    BY <1>3, <2>2, <2>3
<1> QED
  BY <1>4, <1>5, <1>6

\* A call begins with nothing but a commit read, and no tag of its own.
LEMMA BeginStep ==
  ASSUME CallsTyped, host \in Sources, NEW c \in Callers, BeginBuild(c)
  PROVE  \E r \in CallRecord : /\ call' = [call EXCEPT ![c] = r]
                               /\ r.pc = "dirty" /\ r.tag = ImageTag
                               /\ r.begun = host
                               /\ r.disturbed \/ r.state.commit = host.commit
                               /\ r.disturbed \/ Has(copy, host)
<1>1. PICK target \in Targets, set \in Settings, commit \in Commits \cup {NoGit} :
        call' = [call EXCEPT ![c] =
          [pc |-> "dirty", target |-> target, set |-> set,
           state |-> [Unread EXCEPT !.commit = commit], seen |-> Unread, tag |-> ImageTag,
           begun |-> host, disturbed |-> commit # host.commit \/ ~ Has(copy, host)]]
  BY DEF BeginBuild
<1>2. ASSUME NEW none \in Keys
      PROVE  /\ [none EXCEPT !.commit = commit] \in Keys
             /\ [none EXCEPT !.commit = commit].commit = commit
  BY DEF Keys
<1>3. /\ Unread \in Keys /\ [Unread EXCEPT !.commit = commit] \in Keys /\ ImageTag \in Tags
      /\ [Unread EXCEPT !.commit = commit].commit = commit
  BY <1>2, ReadsTyped DEF Tags
<1> DEFINE state == [Unread EXCEPT !.commit = commit]
           disturbed == commit # host.commit \/ ~ Has(copy, host)
           r == [pc |-> "dirty", target |-> target, set |-> set,
                 state |-> state, seen |-> Unread, tag |-> ImageTag,
                 begun |-> host, disturbed |-> disturbed]
<1>4. /\ state \in Keys /\ disturbed \in BOOLEAN
      /\ disturbed \/ state.commit = host.commit
      /\ disturbed \/ Has(copy, host)
  BY <1>3
<1>5. /\ r \in CallRecord /\ r.pc = "dirty" /\ r.tag = ImageTag
      /\ r.begun = host
      /\ r.disturbed \/ r.state.commit = host.commit
      /\ r.disturbed \/ Has(copy, host)
  <2> HIDE DEF state, disturbed
  <2> QED
    BY <1>3, <1>4 DEF CallRecord, CallPCs
<1>6. call' = [call EXCEPT ![c] = r]
  BY <1>1
<1> HIDE DEF r
<1> QED
  BY <1>5, <1>6

\* The tag of a call is made from its fingerprint.
LEMMA ExpectStep ==
  ASSUME CallsTyped, NEW c \in Callers, ExpectTag(c)
  PROVE  \E r \in CallRecord : /\ call' = [call EXCEPT ![c] = r]
                               /\ r.pc \in {"build", "look", "validate"}
                               /\ r.state = call[c].state /\ NamedBy(r.tag, r.state)
                               /\ r.tag = expected_cached_image_tag(r.state, r.set)
                               /\ r.pc = "look" => r.set.validation = "disabled"
                               /\ SameCall(r, call[c])
<1> DEFINE k == call[c]
           tag == expected_cached_image_tag(k.state, k.set)
<1>1. k \in CallRecord
  BY Busy DEF CallsTyped, ExpectTag
<1>2. tag \in Tags /\ NamedBy(tag, k.state)
  BY <1>1, ExpectedTag DEF CallRecord
<1>3. PICK p \in {"build", "look", "validate"} :
        /\ call' = [call EXCEPT ![c].pc = p, ![c].tag = tag]
        /\ p = "look" => k.set.validation = "disabled"
  BY DEF ExpectTag
<1> DEFINE r == [k EXCEPT !.pc = p, !.tag = tag]
<1>4. /\ r \in CallRecord /\ r.pc = p /\ r.state = k.state /\ r.tag = tag
      /\ SameCall(r, k)
  <2> HIDE DEF k, tag
  <2> QED
    BY <1>1, <1>2 DEF CallRecord, CallPCs, SameCall, SameBuild
<1>5. call' = [call EXCEPT ![c] = r]
  BY <1>3
<1>6. r.set = k.set
  BY <1>4 DEF SameCall, SameBuild
<1> HIDE DEF r
<1> QED
  BY <1>2, <1>3, <1>4, <1>5, <1>6

\* A caller that gets a record of its own keeps the calls typed, unless the
\* record is about to tag.
LEMMA RecordTyped ==
  ASSUME CallsTyped, NEW c \in Callers, NEW r \in CallRecord, r.pc # "tag",
         call' = [call EXCEPT ![c] = r]
  PROVE  CallsTyped'
  BY DEF CallsTyped

\* An edit leaves everything of a call but whether it was disturbed.
LEMMA EditedCalls ==
  ASSUME call \in [Callers -> CallRecord \cup {Idle}], Edit
  PROVE  /\ call' \in [Callers -> CallRecord \cup {Idle}]
         /\ \A c \in Callers : /\ call'[c].pc = call[c].pc
                               /\ call[c].pc # "idle" =>
                                    /\ call'[c].tag = call[c].tag
                                    /\ call'[c].state = call[c].state
                                    /\ call'[c].seen = call[c].seen
                                    /\ SameBuild(call'[c], call[c])
                                    /\ IF call[c].pc \in {"dirty", "deps", "tracked"}
                                       THEN call'[c].disturbed
                                       ELSE SameCall(call'[c], call[c])
<1>1. ASSUME NEW c \in Callers
      PROVE  /\ call'[c] \in CallRecord \cup {Idle}
             /\ call'[c].pc = call[c].pc
             /\ call[c].pc # "idle" =>
                  /\ call'[c].tag = call[c].tag
                  /\ call'[c].state = call[c].state
                  /\ call'[c].seen = call[c].seen
                  /\ SameBuild(call'[c], call[c])
                  /\ IF call[c].pc \in {"dirty", "deps", "tracked"}
                     THEN call'[c].disturbed
                     ELSE SameCall(call'[c], call[c])
  <2>1. CASE /\ call[c].pc \notin {"dirty", "deps", "tracked"}
             /\ call'[c] = call[c]
    BY <2>1 DEF SameCall, SameBuild
  <2>2. CASE /\ call[c].pc \in {"dirty", "deps", "tracked"}
             /\ call'[c] = [call[c] EXCEPT !.disturbed = TRUE]
    <3>1. call[c] \in CallRecord
      BY <2>2, Busy
    <3>2. call'[c] \in CallRecord /\ call'[c].disturbed
      BY <2>2, <3>1 DEF CallRecord
    <3> QED
      BY <2>2, <3>1, <3>2 DEF CallRecord, SameBuild
  <2> QED
    BY <2>1, <2>2 DEF Edit
<1>2. call' = [c \in Callers |-> call'[c]]
  BY DEF Edit
<1> QED
  BY <1>1, <1>2

\* A build makes an image.
LEMMA BuiltImage ==
  ASSUME TypeOK, NEW c \in Callers, call[c].pc = "build"
  PROVE  [from |-> copy, target |-> call[c].target, commit |-> call[c].state.commit,
          deps |-> call[c].state.deps, disturbed |-> call[c].disturbed] \in Image
<1>1. call[c] \in CallRecord
  BY Busy DEF TypeOK
<1>2. copy \in Trees
  BY DEF TypeOK
<1> QED
  BY <1>1, <1>2 DEF CallRecord, Keys, Image

\* No step takes a counter out of the numbers.
LEMMA BoundsTyped ==
  ASSUME TypeOK, [Next]_vars
  PROVE  builds' \in Nat /\ edits' \in Nat /\ faults' \in Nat
<1>1. builds \in Nat /\ edits \in Nat /\ faults \in Nat
  BY DEF TypeOK
<1>2. ASSUME NEW p, NEW value, Reads(p, value) PROVE faults' \in Nat
  BY <1>1, <1>2 DEF Reads
<1>3. ASSUME NEW c \in Callers, CallStep(c)
      PROVE  builds' \in Nat /\ edits' \in Nat /\ faults' \in Nat
  <2>1. CASE BeginBuild(c) \/ ReadStatus(c) \/ ReadTracked(c) \/ Recapture(c) \/ RecaptureStatus(c)
    BY <1>1, <1>2, <2>1 DEF BeginBuild, ReadStatus, ReadTracked, Recapture, RecaptureStatus
  <2>2. CASE \/ ReadDependencies(c) \/ ExpectTag(c) \/ Look(c) \/ RecaptureDependencies(c)
             \/ Inspect(c) \/ Reuse(c) \/ TagCached(c) \/ Abort(c)
    BY <1>1, <2>2 DEF ReadDependencies, ExpectTag, Look, RecaptureDependencies,
                      Inspect, Reuse, TagCached, Abort, bounds
  <2>3. CASE Build(c)
    <3>1. builds' = builds + 1 /\ UNCHANGED <<edits, faults>>
      BY <2>3 DEF Build
    <3> QED
      BY <1>1, <3>1
  <2> QED
    BY <1>3, <2>1, <2>2, <2>3 DEF CallStep
<1>4. CASE Edit
  BY <1>1, <1>4 DEF Edit
<1>5. CASE \/ UNCHANGED vars
           \/ \E c \in Callers : Sync(c)
           \/ \E t \in Present : RemoveImage(t)
  BY <1>1, <1>5 DEF vars, bounds, Sync, RemoveImage
<1> QED
  BY <1>3, <1>4, <1>5 DEF Next

\* TypeOK holds initially and no step breaks it.
LEMMA TypeStep == TypeOK /\ [Next]_vars => TypeOK'
<1> SUFFICES ASSUME TypeOK, [Next]_vars PROVE TypeOK'
  OBVIOUS
<1>t. ImagesTyped /\ CallsTyped /\ host \in Sources /\ copy \in Trees
  BY DEF TypeOK, ImagesTyped, CallsTyped
<1>k. \A c \in Callers : call[c].pc # "idle" => call[c].tag \in Tags
  BY <1>t, Busy DEF CallsTyped, CallRecord
<1>e. (/\ ImagesTyped' /\ CallsTyped'
       /\ host' \in Sources /\ copy' \in Trees) => TypeOK'
  BY BoundsTyped DEF TypeOK, ImagesTyped, CallsTyped
<1>i. UNCHANGED images => ImagesTyped'
  BY <1>t DEF ImagesTyped, Present
<1>c. UNCHANGED call => CallsTyped'
  BY <1>t DEF CallsTyped
<1>1. ASSUME NEW c \in Callers, BeginBuild(c) PROVE CallsTyped'
  BY <1>t, <1>1, BeginStep, RecordTyped
<1>2. ASSUME NEW c \in Callers, Look(c) PROVE CallsTyped'
  BY <1>t, <1>2, GotoTyped DEF Look, CallPCs
<1>3. ASSUME NEW c \in Callers,
             ReadStatus(c) \/ ReadDependencies(c) \/ ReadTracked(c) \/ ExpectTag(c)
      PROVE  CallsTyped'
  <2>1. CASE ExpectTag(c)
    BY <1>t, <2>1, ExpectStep, RecordTyped
  <2>2. CASE ReadStatus(c) \/ ReadDependencies(c) \/ ReadTracked(c)
    BY <1>t, <2>2, ReadStep, RecordTyped
  <2> QED
    BY <1>3, <2>1, <2>2
<1>8. ASSUME NEW c \in Callers,
             Recapture(c) \/ RecaptureStatus(c) \/ RecaptureDependencies(c)
      PROVE  CallsTyped'
  BY <1>t, <1>8, RecaptureStep, RecordTyped
<1>4. ASSUME NEW c \in Callers, Inspect(c) PROVE CallsTyped'
  BY <1>t, <1>4, GotoTyped, ReturnTyped DEF Inspect, CallPCs
<1>5. ASSUME NEW c \in Callers, Reuse(c) PROVE CallsTyped' /\ ImagesTyped'
  <2>1. CallsTyped'
    BY <1>t, <1>5, ReturnTyped DEF Reuse
  <2>2. UNCHANGED images \/ Renamed(c)
    BY <1>5 DEF Reuse, Renamed
  <2> QED
    BY <1>t, <1>i, <2>1, <2>2, RenamedImages DEF ImagesTyped
<1>6. ASSUME NEW c \in Callers, Build(c) PROVE CallsTyped' /\ ImagesTyped'
  <2>1. CallsTyped'
    BY <1>t, <1>6, GotoTyped, ReturnTyped DEF Build, CallPCs
  <2>2. ImageTag \in Tags
    BY DEF Tags
  <2> QED
    BY <1>t, <1>6, <2>1, <2>2, BuiltImage, NamedImages DEF Build, ImagesTyped
<1>7. ASSUME NEW c \in Callers, TagCached(c) PROVE CallsTyped' /\ ImagesTyped'
  <2>1. images[ImageTag] \in Image /\ call[c].tag \in Tags
    BY <1>t, <1>k, <1>7 DEF TagCached, ImagesTyped
  <2> QED
    BY <1>t, <1>7, <2>1, NamedImages, ReturnTyped DEF TagCached, ImagesTyped
<1>9. ASSUME NEW t \in Present, RemoveImage(t) PROVE ImagesTyped'
  BY <1>t, <1>9 DEF ImagesTyped, Present, RemoveImage
<1>10. CASE Edit
  <2>1. CallsTyped'
    <3>1. \A c \in Callers : call[c].pc = "tag" => call[c].pc # "idle"
      OBVIOUS
    <3> QED
      BY <1>t, <1>10, <3>1, EditedCalls DEF CallsTyped
  <2> QED
    BY <1>t, <1>e, <1>i, <1>10, <2>1 DEF Edit
<1>11. CASE UNCHANGED vars
  BY <1>t, <1>e, <1>i, <1>c, <1>11 DEF vars
<1>12. CASE \E t \in Present : RemoveImage(t)
  BY <1>t, <1>e, <1>c, <1>9, <1>12 DEF RemoveImage
<1>13. ASSUME NEW c \in Callers, CallStep(c) PROVE TypeOK'
  <2>1. CASE BeginBuild(c) \/ Look(c) \/ Inspect(c)
    BY <1>t, <1>e, <1>i, <1>1, <1>2, <1>4, <2>1 DEF BeginBuild, Look, Inspect
  <2>2. CASE Reuse(c) \/ TagCached(c)
    BY <1>t, <1>e, <1>5, <1>7, <2>2 DEF Reuse, TagCached
  <2>3. CASE Build(c)
    <3>1. UNCHANGED <<host, copy>>
      BY <2>3 DEF Build
    <3> QED
      BY <1>t, <1>e, <1>6, <2>3, <3>1
  <2>4. CASE Abort(c)
    BY <1>t, <1>e, <1>i, <2>4, ReturnTyped DEF Abort
  <2>5. CASE ReadStatus(c) \/ ReadDependencies(c) \/ ReadTracked(c) \/ ExpectTag(c)
    <3>1. UNCHANGED <<host, copy, images>>
      BY <2>5 DEF ReadStatus, ReadDependencies, ReadTracked, ExpectTag
    <3> QED
      BY <1>t, <1>e, <1>i, <1>3, <2>5, <3>1
  <2>6. CASE Recapture(c) \/ RecaptureStatus(c) \/ RecaptureDependencies(c)
    <3>1. UNCHANGED <<host, copy, images>>
      BY <2>6 DEF Recapture, RecaptureStatus, RecaptureDependencies
    <3> QED
      BY <1>t, <1>e, <1>i, <1>8, <2>6, <3>1
  <2> QED
    BY <1>13, <2>1, <2>2, <2>3, <2>4, <2>5, <2>6 DEF CallStep
<1>14. ASSUME NEW c \in Callers, Sync(c) PROVE TypeOK'
  BY <1>t, <1>e, <1>i, <1>c, <1>14, TreesTyped DEF Sync
<1> QED
  BY <1>10, <1>11, <1>12, <1>13, <1>14 DEF Next

LEMMA TypeInit == Init => TypeOK
<1> SUFFICES ASSUME Init PROVE TypeOK
  OBVIOUS
<1>1. host \in Sources /\ copy \in Trees
  BY CacheAssumption DEF Init, Sources, Trees, Nothing
<1>2. Present \subseteq Tags /\ images \in [Present -> Image]
  BY DEF Init, Present
<1>3. /\ call \in [Callers -> CallRecord \cup {Idle}]
      /\ \A c \in Callers : call[c].pc # "tag"
  BY DEF Init, Idle
<1>4. builds \in Nat /\ edits \in Nat /\ faults \in Nat
  BY DEF Init
<1> QED
  BY <1>1, <1>2, <1>3, <1>4 DEF TypeOK

\* Every variable keeps its type.
THEOREM TypeCorrect == Spec => []TypeOK
  BY TypeInit, TypeStep, PTL DEF Spec

-----------------------------------------------------------------------------
(* One transport: a tag tells the labels of its image.  The invariant adds  *)
(* what a call in progress knows: its tag was made from the fingerprint it  *)
(* carries, and the image it is about to tag carries the labels of it.      *)

Labelled(image, state) == image.commit = state.commit /\ image.deps = state.deps

Fingerprinting == {"dirty", "deps", "tracked", "found"}

CallInv ==
  \A c \in Callers : call[c].pc # "idle" =>
    /\ NamedBy(call[c].tag, call[c].state)
    /\ call[c].pc \in Fingerprinting => call[c].tag = ImageTag
    /\ call[c].pc = "tag" /\ ImageTag \in Present =>
         Labelled(images[ImageTag], call[c].state)

CacheInv == TypeOK /\ TagNamesState /\ CallInv

OneTransport == \A c, d \in Callers : c = d

\* With one transport no step breaks the invariant.
LEMMA CacheStep ==
  ASSUME OneTransport, CacheInv, [Next]_vars
  PROVE  TagNamesState' /\ CallInv'
<1>t. /\ Present \subseteq Tags /\ images \in [Present -> Image]
      /\ call \in [Callers -> CallRecord \cup {Idle}]
      /\ host \in Sources
  BY DEF CacheInv, TypeOK
<1>y. CallsTyped /\ host \in Sources
  BY DEF CacheInv, TypeOK, CallsTyped
<1>i. TagNamesState /\ CallInv
  BY DEF CacheInv
\* The images are as they were and the callers idle or as they were.
<1>1. ASSUME UNCHANGED images,
             \A c \in Callers : call'[c] = call[c] \/ call'[c] = Idle
      PROVE  TagNamesState' /\ CallInv'
  BY <1>i, <1>1 DEF TagNamesState, CallInv, Present, Idle
\* A caller has gone on within its call, and not to tag.
<1>2. ASSUME UNCHANGED images, NEW c \in Callers, call[c].pc # "idle",
             call'[c].pc \notin Fingerprinting \cup {"tag"},
             call'[c].tag = call[c].tag, call'[c].state = call[c].state,
             \A d \in Callers \ {c} : call'[d] = call[d]
      PROVE  TagNamesState' /\ CallInv'
  BY <1>i, <1>2 DEF TagNamesState, CallInv, Present
\* The one caller there is has returned.
<1>3. ASSUME NEW c \in Callers, Return(c) PROVE CallInv'
  BY <1>t, <1>3, ReturnCall DEF CallInv, OneTransport
\* The one caller there is has a fingerprint, and no tag but the name asked
\* for or one made from it.
<1>f. ASSUME UNCHANGED images, NEW c \in Callers, NEW r \in CallRecord,
             call' = [call EXCEPT ![c] = r], r.pc # "tag",
             r.pc \in Fingerprinting => r.tag = ImageTag, NamedBy(r.tag, r.state)
      PROVE  TagNamesState' /\ CallInv'
  <2>1. call'[c] = r /\ \A d \in Callers : d = c
    BY <1>t, <1>f DEF OneTransport
  <2> QED
    BY <1>i, <1>f, <2>1 DEF CallInv, TagNamesState, Present
<1>4. ASSUME NEW c \in Callers, BeginBuild(c) PROVE TagNamesState' /\ CallInv'
  <2>1. UNCHANGED images
    BY <1>4 DEF BeginBuild
  <2> QED
    BY <1>y, <1>4, <1>f, <2>1, BeginStep DEF NamedBy
<1>15. ASSUME NEW c \in Callers, ReadStatus(c) \/ ReadDependencies(c) \/ ReadTracked(c)
       PROVE  TagNamesState' /\ CallInv'
  <2>1. UNCHANGED images /\ call[c].pc \in Fingerprinting
    BY <1>15 DEF ReadStatus, ReadDependencies, ReadTracked, Fingerprinting
  <2>2. call[c].tag = ImageTag
    BY <1>i, <2>1 DEF CallInv, Fingerprinting
  <2>3. PICK r \in CallRecord : /\ call' = [call EXCEPT ![c] = r]
                                /\ r.pc \in {"deps", "tracked", "found"}
                                /\ r.tag = call[c].tag
    BY <1>y, <1>15, ReadStep
  <2> QED
    BY <1>f, <2>1, <2>2, <2>3 DEF NamedBy
<1>16. ASSUME NEW c \in Callers, ExpectTag(c) PROVE TagNamesState' /\ CallInv'
  <2>1. UNCHANGED images
    BY <1>16 DEF ExpectTag
  <2> QED
    BY <1>y, <1>16, <1>f, <2>1, ExpectStep DEF Fingerprinting
<1>5. ASSUME NEW c \in Callers, Look(c) PROVE TagNamesState' /\ CallInv'
  <2>1. PICK p \in {"reuse", "build"} : Goto(c, p)
    BY <1>5 DEF Look
  <2> QED
    BY <1>t, <1>2, <1>5, <2>1, GotoCall DEF Look, CallPCs, Fingerprinting
<1>6. ASSUME NEW c \in Callers,
             Recapture(c) \/ RecaptureStatus(c) \/ RecaptureDependencies(c)
      PROVE  TagNamesState' /\ CallInv'
  <2>1. UNCHANGED images /\ call[c].pc # "idle"
    BY <1>6 DEF Recapture, RecaptureStatus, RecaptureDependencies
  <2>2. PICK r \in CallRecord : /\ call' = [call EXCEPT ![c] = r]
                                /\ r.pc \in {"seen_dirty", "seen_deps", "inspect"}
                                /\ r.tag = call[c].tag /\ r.state = call[c].state
    BY <1>y, <1>6, RecaptureStep
  <2>3. NamedBy(call[c].tag, call[c].state)
    BY <1>i, <2>1 DEF CallInv
  <2> QED
    BY <1>f, <2>1, <2>2, <2>3 DEF Fingerprinting
<1>7. ASSUME NEW c \in Callers, Inspect(c) PROVE TagNamesState' /\ CallInv'
  <2>1. CASE Return(c)
    BY <1>t, <1>1, <1>7, <2>1, ReturnCall DEF Inspect
  <2>2. ASSUME NEW p \in {"reuse", "build"}, Goto(c, p)
        PROVE  TagNamesState' /\ CallInv'
    BY <1>t, <1>2, <1>7, <2>2, GotoCall DEF Inspect, CallPCs, Fingerprinting
  <2> QED
    BY <1>7, <2>1, <2>2 DEF Inspect
<1>8. ASSUME NEW c \in Callers, Reuse(c) PROVE TagNamesState' /\ CallInv'
  <2>1. UNCHANGED images \/ Renamed(c)
    BY <1>8 DEF Reuse, Renamed
  <2>2. TagNamesState'
    BY <1>t, <1>i, <2>1, RenamedImages DEF TagNamesState, Present
  <2> QED
    BY <1>3, <1>8, <2>2 DEF Reuse
<1>9. ASSUME NEW c \in Callers, Build(c) PROVE TagNamesState' /\ CallInv'
  <2> DEFINE image == [from |-> copy, target |-> call[c].target,
                       commit |-> call[c].state.commit,
                       deps |-> call[c].state.deps, disturbed |-> call[c].disturbed]
  <2>1. image \in Image /\ ImageTag \in Tags
    BY <1>9, BuiltImage DEF Build, CacheInv, Tags
  <2>2. images' = Named(ImageTag, image)
    BY <1>9 DEF Build
  <2>3. /\ Present' = Present \cup {ImageTag} /\ images'[ImageTag] = image
        /\ \A u \in Present \ {ImageTag} : images'[u] = images[u]
    <3> HIDE DEF image
    <3> QED
      BY <1>t, <2>1, <2>2, NamedImages
  <2>4. TagNamesState'
    BY <1>i, <2>3 DEF TagNamesState
  <2>5. CASE Goto(c, "tag")
    <3>1. /\ call'[c].tag = call[c].tag /\ call'[c].state = call[c].state
          /\ call'[c].pc = "tag"
      BY <1>t, <1>9, <2>5, GotoCall DEF Build, CallPCs
    <3>2. NamedBy(call[c].tag, call[c].state)
      BY <1>i, <1>9 DEF CallInv, Build
    <3>3. Labelled(images'[ImageTag], call[c].state)
      BY <2>3 DEF Labelled
    <3> QED
      BY <2>4, <3>1, <3>2, <3>3 DEF CallInv, OneTransport, Fingerprinting
  <2> QED
    BY <1>3, <1>9, <2>4, <2>5 DEF Build
<1>10. ASSUME NEW c \in Callers, TagCached(c) PROVE TagNamesState' /\ CallInv'
  <2>1. call[c].tag \in Tags /\ images[ImageTag] \in Image
    BY <1>t, <1>10, Busy DEF TagCached, CallRecord
  <2>2. /\ NamedBy(call[c].tag, call[c].state)
        /\ Labelled(images[ImageTag], call[c].state)
    BY <1>i, <1>10 DEF CallInv, TagCached
  <2>3. /\ Present' = Present \cup {call[c].tag}
        /\ images'[call[c].tag] = images[ImageTag]
        /\ \A u \in Present \ {call[c].tag} : images'[u] = images[u]
    BY <1>t, <1>10, <2>1, NamedImages DEF TagCached
  <2> QED
    BY <1>i, <1>3, <1>10, <2>2, <2>3 DEF TagCached, TagNamesState, NamedBy, Labelled
<1>11. ASSUME NEW c \in Callers, Abort(c) \/ Sync(c) PROVE TagNamesState' /\ CallInv'
  BY <1>t, <1>1, <1>11, ReturnCall DEF Abort, Sync
<1>13. ASSUME NEW t \in Present, RemoveImage(t) PROVE TagNamesState' /\ CallInv'
  <2>1. Present' = Present \ {t} /\ \A u \in Present' : images'[u] = images[u]
    BY <1>13 DEF RemoveImage, Present
  <2> QED
    BY <1>i, <1>13, <2>1 DEF TagNamesState, CallInv, RemoveImage
<1>14. CASE Edit
  <2>1. /\ UNCHANGED images
        /\ \A c \in Callers : /\ call'[c].pc = call[c].pc
                              /\ call[c].pc # "idle" =>
                                   /\ call'[c].tag = call[c].tag
                                   /\ call'[c].state = call[c].state
    BY <1>t, <1>14, EditedCalls DEF Edit
  <2> QED
    BY <1>i, <2>1 DEF TagNamesState, CallInv, Present
<1>17. CASE UNCHANGED vars
  BY <1>1, <1>17 DEF vars
<1> QED
  BY <1>4, <1>5, <1>6, <1>7, <1>8, <1>9, <1>10, <1>11, <1>13, <1>14, <1>15, <1>16, <1>17
  DEF Next, CallStep

\* With one transport, whatever is edited, removed or cut off between the
\* steps of a build, a fingerprint tag names an image with its labels.
THEOREM TagsTellLabels ==
  ASSUME OneTransport
  PROVE  Spec => []TagNamesState
<1>1. Init => CacheInv
  BY TypeInit DEF Init, CacheInv, TagNamesState, CallInv, Present, Idle
<1>2. CacheInv /\ [Next]_vars => CacheInv'
  BY TypeStep, CacheStep DEF CacheInv
<1>3. CacheInv => TagNamesState
  BY DEF CacheInv
<1> QED
  BY <1>1, <1>2, <1>3, PTL DEF Spec

-----------------------------------------------------------------------------
(* One transport: what is reused has the labels the validation saw.  Between*)
(* the inspection of an image and its reuse, the image can only go.         *)

Agrees(image, seen, set) ==
  /\ set.git_commit /\ seen.commit # NoGit => image.commit = seen.commit
  /\ set.dependencies /\ seen.deps # "none" => image.deps = seen.deps
  /\ ~ dirty(seen, set)

SeenInv ==
  \A c \in Callers :
    /\ call[c].pc = "look" => call[c].set.validation = "disabled"
    /\ call[c].pc = "reuse" /\ call[c].set.validation # "disabled"
         /\ call[c].tag \in Present =>
              Agrees(images[call[c].tag], call[c].seen, call[c].set)

\* No step breaks it.
LEMMA SeenStep ==
  ASSUME OneTransport, TypeOK, SeenInv, [Next]_vars
  PROVE  SeenInv'
<1>t. /\ call \in [Callers -> CallRecord \cup {Idle}] /\ CallsTyped
      /\ host \in Sources
  BY DEF TypeOK, CallsTyped
\* The one caller there is comes to neither place.
<1>1. ASSUME NEW c \in Callers, call'[c].pc \notin {"look", "reuse"}
      PROVE  SeenInv'
  BY <1>1 DEF SeenInv, OneTransport
<1>r. ASSUME NEW c \in Callers, NEW r, call' = [call EXCEPT ![c] = r]
      PROVE  call'[c] = r
  BY <1>t, <1>r
<1>2. ASSUME NEW c \in Callers, Return(c) PROVE SeenInv'
  BY <1>t, <1>1, <1>2, ReturnCall
\* The one caller there is stays where it is, and no image is replaced.
<1>3. ASSUME \A c \in Callers : call'[c] = call[c],
             Present' \subseteq Present /\ \A t \in Present' : images'[t] = images[t]
      PROVE  SeenInv'
  BY <1>3 DEF SeenInv
<1>4. ASSUME NEW c \in Callers, BeginBuild(c) PROVE SeenInv'
  BY <1>t, <1>1, <1>r, <1>4, BeginStep
<1>5. ASSUME NEW c \in Callers, ReadStatus(c) \/ ReadDependencies(c) \/ ReadTracked(c)
      PROVE  SeenInv'
  BY <1>t, <1>1, <1>r, <1>5, ReadStep
<1>6. ASSUME NEW c \in Callers, ExpectTag(c) PROVE SeenInv'
  <2>1. PICK r \in CallRecord : /\ call' = [call EXCEPT ![c] = r]
                                /\ r.pc \in {"build", "look", "validate"}
                                /\ r.pc = "look" => r.set.validation = "disabled"
    BY <1>t, <1>6, ExpectStep
  <2>2. call'[c] = r /\ \A d \in Callers : d = c
    BY <1>r, <2>1 DEF OneTransport
  <2> QED
    BY <2>1, <2>2 DEF SeenInv
<1>7. ASSUME NEW c \in Callers, Look(c) PROVE SeenInv'
  <2>1. PICK p \in {"reuse", "build"} : Goto(c, p)
    BY <1>7 DEF Look
  <2>2. call'[c].pc = p /\ SameCall(call'[c], call[c])
    BY <1>t, <1>7, <2>1, GotoCall DEF Look, CallPCs
  <2>3. call'[c].set.validation = "disabled"
    BY <1>7, <2>2 DEF Look, SeenInv, SameCall, SameBuild
  <2> QED
    BY <2>1, <2>2, <2>3 DEF SeenInv, OneTransport
<1>8. ASSUME NEW c \in Callers,
             Recapture(c) \/ RecaptureStatus(c) \/ RecaptureDependencies(c)
      PROVE  SeenInv'
  BY <1>t, <1>1, <1>r, <1>8, RecaptureStep
<1>9. ASSUME NEW c \in Callers, Inspect(c) PROVE SeenInv'
  <2> DEFINE k == call[c]
  <2>1. CASE Return(c)
    BY <1>2, <2>1
  <2>2. CASE Goto(c, "build")
    BY <1>t, <1>1, <1>9, <2>2, GotoCall DEF Inspect, CallPCs
  <2>3. ASSUME NEW old \in BOOLEAN, valid(k.tag, k.seen, k.set, old), Goto(c, "reuse")
        PROVE  SeenInv'
    <3>1. Agrees(images[k.tag], k.seen, k.set)
      BY <2>3 DEF valid, stale, Agrees
    <3>2. /\ call'[c].pc = "reuse" /\ call'[c].tag = k.tag /\ call'[c].seen = k.seen
          /\ call'[c].set = k.set
      BY <1>t, <1>9, <2>3, GotoCall DEF Inspect, CallPCs, SameCall, SameBuild
    <3>3. images' = images /\ \A d \in Callers : d = c
      BY <1>9 DEF Inspect, OneTransport
    <3> QED
      BY <3>1, <3>2, <3>3 DEF SeenInv
  <2> QED
    BY <1>9, <2>1, <2>2, <2>3 DEF Inspect
<1>10. ASSUME NEW c \in Callers, Reuse(c) \/ TagCached(c) \/ Abort(c) PROVE SeenInv'
  BY <1>2, <1>10 DEF Reuse, TagCached, Abort
<1>11. ASSUME NEW c \in Callers, Build(c) PROVE SeenInv'
  <2>1. CASE Goto(c, "tag")
    BY <1>t, <1>1, <1>11, <2>1, GotoCall DEF Build, CallPCs
  <2> QED
    BY <1>2, <1>11, <2>1 DEF Build
<1>12. ASSUME NEW c \in Callers, Sync(c) PROVE SeenInv'
  BY <1>3, <1>12 DEF Sync, Present
<1>13. ASSUME NEW t \in Present, RemoveImage(t) PROVE SeenInv'
  BY <1>3, <1>13 DEF RemoveImage, Present
<1>14. CASE Edit
  <2>1. images' = images
    BY <1>14 DEF Edit
  <2>2. \A c \in Callers :
          /\ call'[c].pc = call[c].pc
          /\ call[c].pc # "idle" => /\ call'[c].tag = call[c].tag
                                    /\ call'[c].seen = call[c].seen
                                    /\ call'[c].set = call[c].set
    BY <1>t, <1>14, EditedCalls DEF SameBuild
  <2> QED
    BY <2>1, <2>2 DEF SeenInv, Present
<1>15. CASE UNCHANGED vars
  BY <1>3, <1>15 DEF vars, Present
<1> QED
  BY <1>4, <1>5, <1>6, <1>7, <1>8, <1>9, <1>10, <1>11, <1>12, <1>13, <1>14, <1>15
  DEF Next, CallStep

\* With one transport, the image that is reused carries the labels that the
\* settings have checked, as the validation found the workspace: the commit
\* where git told one, the dependencies where there are any.
THEOREM HitsMatchLabels ==
  ASSUME OneTransport
  PROVE  Spec => HitMatchesLabels
<1> DEFINE Step == \A c \in Callers :
             LET image == images[call[c].tag] IN
             Reuse(c) /\ call[c].tag \in Present /\ call[c].set.validation # "disabled" =>
               /\ call[c].set.git_commit /\ call[c].seen.commit # NoGit =>
                    image.commit = call[c].seen.commit
               /\ call[c].set.dependencies /\ call[c].seen.deps # "none" =>
                    image.deps = call[c].seen.deps
               /\ ~ dirty(call[c].seen, call[c].set)
<1>1. Init => SeenInv
  BY DEF Init, SeenInv, Idle
<1>2. TypeOK /\ SeenInv /\ [Next]_vars => SeenInv'
  BY SeenStep
<1>3. SeenInv => Step
  BY DEF SeenInv, Reuse, Agrees
<1>4. [][Step]_vars => HitMatchesLabels
  BY PTL DEF HitMatchesLabels
<1> QED
  BY <1>1, <1>2, <1>3, <1>4, TypeInit, TypeStep, PTL DEF Spec

-----------------------------------------------------------------------------
(* One transport: what is reused is current.  Unless a call is disturbed,   *)
(* the guest's copy has the tracked files of the workspace the call began   *)
(* with, and its fingerprint is of that workspace; and a fingerprint tag    *)
(* names an image of such files unless the build was disturbed.             *)

CallFresh(k) ==
  /\ k.disturbed \/ Has(copy, k.begun)
  /\ k.pc \notin Fingerprinting => k.tag = expected_cached_image_tag(k.state, k.set)
  /\ k.pc = "dirty" => k.disturbed \/ host = k.begun
  /\ k.disturbed \/ k.state.commit = k.begun.commit
  /\ k.pc # "dirty" => k.disturbed \/ k.state.dirty = part(k.begun).dirty
  /\ k.pc = "tag" /\ ImageTag \in Present =>
       IF k.disturbed THEN images[ImageTag].disturbed
                      ELSE Has(images[ImageTag].from, k.begun)

CallsFresh == \A c \in Callers : call[c].pc # "idle" => CallFresh(call[c])

TagTellsSources(t, image) ==
  \/ image.disturbed
  \/ \E s \in Sources : /\ Has(image.from, s)
                        /\ t.commit # "-" => t.commit = s.commit
                        /\ t.dirty # "-" => t.dirty = part(s).dirty

ImagesFresh == \A t \in Present \ {ImageTag} : TagTellsSources(t, images[t])

\* What a tag says of the workspace is what the fingerprint says.
LEMMA ExpectedParts ==
  ASSUME NEW state \in Keys, NEW set \in Settings,
         NEW t, t = expected_cached_image_tag(state, set), t # ImageTag
  PROVE  t.commit \in {state.commit, "-"} /\ t.dirty \in {state.dirty, "-"}
<1>1. t = Masked(state, tag_parts(set))
  BY DEF expected_cached_image_tag
<1> QED
  BY <1>1 DEF Masked, Parts, Unread

\* The tag of a call under the settings that tell the tracked files is its
\* whole fingerprint.
LEMMA FullTag ==
  ASSUME NEW state \in Keys, NEW set, Fingerprinted(set), ImageTag \notin Keys
  PROVE  LET t == expected_cached_image_tag(state, set)
         IN  t # ImageTag /\ t.commit = state.commit /\ t.dirty = state.dirty
<1>1. tag_parts(set) = Parts
  BY DEF tag_parts, content_hash, Fingerprinted
<1>2. Masked(state, Parts) = state
  BY DEF Masked, Keys, Parts
<1> QED
  BY <1>1, <1>2 DEF expected_cached_image_tag, Fingerprinted

\* Workspaces at the same commit without uncommitted changes have the same
\* tracked files.
LEMMA CleanAlike ==
  ASSUME NEW s \in Sources, NEW u \in Sources, s.commit = u.commit,
         ~ git_dirty(s), ~ git_dirty(u), NEW tree, Has(tree, s)
  PROVE  Has(tree, u)
  BY DEF git_dirty, Has, Contents, dependencies_hash

\* Going on within a call, with the fingerprint complete, keeps it fresh.
LEMMA GoesOnFresh ==
  ASSUME NEW k, NEW r, CallFresh(k), SameCall(r, k), UNCHANGED copy,
         r.state = k.state, r.pc \notin Fingerprinting \cup {"tag"}, k.pc # "dirty",
         r.tag = expected_cached_image_tag(r.state, r.set)
  PROVE  CallFresh(r)'
  BY DEF CallFresh, SameCall, SameBuild, Fingerprinting

\* No step breaks it.
LEMMA FreshStep ==
  ASSUME OneTransport, TypeOK, CallsFresh, ImagesFresh, [Next]_vars
  PROVE  CallsFresh' /\ ImagesFresh'
<1>t. /\ call \in [Callers -> CallRecord \cup {Idle}] /\ CallsTyped
      /\ Present \subseteq Tags /\ images \in [Present -> Image]
      /\ host \in Sources
  BY DEF TypeOK, CallsTyped
<1>o. \A c, d \in Callers : c = d
  BY DEF OneTransport
\* The one caller there is has returned.
<1>1. ASSUME NEW c \in Callers, call'[c].pc = "idle" PROVE CallsFresh'
  BY <1>o, <1>1 DEF CallsFresh
<1>2. ASSUME NEW c \in Callers, Return(c) PROVE CallsFresh'
  BY <1>t, <1>1, <1>2, ReturnCall
\* The one caller there is has a fresh call.
<1>3. ASSUME NEW c \in Callers, CallFresh(call[c])' PROVE CallsFresh'
  BY <1>o, <1>3 DEF CallsFresh
<1>i. UNCHANGED images => ImagesFresh'
  BY DEF ImagesFresh, Present
<1>c. ASSUME NEW c \in Callers, call[c].pc # "idle"
      PROVE  CallFresh(call[c]) /\ call[c] \in CallRecord
  BY <1>t, <1>c, Busy DEF CallsFresh
<1>r. ASSUME NEW c \in Callers, NEW r, call' = [call EXCEPT ![c] = r]
      PROVE  call'[c] = r
  BY <1>t, <1>r
<1>s. ASSUME NEW c \in Callers, NEW r \in CallRecord, call' = [call EXCEPT ![c] = r],
             CallFresh(r)'
      PROVE  CallsFresh'
  <2>1. CallFresh(call[c])'
    BY <1>r, <1>s DEF CallFresh
  <2> QED
    BY <1>3, <2>1
<1>4. ASSUME NEW c \in Callers, BeginBuild(c) PROVE CallsFresh' /\ ImagesFresh'
  <2>1. PICK r \in CallRecord : /\ call' = [call EXCEPT ![c] = r]
                                /\ r.pc = "dirty" /\ r.begun = host
                                /\ r.disturbed \/ r.state.commit = host.commit
                                /\ r.disturbed \/ Has(copy, host)
    BY <1>t, <1>4, BeginStep
  <2>2. host' = host /\ copy' = copy /\ images' = images
    BY <1>4 DEF BeginBuild
  <2>3. CallFresh(r)'
    BY <2>1, <2>2 DEF CallFresh, Fingerprinting
  <2> QED
    BY <1>i, <1>s, <2>1, <2>2, <2>3
<1>5. ASSUME NEW c \in Callers, ReadStatus(c) \/ ReadDependencies(c) \/ ReadTracked(c)
      PROVE  CallsFresh' /\ ImagesFresh'
  <2> DEFINE k == call[c]
  <2>1. PICK r \in CallRecord : /\ call' = [call EXCEPT ![c] = r]
                                /\ r.pc \in {"deps", "tracked", "found"}
                                /\ r.tag = k.tag /\ ReadsOn(r, k)
    BY <1>t, <1>5, ReadStep
  <2>2. copy' = copy /\ images' = images /\ k.pc \in Fingerprinting /\ k.pc # "idle"
    BY <1>5 DEF ReadStatus, ReadDependencies, ReadTracked, Fingerprinting
  <2>3. CallFresh(k)
    BY <1>c, <2>2
  <2>4. CallFresh(r)'
    BY <2>1, <2>2, <2>3 DEF CallFresh, ReadsOn, SameBuild, Fingerprinting
  <2> QED
    BY <1>i, <1>s, <2>1, <2>2, <2>4
<1>6. ASSUME NEW c \in Callers, ExpectTag(c) PROVE CallsFresh' /\ ImagesFresh'
  <2> DEFINE k == call[c]
  <2>1. PICK r \in CallRecord :
          /\ call' = [call EXCEPT ![c] = r]
          /\ r.pc \in {"build", "look", "validate"} /\ r.state = k.state
          /\ r.tag = expected_cached_image_tag(r.state, r.set) /\ SameCall(r, k)
    BY <1>t, <1>6, ExpectStep
  <2>2. copy' = copy /\ images' = images /\ k.pc = "found"
    BY <1>6 DEF ExpectTag
  <2>3. CallFresh(k)
    BY <1>c, <2>2
  <2>4. CallFresh(r)'
    BY <2>1, <2>2, <2>3, GoesOnFresh DEF Fingerprinting
  <2> QED
    BY <1>i, <1>s, <2>1, <2>2, <2>4
\* A call goes on to a place other than the tagging.
<1>g. ASSUME NEW c \in Callers, NEW p \in {"reuse", "build"}, Goto(c, p),
             call[c].pc \in {"look", "inspect"}, UNCHANGED <<copy, images>>
      PROVE  CallsFresh' /\ ImagesFresh'
  <2>1. /\ call'[c].pc = p /\ call'[c].tag = call[c].tag
        /\ call'[c].state = call[c].state /\ SameCall(call'[c], call[c])
    BY <1>t, <1>g, GotoCall DEF CallPCs
  <2>2. CallFresh(call[c])
    BY <1>c, <1>g
  <2>3. CallFresh(call[c])'
    BY <1>g, <2>1, <2>2 DEF CallFresh, SameCall, SameBuild, Fingerprinting
  <2> QED
    BY <1>3, <1>g, <1>i, <2>3
<1>7. ASSUME NEW c \in Callers, Look(c) PROVE CallsFresh' /\ ImagesFresh'
  BY <1>7, <1>g DEF Look
<1>8. ASSUME NEW c \in Callers,
             Recapture(c) \/ RecaptureStatus(c) \/ RecaptureDependencies(c)
      PROVE  CallsFresh' /\ ImagesFresh'
  <2> DEFINE k == call[c]
  <2>1. PICK r \in CallRecord : /\ call' = [call EXCEPT ![c] = r]
                                /\ r.pc \in {"seen_dirty", "seen_deps", "inspect"}
                                /\ r.tag = k.tag /\ r.state = k.state /\ SameCall(r, k)
    BY <1>t, <1>8, RecaptureStep
  <2>2. /\ copy' = copy /\ images' = images
        /\ k.pc \in {"validate", "seen_dirty", "seen_deps"}
    BY <1>8 DEF Recapture, RecaptureStatus, RecaptureDependencies
  <2>3. CallFresh(k)
    BY <1>c, <2>2
  <2>4. r.tag = expected_cached_image_tag(r.state, r.set)
    BY <2>1, <2>2, <2>3 DEF CallFresh, Fingerprinting, SameCall, SameBuild
  <2>5. CallFresh(r)'
    BY <2>1, <2>2, <2>3, <2>4, GoesOnFresh DEF Fingerprinting
  <2> QED
    BY <1>i, <1>s, <2>1, <2>2, <2>5
<1>9. ASSUME NEW c \in Callers, Inspect(c) PROVE CallsFresh' /\ ImagesFresh'
  BY <1>2, <1>9, <1>g, <1>i DEF Inspect
<1>10. ASSUME NEW c \in Callers, Reuse(c) PROVE CallsFresh' /\ ImagesFresh'
  <2>1. UNCHANGED images \/ Renamed(c)
    BY <1>10 DEF Reuse, Renamed
  <2>2. CASE Renamed(c)
    <3>1. /\ Present' = Present \cup {ImageTag}
          /\ \A u \in Present \ {ImageTag} : images'[u] = images[u]
      BY <1>t, <2>2, RenamedImages
    <3> QED
      BY <1>2, <1>10, <3>1 DEF Reuse, ImagesFresh
  <2> QED
    BY <1>2, <1>i, <1>10, <2>1, <2>2 DEF Reuse
<1>11. ASSUME NEW c \in Callers, Build(c) PROVE CallsFresh' /\ ImagesFresh'
  <2> DEFINE k == call[c]
             image == [from |-> copy, target |-> k.target, commit |-> k.state.commit,
                       deps |-> k.state.deps, disturbed |-> k.disturbed]
  <2>1. image \in Image /\ ImageTag \in Tags
    BY <1>11, BuiltImage DEF Build, Tags
  <2>2. images' = Named(ImageTag, image) /\ copy' = copy
    BY <1>11 DEF Build
  <2>3. /\ images'[ImageTag] = image
        /\ Present' = Present \cup {ImageTag}
        /\ \A u \in Present \ {ImageTag} : images'[u] = images[u]
    <3> HIDE DEF image
    <3> QED
      BY <1>t, <2>1, <2>2, NamedImages
  <2>4. ImagesFresh'
    BY <2>3 DEF ImagesFresh
  <2>5. CASE Goto(c, "tag")
    <3>1. /\ call'[c].pc = "tag" /\ call'[c].tag = k.tag
          /\ call'[c].state = k.state /\ SameCall(call'[c], k)
      BY <1>t, <1>11, <2>5, GotoCall DEF Build, CallPCs
    <3>2. CallFresh(k) /\ k.pc = "build"
      BY <1>c, <1>11 DEF Build
    <3>3. /\ images'[ImageTag].from = copy
          /\ k.disturbed => images'[ImageTag].disturbed
      BY <2>3
    <3>4. CallFresh(call[c])'
      <4> HIDE DEF k
      <4> QED
        BY <2>2, <3>1, <3>2, <3>3 DEF CallFresh, SameCall, SameBuild, Fingerprinting
    <3> QED
      BY <1>3, <2>4, <3>4
  <2> QED
    BY <1>2, <1>11, <2>4, <2>5 DEF Build
<1>12. ASSUME NEW c \in Callers, TagCached(c) PROVE CallsFresh' /\ ImagesFresh'
  <2> DEFINE k == call[c]
  <2>1. CallFresh(k) /\ k \in CallRecord /\ k.tag # ImageTag
    BY <1>c, <1>t, <1>12 DEF TagCached, CallsTyped
  <2>2. /\ k.tag \in Tags /\ k.state \in Keys /\ k.set \in Settings
        /\ k.begun \in Sources /\ images[ImageTag] \in Image
    BY <1>t, <1>12, <2>1 DEF TagCached, CallRecord
  <2>3. /\ Present' = Present \cup {k.tag} /\ images'[k.tag] = images[ImageTag]
        /\ \A u \in Present \ {k.tag} : images'[u] = images[u]
    BY <1>t, <1>12, <2>2, NamedImages DEF TagCached
  <2>4. k.tag.commit \in {k.state.commit, "-"} /\ k.tag.dirty \in {k.state.dirty, "-"}
    BY <1>12, <2>1, <2>2, ExpectedParts DEF TagCached, CallFresh, Fingerprinting
  <2>5. TagTellsSources(k.tag, images[ImageTag])
    BY <1>12, <2>1, <2>2, <2>4 DEF TagCached, CallFresh, TagTellsSources
  <2> QED
    BY <1>2, <1>12, <2>3, <2>5 DEF TagCached, ImagesFresh
<1>13. ASSUME NEW c \in Callers, Abort(c) PROVE CallsFresh' /\ ImagesFresh'
  BY <1>2, <1>13, <1>i DEF Abort
<1>14. ASSUME NEW c \in Callers, Sync(c) PROVE CallsFresh' /\ ImagesFresh'
  BY <1>1, <1>14, <1>i DEF Sync
<1>15. ASSUME NEW t \in Present, RemoveImage(t) PROVE CallsFresh' /\ ImagesFresh'
  <2>1. Present' = Present \ {t} /\ \A u \in Present' : images'[u] = images[u]
    BY <1>15 DEF RemoveImage, Present
  <2> QED
    BY <1>15, <2>1 DEF CallsFresh, CallFresh, ImagesFresh, RemoveImage
<1>16. CASE Edit
  <2>1. copy' = copy /\ images' = images
    BY <1>16 DEF Edit
  <2>2. ASSUME NEW c \in Callers, call'[c].pc # "idle" PROVE CallFresh(call[c])'
    <3>1. /\ call'[c].pc = call[c].pc /\ call'[c].tag = call[c].tag
          /\ call'[c].state = call[c].state /\ SameBuild(call'[c], call[c])
          /\ IF call[c].pc \in {"dirty", "deps", "tracked"}
             THEN call'[c].disturbed ELSE SameCall(call'[c], call[c])
      BY <1>t, <1>16, <2>2, EditedCalls
    <3>2. CallFresh(call[c])
      BY <1>c, <2>2, <3>1
    <3> QED
      BY <2>1, <3>1, <3>2 DEF CallFresh, SameCall, SameBuild, Present, Fingerprinting
  <2> QED
    BY <1>i, <2>1, <2>2 DEF CallsFresh
<1>17. CASE UNCHANGED vars
  BY <1>17, <1>i DEF vars, CallsFresh, CallFresh, Present, part
<1> QED
  BY <1>4, <1>5, <1>6, <1>7, <1>8, <1>9, <1>10, <1>11, <1>12, <1>13, <1>14, <1>15, <1>16,
     <1>17
  DEF Next, CallStep

\* With one transport, and callers who ask for no name that is a fingerprint:
\* under the settings that tell the tracked files, an image reused for a clean
\* workspace was built from a tree with all its tracked files as they are,
\* unless one of the two calls was disturbed or found the copy without them.
THEOREM HitsAreCurrent ==
  ASSUME OneTransport, ImageTag \notin Keys
  PROVE  Spec => HitIsCurrent
<1> DEFINE Step == \A c \in Callers :
             LET image == images[call[c].tag] IN
             /\ Reuse(c) /\ call[c].tag \in Present
             /\ Fingerprinted(call[c].set) /\ ~ git_dirty(call[c].begun)
             => call[c].disturbed \/ image.disturbed \/ Has(image.from, call[c].begun)
<1>1. Init => CallsFresh /\ ImagesFresh
  BY DEF Init, CallsFresh, ImagesFresh, Present, Idle
<1>2. TypeOK /\ CallsFresh /\ ImagesFresh /\ [Next]_vars => CallsFresh' /\ ImagesFresh'
  BY FreshStep
<1>3. TypeOK /\ CallsFresh /\ ImagesFresh => Step
  <2> SUFFICES ASSUME TypeOK, CallsFresh, ImagesFresh, NEW c \in Callers,
                      Reuse(c), call[c].tag \in Present,
                      Fingerprinted(call[c].set), ~ git_dirty(call[c].begun),
                      ~ call[c].disturbed, ~ images[call[c].tag].disturbed
               PROVE  Has(images[call[c].tag].from, call[c].begun)
    OBVIOUS
  <2> DEFINE k == call[c]
             from == images[k.tag].from
  <2>1. k \in CallRecord /\ CallFresh(k) /\ k.pc = "reuse"
    BY Busy DEF TypeOK, CallsFresh, Reuse
  <2>2. k.state \in Keys /\ k.begun \in Sources
    BY <2>1 DEF CallRecord
  <2>3. k.tag = expected_cached_image_tag(k.state, k.set)
    BY <2>1 DEF CallFresh, Fingerprinting
  <2>4. k.tag # ImageTag /\ k.tag.commit = k.state.commit /\ k.tag.dirty = k.state.dirty
    BY <2>2, <2>3, FullTag
  <2>5. k.state.commit = k.begun.commit /\ k.state.dirty = part(k.begun).dirty
    BY <2>1 DEF CallFresh
  <2>6. k.begun.commit # "-" /\ part(k.begun).dirty = "clean"
    BY <2>2, CacheAssumption DEF Sources, part
  <2>7. PICK s \in Sources : /\ Has(from, s) /\ s.commit = k.begun.commit
                            /\ part(s).dirty = "clean"
    BY <2>4, <2>5, <2>6 DEF ImagesFresh, TagTellsSources
  <2>8. ~ git_dirty(s)
    BY <2>7 DEF part
  <2> QED
    BY <2>2, <2>7, <2>8, CleanAlike
<1>4. [][Step]_vars => HitIsCurrent
  BY PTL DEF HitIsCurrent
<1> QED
  BY <1>1, <1>2, <1>3, <1>4, TypeInit, TypeStep, PTL DEF Spec

=============================================================================
