----------------------------- MODULE ImageCache -----------------------------
(***************************************************************************)
(* docker_build and its image cache.  A call fingerprints the workspace on *)
(* the host, looks in the guest for an image tagged with the fingerprint,  *)
(* validates the labels of that image against the workspace, and then      *)
(* gives it the name asked for, or builds from the copy of the workspace   *)
(* in the guest and tags the result.                                       *)
(*                                                                         *)
(* Between two steps of a call the workspace may be edited, images may be  *)
(* removed and another transport may build.  A fingerprint is several git  *)
(* commands and file reads; hashes do not collide.                         *)
(***************************************************************************)
EXTENDS Naturals

CONSTANTS
  Commits,     \* commits of the workspace's repository
  NoGit,       \* the commit where git tells none
  Edits,       \* what may be done to its files between commits
  Targets,     \* what a build asks for: target stage, dockerfile, build args
  ImageTag,    \* the name callers ask for
  Callers,     \* the transports' threads
  Settings,    \* build settings the workspace may be configured with
  Excludes,    \* what a sync may be told to leave out
  MaxBuilds,   \* bound: images built
  MaxEdits,    \* bound: edits of the workspace
  MaxFaults    \* bound: git commands that fail

ASSUME CacheAssumption ==
  /\ "-" \notin Commits \cup {NoGit}
  /\ "none" \in Edits
  /\ Edits \subseteq {"none", "code", "deps", "no_deps", "untracked", "ignored"}
  /\ MaxBuilds \in Nat /\ MaxEdits \in Nat /\ MaxFaults \in Nat
  /\ \A set \in Settings :
       /\ set.format \in {"git", "content", "fixed"}
       /\ set.strategy \in {"content_hash", "git_commit", "smart"}
       /\ set.validation \in {"strict", "warn", "disabled"}
       /\ {set.enabled, set.prebuilt, set.git_commit, set.git_dirty, set.dependencies,
           set.max_age} \subseteq BOOLEAN
       /\ set.on_stale \in {"rebuild", "warn", "fail"}
       /\ set.on_missing \in {"build", "warn", "fail"}

VARIABLES
  host,     \* the workspace
  copy,     \* what the guest has of it, the context of builds
  images,   \* per tag, the image in the guest
  call,     \* per caller, the docker_build in progress
  builds, edits, faults

bounds == <<builds, edits, faults>>
vars == <<host, copy, images, call, bounds>>

-----------------------------------------------------------------------------
(* _workspace_state.  A workspace is a commit and what was done to its      *)
(* files since: tracked code edited, the (tracked) dependency files edited  *)
(* or removed, a file added, or one that git ignores, like the .env that    *)
(* prepare_workspace writes.  Dependencies are the same at every commit.    *)

Sources == [commit : Commits, edits : Edits]

git_dirty(s) == s.edits \notin {"none", "ignored"}
dependencies_hash(s) ==
  CASE s.edits = "deps" -> "edited" [] s.edits = "no_deps" -> "none" [] OTHER -> "base"
tracked_hash(s) ==
  <<s.commit, IF s.edits \in {"code", "deps", "no_deps"} THEN s.edits ELSE "none">>

Parts == {"commit", "dirty", "deps", "tracked"}
Unread == [commit |-> "-", dirty |-> "-", deps |-> "-", tracked |-> <<"-", "-">>]

part(s) == [commit |-> s.commit,
            dirty |-> IF git_dirty(s) THEN "dirty" ELSE "clean",
            deps |-> dependencies_hash(s),
            tracked |-> tracked_hash(s)]

\* A git command that fails or times out reads as: no commit, nothing to
\* commit, no files.
failed == [commit |-> NoGit, dirty |-> "clean", tracked |-> <<NoGit, "none">>]

\* Mutant: the branches of two strategies are swapped.
content_hash_swapped(strategy) ==
  CASE strategy = "content_hash" -> {"commit"}
    [] strategy = "git_commit" -> Parts
    [] strategy = "smart" -> {"commit", "deps", "dirty"}

\* What content_hash is computed from.
content_hash(strategy) ==
  CASE strategy = "content_hash" -> Parts
    [] strategy = "git_commit" -> {"commit"}
    [] strategy = "smart" -> {"commit", "deps", "dirty"}

\* What the tag format takes in: {git_short}-{deps_hash} by default,
\* {content_hash}, or nothing that depends on the workspace.
tag_parts(set) ==
  CASE set.format = "git" -> {"commit", "deps"}
    [] set.format = "content" -> content_hash(set.strategy)
    [] set.format = "fixed" -> {}

Keys == [commit : Commits \cup {NoGit, "-"}, dirty : {"dirty", "clean", "-"},
         deps : {"base", "edited", "none", "-"},
         tracked : (Commits \cup {NoGit, "-"}) \X {"none", "code", "deps", "no_deps", "-"}]
Tags == Keys \cup {ImageTag}

Masked(state, parts) == [p \in Parts |-> IF p \in parts THEN state[p] ELSE Unread[p]]

expected_cached_image_tag(state, set) ==
  IF set.format = "fixed" THEN ImageTag ELSE Masked(state, tag_parts(set))

-----------------------------------------------------------------------------
(* Trees: the code with its state, the dependency files, and the other      *)
(* files there are.  Each commit has a file no other one has, which goes by *)
(* its name.                                                                *)

Trees == [code : (Commits \cup {NoGit}) \X BOOLEAN,
          deps : {"base", "edited", "none"},
          files : SUBSET (Commits \cup {"untracked", "ignored"})]
Nothing == [code |-> <<NoGit, FALSE>>, deps |-> "none", files |-> {}]

Contents(s) == [code |-> <<s.commit, s.edits = "code">>,
                deps |-> dependencies_hash(s),
                files |-> {s.commit} \cup ({s.edits} \cap {"untracked", "ignored"})]

\* The tree has the tracked files of s as they are in s; what else it has
\* does not matter.
Has(tree, s) ==
  /\ tree.code = Contents(s).code
  /\ dependencies_hash(s) \in {"none", tree.deps}
  /\ s.commit \in tree.files

\* tar adds and replaces files and removes none.
Unpacked(s, exclude) ==
  [code |-> IF "code" \in exclude THEN copy.code ELSE Contents(s).code,
   deps |-> IF "deps" \in exclude \/ Contents(s).deps = "none"
            THEN copy.deps ELSE Contents(s).deps,
   files |-> copy.files \cup (Contents(s).files \ exclude)]

-----------------------------------------------------------------------------
(* Images: the tree and the target they were built from, the labels the     *)
(* build put on them, and whether the build was disturbed: its fingerprint  *)
(* is not that of the workspace it began with, or the guest's copy lacked   *)
(* tracked files of it.  Whether an image is older than a threshold is left *)
(* open.                                                                    *)

Image == [from : Trees, target : Targets,
          commit : Commits \cup {NoGit, "-"}, deps : {"base", "edited", "none", "-"},
          disturbed : BOOLEAN]

Present == DOMAIN images
Named(t, image) == [u \in Present \cup {t} |-> IF u = t THEN image ELSE images[u]]

\* Mutant: labels are compared only when the image is too old as well.
stale_and_old(image, seen, set, old) ==
  /\ set.max_age /\ old
  /\ \/ set.git_commit /\ seen.commit # NoGit /\ image.commit # seen.commit
     \/ set.dependencies /\ seen.deps # "none" /\ image.deps # seen.deps

\* The reasons _validate_image_internal finds against an image.
stale(image, seen, set, old) ==
  \/ set.git_commit /\ seen.commit # NoGit /\ image.commit # seen.commit
  \/ set.dependencies /\ seen.deps # "none" /\ image.deps # seen.deps
  \/ set.max_age /\ old

dirty(seen, set) == set.git_dirty /\ seen.dirty = "dirty"

valid(t, seen, set, old) ==
  t \in Present /\ ~ stale(images[t], seen, set, old) /\ ~ dirty(seen, set)

\* What is recommended when there is no valid image: on_missing, on_stale,
\* and a rebuild whatever on_stale says if the workspace is dirty.
refused(t, seen, set) ==
  /\ set.validation = "strict"
  /\ \/ t \notin Present /\ set.on_missing = "fail"
     \/ t \in Present /\ ~ dirty(seen, set) /\ set.on_stale = "fail"

-----------------------------------------------------------------------------
(* Calls.                                                                   *)

CallPCs == {"dirty", "deps", "tracked", "found", "validate", "seen_dirty", "seen_deps",
            "inspect", "look", "reuse", "build", "tag"}

Idle == [pc |-> "idle"]

Goto(c, p) == call' = [call EXCEPT ![c].pc = p]
Return(c) == call' = [call EXCEPT ![c] = Idle]

Init ==
  /\ host \in [commit : Commits, edits : {"none"}] /\ copy = Nothing
  /\ images = [t \in {} |-> t]
  /\ call = [c \in Callers |-> Idle]
  /\ builds = 0 /\ edits = 0 /\ faults = 0

-----------------------------------------------------------------------------
(* docker_build.  The workspace is fingerprinted for the tag, part by part, *)
(* and by the validation a second time; what that makes of the tracked      *)
(* files is not used.                                                       *)

\* What a call gets for a part of the workspace.
Reads(p, value) ==
  \/ value = part(host)[p] /\ UNCHANGED faults
  \/ value = failed[p] /\ faults < MaxFaults /\ faults' = faults + 1

BeginBuild(c) ==
  /\ call[c].pc = "idle"
  /\ \E target \in Targets, set \in Settings, commit \in Commits \cup {NoGit} :
       /\ Reads("commit", commit)
       /\ call' = [call EXCEPT ![c] =
            [pc |-> "dirty", target |-> target, set |-> set,
             state |-> [Unread EXCEPT !.commit = commit], seen |-> Unread, tag |-> ImageTag,
             begun |-> host, disturbed |-> commit # host.commit \/ ~ Has(copy, host)]]
  /\ UNCHANGED <<host, copy, images, builds, edits>>

ReadStatus(c) ==
  /\ call[c].pc = "dirty"
  /\ \E value \in {"dirty", "clean"} :
       /\ Reads("dirty", value)
       /\ call' = [call EXCEPT ![c].pc = "deps", ![c].state.dirty = value,
                               ![c].disturbed = @ \/ value # part(host).dirty]
  /\ UNCHANGED <<host, copy, images, builds, edits>>

ReadDependencies(c) ==
  /\ call[c].pc = "deps"
  /\ call' = [call EXCEPT
       ![c].pc = IF call[c].set.strategy = "content_hash" THEN "tracked" ELSE "found",
       ![c].state.deps = dependencies_hash(host)]
  /\ UNCHANGED <<host, copy, images, bounds>>

ReadTracked(c) ==
  /\ call[c].pc = "tracked"
  /\ \E value \in {tracked_hash(host), failed.tracked} :
       /\ Reads("tracked", value)
       /\ call' = [call EXCEPT ![c].pc = "found", ![c].state.tracked = value,
                               ![c].disturbed = @ \/ value # tracked_hash(host)]
  /\ UNCHANGED <<host, copy, images, builds, edits>>

ExpectTag(c) ==
  LET set == call[c].set IN
  /\ call[c].pc = "found"
  /\ \E no_cache \in BOOLEAN :
       call' = [call EXCEPT
         ![c].pc = IF ~ (set.enabled /\ set.prebuilt) \/ no_cache THEN "build"
                   ELSE IF set.validation = "disabled" THEN "look" ELSE "validate",
         ![c].tag = expected_cached_image_tag(call[c].state, set)]
  /\ UNCHANGED <<host, copy, images, bounds>>

\* validation = "disabled": any image with the tag will do.
Look(c) ==
  /\ call[c].pc = "look"
  /\ Goto(c, IF call[c].tag \in Present THEN "reuse" ELSE "build")
  /\ UNCHANGED <<host, copy, images, bounds>>

Recapture(c) ==
  /\ call[c].pc = "validate"
  /\ \E commit \in Commits \cup {NoGit} :
       /\ Reads("commit", commit)
       /\ call' = [call EXCEPT ![c].pc = "seen_dirty", ![c].seen.commit = commit]
  /\ UNCHANGED <<host, copy, images, builds, edits>>

RecaptureStatus(c) ==
  /\ call[c].pc = "seen_dirty"
  /\ \E value \in {"dirty", "clean"} :
       /\ Reads("dirty", value)
       /\ call' = [call EXCEPT ![c].pc = "seen_deps", ![c].seen.dirty = value]
  /\ UNCHANGED <<host, copy, images, builds, edits>>

RecaptureDependencies(c) ==
  /\ call[c].pc = "seen_deps"
  /\ call' = [call EXCEPT ![c].pc = "inspect", ![c].seen.deps = dependencies_hash(host)]
  /\ UNCHANGED <<host, copy, images, bounds>>

Inspect(c) ==
  LET tag == call[c].tag
      seen == call[c].seen
      set == call[c].set
  IN
  /\ call[c].pc = "inspect"
  /\ \E old \in BOOLEAN :
       \/ valid(tag, seen, set, old) /\ Goto(c, "reuse")
       \/ ~ valid(tag, seen, set, old) /\ refused(tag, seen, set) /\ Return(c)
       \/ ~ valid(tag, seen, set, old) /\ ~ refused(tag, seen, set) /\ Goto(c, "build")
  /\ UNCHANGED <<host, copy, images, bounds>>

\* The image found under the expected tag gets the name asked for; docker is
\* not asked again where that is the tag.
Reuse(c) ==
  /\ call[c].pc = "reuse"
  /\ \/ call[c].tag = ImageTag /\ UNCHANGED images
     \/ /\ call[c].tag \in Present \ {ImageTag}
        /\ images' = Named(ImageTag, images[call[c].tag])
  /\ Return(c)
  /\ UNCHANGED <<host, copy, bounds>>

\* Mutant: the image is tagged even when the tag is the name asked for.
Build_always_tagged(c) ==
  /\ call[c].pc = "build" /\ copy # Nothing /\ builds < MaxBuilds
  /\ builds' = builds + 1
  /\ images' = Named(ImageTag,
       [from |-> copy, target |-> call[c].target, commit |-> call[c].state.commit,
        deps |-> call[c].state.deps, disturbed |-> call[c].disturbed])
  /\ Goto(c, "tag")
  /\ UNCHANGED <<host, copy, edits, faults>>

\* Mutant: the labels are those of the validation's fingerprint.
Build_labels_of_validation(c) ==
  /\ call[c].pc = "build" /\ copy # Nothing /\ builds < MaxBuilds
  /\ builds' = builds + 1
  /\ images' = Named(ImageTag,
       [from |-> copy, target |-> call[c].target, commit |-> call[c].seen.commit,
        deps |-> call[c].seen.deps, disturbed |-> call[c].disturbed])
  /\ IF call[c].set.enabled /\ call[c].tag # ImageTag THEN Goto(c, "tag") ELSE Return(c)
  /\ UNCHANGED <<host, copy, edits, faults>>

\* The labels are those of the fingerprint, the content is the guest's.
Build(c) ==
  /\ call[c].pc = "build" /\ copy # Nothing /\ builds < MaxBuilds
  /\ builds' = builds + 1
  /\ images' = Named(ImageTag,
       [from |-> copy, target |-> call[c].target, commit |-> call[c].state.commit,
        deps |-> call[c].state.deps, disturbed |-> call[c].disturbed])
  /\ IF call[c].set.enabled /\ call[c].tag # ImageTag THEN Goto(c, "tag") ELSE Return(c)
  /\ UNCHANGED <<host, copy, edits, faults>>

\* docker tag goes by the name, whatever image has it by now.
TagCached(c) ==
  /\ call[c].pc = "tag" /\ ImageTag \in Present
  /\ images' = Named(call[c].tag, images[ImageTag])
  /\ Return(c)
  /\ UNCHANGED <<host, copy, bounds>>

\* A command in the guest fails, or the server dies: the call is over.
Abort(c) ==
  /\ call[c].pc # "idle"
  /\ Return(c)
  /\ UNCHANGED <<host, copy, images, bounds>>

-----------------------------------------------------------------------------
(* The environment: edits, commits and checkouts on the host; the sync tool,*)
(* which a transport runs between its builds; time; cleanups in the guest.  *)

Edit ==
  /\ edits < MaxEdits /\ edits' = edits + 1
  /\ host' \in Sources \ {host}
  /\ call' = [c \in Callers |->
                IF call[c].pc \in {"dirty", "deps", "tracked"}
                THEN [call[c] EXCEPT !.disturbed = TRUE] ELSE call[c]]
  /\ UNCHANGED <<copy, images, builds, faults>>

Sync(c) ==
  /\ call[c].pc = "idle"
  /\ \E exclude \in Excludes : copy' = Unpacked(host, exclude)
  /\ UNCHANGED <<host, images, call, bounds>>

RemoveImage(t) ==
  /\ images' = [u \in Present \ {t} |-> images[u]]
  /\ UNCHANGED <<host, copy, call, bounds>>

CallStep(c) ==
  \/ BeginBuild(c) \/ ReadStatus(c) \/ ReadDependencies(c) \/ ReadTracked(c) \/ ExpectTag(c)
  \/ Look(c) \/ Recapture(c) \/ RecaptureStatus(c) \/ RecaptureDependencies(c) \/ Inspect(c)
  \/ Reuse(c) \/ Build(c) \/ TagCached(c) \/ Abort(c)

Next ==
  \/ \E c \in Callers : CallStep(c) \/ Sync(c)
  \/ \E t \in Present : RemoveImage(t)
  \/ Edit

Spec == Init /\ [][Next]_vars

-----------------------------------------------------------------------------
(* Properties.                                                              *)

CallRecord == [pc : CallPCs, target : Targets, set : Settings, state : Keys, seen : Keys,
               tag : Tags, begun : Sources, disturbed : BOOLEAN]

\* Every variable has its type, and no call comes to tag an image with the
\* name it already has.
TypeOK ==
  /\ host \in Sources /\ copy \in Trees
  /\ Present \subseteq Tags /\ images \in [Present -> Image]
  /\ call \in [Callers -> CallRecord \cup {Idle}]
  /\ \A c \in Callers : call[c].pc = "tag" => call[c].tag # ImageTag
  /\ builds \in Nat /\ edits \in Nat /\ faults \in Nat

\* A tag made from a fingerprint names an image labelled with the same
\* fingerprint.  With two transports it need not: see TagCached.
TagNamesState ==
  \A k \in Present \ {ImageTag} :
    /\ k.commit # "-" => images[k].commit = k.commit
    /\ k.deps # "-" => images[k].deps = k.deps

\* An image is only reused when what is checked of its labels agrees with the
\* workspace as the validation saw it: with its commit if git told one, with
\* its dependencies if it has any.
HitMatchesLabels ==
  [][\A c \in Callers :
       LET image == images[call[c].tag] IN
       Reuse(c) /\ call[c].tag \in Present /\ call[c].set.validation # "disabled" =>
         /\ call[c].set.git_commit /\ call[c].seen.commit # NoGit =>
              image.commit = call[c].seen.commit
         /\ call[c].set.dependencies /\ call[c].seen.deps # "none" =>
              image.deps = call[c].seen.deps
         /\ ~ dirty(call[c].seen, call[c].set)]_vars

\* The settings of docs/SETUP.md under which a tag tells the tracked files.
Fingerprinted(set) ==
  /\ set.format = "content" /\ set.strategy = "content_hash"
  /\ set.validation # "disabled" /\ set.git_dirty

\* Under those settings an image that is reused for a workspace without
\* uncommitted changes was built from a tree that had every tracked file as
\* the workspace has it, wherever edits fall and git fails later.  The tree
\* may have had other files too, ignored ones and leftovers of earlier syncs.
\* Excepted are calls whose own fingerprint, and images whose build's
\* fingerprint, was taken while the workspace was edited or with a git command
\* that failed, and those that found the guest's copy without those files.
HitIsCurrent ==
  [][\A c \in Callers :
       LET image == images[call[c].tag] IN
       /\ Reuse(c) /\ call[c].tag \in Present
       /\ Fingerprinted(call[c].set) /\ ~ git_dirty(call[c].begun)
       => call[c].disturbed \/ image.disturbed \/ Has(image.from, call[c].begun)]_vars

\* A reused image was built for the target the call asks for.
HitIsForTarget ==
  [][\A c \in Callers :
       Reuse(c) /\ call[c].tag \in Present => images[call[c].tag].target = call[c].target]_vars

=============================================================================
