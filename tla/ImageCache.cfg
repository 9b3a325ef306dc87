CONSTANTS
  Commits = {c1, c2}
  NoGit = NoGit
  Edits = {"none", "code", "no_deps"}
  Targets = {runtime}
  ImageTag = ImageTag
  Callers = {stdio}
  Settings <- Mixed
  Excludes <- NoExcludes
  MaxFaults = 1
  MaxEdits = 2
  MaxBuilds = 2
SYMMETRY Symmetry
SPECIFICATION Spec
INVARIANTS TypeOK TagNamesState
PROPERTIES HitMatchesLabels HitIsCurrent
