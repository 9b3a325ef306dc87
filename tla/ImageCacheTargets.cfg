CONSTANTS
  Commits = {c1}
  NoGit = NoGit
  Edits = {"none", "code"}
  Targets = {runtime, tests}
  ImageTag = ImageTag
  Callers = {stdio}
  Settings <- StrictOnly
  Excludes <- NoExcludes
  MaxFaults = 1
  MaxEdits = 1
  MaxBuilds = 1
SPECIFICATION Spec
PROPERTIES HitIsForTarget
