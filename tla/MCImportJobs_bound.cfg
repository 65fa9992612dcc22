SPECIFICATION Spec
CONSTANTS
  c1 = c1
  c2 = c2
  j1 = j1
  j2 = j2
  s1 = s1
  s2 = s2
  Clients <- TwoClients
  Jobs <- TwoJobs
  Sources <- TwoSources
  MaxActiveJobs = 1
  Remote <- TwoJobs
  MaxCrashes = 1
  Nobody = Nobody
  NoSource = NoSource
  Child = Child
INVARIANTS AdmissionBound NeverDisowned
SYMMETRY Symmetry
