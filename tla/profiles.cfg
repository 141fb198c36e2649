\* Two handlers, each uploads one photo: the second is the last the limit allows.
SPECIFICATION Spec
CONSTANTS
  Workers = {w1, w2}
  Files = {f1, f2, f3}
  NoFile = NoFile
  l1 = l1
  l2 = l2
  l3 = l3
  Lists <- OneEach
  MAX_PORTFOLIO_PHOTOS = 1
  MaxUpload = 1
SYMMETRY Symmetric
INVARIANT BadgeEarned
INVARIANT FewLists
INVARIANT PhotosBounded
INVARIANT PhotosHaveFiles
INVARIANT AvatarsHaveFiles
\* The names of files run out.
CHECK_DEADLOCK FALSE
