--------------------------- MODULE ProfilesProofs ---------------------------
(***************************************************************************)
(* Theorems about Profiles, for any number of workers and files, any lists *)
(* of services and any limits.                                             *)
(***************************************************************************)
EXTENDS Profiles, FiniteSetTheorems, TLAPS

----------------------------------------------------------------------------
(* Tasks *)

Pending == {"read_account", "set_account", "set_profile"}

\* The step of a task tells which fields it has.
LEMMA TaskShape ==
  ASSUME NEW t \in Tasks
  PROVE  /\ t.step \in Pending \cup {"delete_file", "insert_photo", "remove_photo"} => t.file \in Files
         /\ t.step \in {"set_account", "save_avatar", "set_profile"} => t.old \in MaybeFile
         /\ t.step = "create_profile" => t.avatar \in MaybeFile
         /\ t.step \in {"update_profile", "replace_services", "commit_update"} => t.checks \in SUBSET Checks
         /\ t.step = "commit_update" => t.seen \in SUBSET Labels
         /\ t.step \in {"save_photo", "insert_photo"} => t.left \in 1..MaxUpload
BY DEF Tasks, Idle, AvatarTasks, ProfileTasks, PortfolioTasks, Pending

\* What the actions pass to Proceed is a task.
LEMMA NextTasks ==
  /\ Idle \in Tasks
  /\ [step |-> "copy_account"] \in Tasks
  /\ \A f \in Files : /\ [step |-> "read_account", file |-> f] \in Tasks
                      /\ [step |-> "delete_file", file |-> f] \in Tasks
                      /\ [step |-> "remove_photo", file |-> f] \in Tasks
  /\ \A o \in MaybeFile : /\ [step |-> "save_avatar", old |-> o] \in Tasks
                          /\ [step |-> "create_profile", avatar |-> o] \in Tasks
  /\ \A f \in Files, o \in MaybeFile :
       /\ [step |-> "set_account", file |-> f, old |-> o] \in Tasks
       /\ [step |-> "set_profile", file |-> f, old |-> o] \in Tasks
  /\ \A c \in SUBSET Checks : /\ [step |-> "update_profile", checks |-> c] \in Tasks
                              /\ [step |-> "replace_services", checks |-> c] \in Tasks
  /\ \A c \in SUBSET Checks, s \in SUBSET Labels :
       [step |-> "commit_update", checks |-> c, seen |-> s] \in Tasks
  /\ \A n \in 1..MaxUpload : [step |-> "save_photo", left |-> n] \in Tasks
  /\ \A f \in Files, n \in 1..MaxUpload : [step |-> "insert_photo", file |-> f, left |-> n] \in Tasks
BY DEF Tasks, Idle, AvatarTasks, ProfileTasks, PortfolioTasks

\* A worker that proceeds keeps the others' tasks.
LEMMA ProceedType ==
  ASSUME task \in [Workers -> Tasks], NEW w \in Workers, NEW t \in Tasks, Proceed(w, t)
  PROVE  /\ task' \in [Workers -> Tasks]
         /\ task'[w] = t
         /\ \A v \in Workers : v # w => task'[v] = task[v]
BY DEF Proceed

\* The badge adds nothing to the checks but itself.
LEMMA BadgeShape ==
  ASSUME NEW c \in SUBSET Checks
  PROVE  /\ WithBadge(c) \subseteq Checks \cup {"verified"}
         /\ WithBadge(c) \cap Checks = c
         /\ "verified" \in WithBadge(c) <=> Checks \subseteq c
BY DEF WithBadge, Checks

----------------------------------------------------------------------------
(* Type correctness *)

LEMMA TypeInit == Init => TypeOK
BY NextTasks DEF Init, TypeOK, MaybeFile

LEMMA TypeAvatars ==
  ASSUME TypeOK, NEW w \in Workers, AccountAvatar(w) \/ ProfileAvatar(w) \/ DeleteFile(w)
  PROVE  TypeOK'
PROOF
  <1> USE NextTasks, ProceedType
  <1>a. task \in [Workers -> Tasks] /\ task[w] \in Tasks /\ Files \subseteq MaybeFile
    BY DEF TypeOK, MaybeFile
  <1>b. ASSUME task[w].old \in MaybeFile, DeletePrevious(w) PROVE task' \in [Workers -> Tasks]
    BY <1>a, <1>b DEF DeletePrevious, MaybeFile
  <1>1. ASSUME NEW f \in Files, SaveAccountAvatar(w, f) PROVE TypeOK'
    BY <1>1, <1>a DEF SaveAccountAvatar, Save, TypeOK, avatarVars, profileVars
  <1>2. CASE ReadAccountAvatar(w)
    <2>1. task[w].file \in Files /\ accountAvatar \in MaybeFile
      BY <1>2, <1>a, TaskShape DEF ReadAccountAvatar, At, Pending, TypeOK
    <2> QED
      BY <1>2, <1>a, <2>1 DEF ReadAccountAvatar, TypeOK, avatarVars, profileVars
  <1>3. CASE SetAccountAvatar(w)
    <2>1. task[w].file \in Files /\ task[w].old \in MaybeFile
      BY <1>3, <1>a, TaskShape DEF SetAccountAvatar, At, Pending
    <2>2. task' \in [Workers -> Tasks]
      BY <1>3, <1>b, <2>1 DEF SetAccountAvatar
    <2> QED
      BY <1>3, <1>a, <2>1, <2>2 DEF SetAccountAvatar, TypeOK, profileVars
  <1>4. CASE ReadProfileAvatar(w)
    <2>1. profileAvatar \in MaybeFile
      BY DEF TypeOK
    <2> QED
      BY <1>4, <1>a, <2>1 DEF ReadProfileAvatar, TypeOK, avatarVars, profileVars
  <1>5. ASSUME NEW f \in Files, SaveProfileAvatar(w, f) PROVE TypeOK'
    <2>1. task[w].old \in MaybeFile
      BY <1>5, <1>a, TaskShape DEF SaveProfileAvatar, At, Pending
    <2> QED
      BY <1>5, <1>a, <2>1 DEF SaveProfileAvatar, Save, TypeOK, avatarVars, profileVars
  <1>6. CASE SetProfileAvatar(w)
    <2>1. task[w].file \in Files /\ task[w].old \in MaybeFile
      BY <1>6, <1>a, TaskShape DEF SetProfileAvatar, At, Pending
    <2>2. task' \in [Workers -> Tasks]
      BY <1>6, <1>b, <2>1 DEF SetProfileAvatar
    <2> QED
      BY <1>6, <1>a, <2>1, <2>2 DEF SetProfileAvatar, TypeOK, profileVars
  <1>7. CASE DeleteFile(w)
    BY <1>7, <1>a DEF DeleteFile, Delete, TypeOK, avatarVars, profileVars
  <1> QED
    BY <1>1, <1>2, <1>3, <1>4, <1>5, <1>6, <1>7 DEF AccountAvatar, ProfileAvatar

LEMMA TypeProfile ==
  ASSUME TypeOK, NEW w \in Workers, Profile(w)
  PROVE  TypeOK'
PROOF
  <1> USE NextTasks, ProceedType
  <1>a. task \in [Workers -> Tasks] /\ task[w] \in Tasks
    BY DEF TypeOK
  <1>b. \A list \in Lists : list \subseteq Labels
    BY DEF Labels
  <1>1. CASE RequestProfile(w)
    BY <1>1, <1>a DEF RequestProfile, TypeOK, avatarVars, profileVars
  <1>2. CASE CopyAccount(w)
    <2>1. accountAvatar \in MaybeFile
      BY DEF TypeOK
    <2> QED
      BY <1>2, <1>a, <2>1 DEF CopyAccount, TypeOK, avatarVars
  <1>3. ASSUME NEW checks \in SUBSET Checks, NEW list \in Lists, CreateProfile(w, checks, list)
        PROVE  TypeOK'
    <2>1. task[w].avatar \in MaybeFile
      BY <1>3, <1>a, TaskShape DEF CreateProfile, At
    <2>2. task' \in [Workers -> Tasks]
      BY <1>3, <1>a DEF CreateProfile
    <2>3. WithBadge(checks) \subseteq Checks \cup {"verified"}
      BY BadgeShape
    <2> QED
      BY <1>3, <1>b, <2>1, <2>2, <2>3 DEF CreateProfile, TypeOK
  <1>4. ASSUME NEW done \in SUBSET Checks, NEW undone \in SUBSET Checks, RequestUpdate(w, done, undone)
        PROVE  TypeOK'
    <2>1. Merged(done, undone) \in SUBSET Checks
      BY DEF Merged
    <2>2. task' \in [Workers -> Tasks]
      BY <1>4, <1>a, <2>1 DEF RequestUpdate
    <2> QED
      BY <1>4, <2>2 DEF RequestUpdate, TypeOK, avatarVars
  <1>5. CASE UpdateProfile(w)
    <2>1. task[w].checks \in SUBSET Checks
      BY <1>5, <1>a, TaskShape DEF UpdateProfile, At
    <2>2. WithBadge(task[w].checks) \subseteq Checks \cup {"verified"}
      BY <2>1, BadgeShape
    <2> QED
      BY <1>5, <1>a, <2>2 DEF UpdateProfile, TypeOK, avatarVars
  <1>6. CASE ReplaceServices(w)
    <2>1. task[w].checks \in SUBSET Checks /\ Replaced \in SUBSET Labels
      BY <1>6, <1>a, TaskShape DEF ReplaceServices, At, Replaced, TypeOK
    <2> QED
      BY <1>6, <1>a, <2>1 DEF ReplaceServices, TypeOK, avatarVars, profileVars
  <1>7. ASSUME NEW list \in Lists, CommitUpdate(w, list) PROVE TypeOK'
    <2>1. task[w].checks \in SUBSET Checks
      BY <1>7, <1>a, TaskShape DEF CommitUpdate, At
    <2>2. WithBadge(task[w].checks) \subseteq Checks \cup {"verified"}
      BY <2>1, BadgeShape
    <2>3. ASSUME NEW v \in Workers, At(v, "commit_update")
          PROVE  [step |-> "commit_update", checks |-> task[v].checks, seen |-> task[v].seen \ list]
                   \in Tasks
      <3>1. task[v] \in Tasks /\ task[v].step = "commit_update"
        BY <2>3, <1>a DEF At
      <3>2. task[v].checks \in SUBSET Checks /\ task[v].seen \ list \in SUBSET Labels
        BY <3>1, TaskShape
      <3> QED
        BY <3>2
    <2>4. task' \in [Workers -> Tasks]
      BY <1>7, <1>a, <2>3 DEF CommitUpdate
    <2> QED
      BY <1>7, <1>b, <2>2, <2>4 DEF CommitUpdate, TypeOK, avatarVars
  <1> QED
    BY <1>1, <1>2, <1>3, <1>4, <1>5, <1>6, <1>7 DEF Profile

LEMMA TypePortfolio ==
  ASSUME TypeOK, NEW w \in Workers, Portfolio(w) \/ Abort(w)
  PROVE  TypeOK'
PROOF
  <1> USE NextTasks, ProceedType
  <1>a. task \in [Workers -> Tasks] /\ task[w] \in Tasks /\ photos \subseteq Files
    BY DEF TypeOK
  <1>1. ASSUME NEW n \in 1..MaxUpload, CountPhotos(w, n) PROVE TypeOK'
    BY <1>1, <1>a DEF CountPhotos, TypeOK, avatarVars, profileVars
  <1>2. ASSUME NEW f \in Files, SavePhoto(w, f) PROVE TypeOK'
    <2>1. task[w].left \in 1..MaxUpload
      BY <1>2, <1>a, TaskShape DEF SavePhoto, At
    <2> QED
      BY <1>2, <1>a, <2>1 DEF SavePhoto, Save, TypeOK, avatarVars, profileVars
  <1>3. ASSUME NEW f \in Files, ReadPhoto(w, f) PROVE TypeOK'
    BY <1>3, <1>a DEF ReadPhoto, TypeOK, avatarVars, profileVars
  <1>4. CASE InsertPhoto(w)
    <2>1. task[w].left \in 1..MaxUpload /\ task[w].file \in Files
      BY <1>4, <1>a, TaskShape DEF InsertPhoto, At
    <2>2. task[w].left > 1 => task[w].left - 1 \in 1..MaxUpload
      BY <2>1, LimitsAssumption
    <2>3. task' \in [Workers -> Tasks]
      BY <1>4, <1>a, <2>2 DEF InsertPhoto
    <2> QED
      BY <1>4, <1>a, <2>1, <2>3 DEF InsertPhoto, TypeOK, avatarVars, profileVars
  <1>5. CASE RemovePhoto(w)
    <2>1. task[w].file \in Files
      BY <1>5, <1>a, TaskShape DEF RemovePhoto, At
    <2>2. task' \in [Workers -> Tasks]
      BY <1>5, <1>a, <2>1 DEF RemovePhoto, RemoveRow
    <2> QED
      BY <1>5, <1>a, <2>2 DEF RemovePhoto, RemoveRow, TypeOK, avatarVars, profileVars
  <1>6. CASE Abort(w)
    BY <1>6, <1>a DEF Abort, TypeOK, avatarVars, profileVars
  <1> QED
    BY <1>1, <1>2, <1>3, <1>4, <1>5, <1>6 DEF Portfolio

LEMMA TypeNext == TypeOK /\ [Next]_vars => TypeOK'
PROOF
  <1> SUFFICES ASSUME TypeOK, [Next]_vars PROVE TypeOK'
    OBVIOUS
  <1>1. CASE Next
    BY <1>1, TypeAvatars, TypeProfile, TypePortfolio DEF Next, Handle
  <1>2. CASE UNCHANGED vars
    BY <1>2 DEF vars, avatarVars, profileVars, TypeOK
  <1> QED
    BY <1>1, <1>2

\* Every statement of the two services finds in its task what it uses, and the
\* rows and files keep their types.
THEOREM TypeCorrect == Spec => []TypeOK
BY TypeInit, TypeNext, PTL DEF Spec

----------------------------------------------------------------------------
(* The badge *)

\* An update in flight carries checks that were declared.
BadgeInv ==
  /\ TypeOK
  /\ BadgeEarned
  /\ \A w \in Workers :
       task[w].step \in {"update_profile", "replace_services", "commit_update"} =>
         task[w].checks \subseteq submitted

LEMMA BadgeInit == Init => BadgeInv
BY TypeInit DEF Init, BadgeInv, BadgeEarned, Idle, Checks

\* What no action of the avatars and of the portfolio touches.
LEMMA BadgeElsewhere ==
  ASSUME task \in [Workers -> Tasks], NEW w \in Workers,
         AccountAvatar(w) \/ ProfileAvatar(w) \/ DeleteFile(w) \/ Portfolio(w) \/ Abort(w)
  PROVE  /\ UNCHANGED <<flags, submitted, services, profile>>
         /\ task'[w].step \notin {"update_profile", "replace_services", "commit_update"}
         /\ \A v \in Workers : v # w => task'[v] = task[v]
PROOF
  <1> DEFINE Elsewhere == /\ task'[w].step \notin {"update_profile", "replace_services", "commit_update"}
                          /\ \A v \in Workers : v # w => task'[v] = task[v]
  <1>0. \A t : Proceed(w, t) => task'[w] = t /\ \A v \in Workers : v # w => task'[v] = task[v]
    BY DEF Proceed
  <1>1. UNCHANGED <<flags, submitted, services, profile>>
    BY DEF AccountAvatar, ProfileAvatar, SaveAccountAvatar, ReadAccountAvatar, SetAccountAvatar,
           ReadProfileAvatar, SaveProfileAvatar, SetProfileAvatar, DeleteFile,
           Portfolio, CountPhotos, SavePhoto, InsertPhoto, ReadPhoto, RemovePhoto, Abort,
           profileVars
  <1>2. ASSUME AccountAvatar(w) PROVE Elsewhere
    <2>1. ASSUME NEW f \in Files, SaveAccountAvatar(w, f)
          PROVE  Elsewhere
      BY <1>0, <2>1 DEF SaveAccountAvatar, Idle
    <2>2. ASSUME ReadAccountAvatar(w)
          PROVE  Elsewhere
      BY <1>0, <2>2 DEF ReadAccountAvatar, Idle
    <2>3. ASSUME SetAccountAvatar(w)
          PROVE  Elsewhere
      BY <1>0, <2>3 DEF SetAccountAvatar, DeletePrevious, Idle
    <2> QED
      BY <1>2, <2>1, <2>2, <2>3 DEF AccountAvatar
  <1>3. ASSUME ProfileAvatar(w) PROVE Elsewhere
    <2>1. ASSUME ReadProfileAvatar(w)
          PROVE  Elsewhere
      BY <1>0, <2>1 DEF ReadProfileAvatar, Idle
    <2>2. ASSUME NEW f \in Files, SaveProfileAvatar(w, f)
          PROVE  Elsewhere
      BY <1>0, <2>2 DEF SaveProfileAvatar, Idle
    <2>3. ASSUME SetProfileAvatar(w)
          PROVE  Elsewhere
      BY <1>0, <2>3 DEF SetProfileAvatar, DeletePrevious, Idle
    <2> QED
      BY <1>3, <2>1, <2>2, <2>3 DEF ProfileAvatar
  <1>4. ASSUME DeleteFile(w) \/ Abort(w) PROVE Elsewhere
    BY <1>0, <1>4 DEF DeleteFile, Abort, Idle
  <1>5. ASSUME Portfolio(w) PROVE Elsewhere
    <2>1. ASSUME NEW n \in 1..MaxUpload, CountPhotos(w, n)
          PROVE  Elsewhere
      BY <1>0, <2>1 DEF CountPhotos, Idle
    <2>2. ASSUME NEW f \in Files, SavePhoto(w, f)
          PROVE  Elsewhere
      BY <1>0, <2>2 DEF SavePhoto, Idle
    <2>3. ASSUME NEW f \in Files, ReadPhoto(w, f)
          PROVE  Elsewhere
      BY <1>0, <2>3 DEF ReadPhoto, Idle
    <2>4. ASSUME InsertPhoto(w)
          PROVE  Elsewhere
      BY <1>0, <2>4 DEF InsertPhoto, Idle
    <2>5. ASSUME RemovePhoto(w)
          PROVE  Elsewhere
      BY <1>0, <2>5 DEF RemovePhoto, RemoveRow, Idle
    <2> QED
      BY <1>5, <2>1, <2>2, <2>3, <2>4, <2>5 DEF Portfolio
  <1> QED
    BY <1>1, <1>2, <1>3, <1>4, <1>5

LEMMA BadgeProfile ==
  ASSUME BadgeInv, TypeOK', NEW w \in Workers, Profile(w)
  PROVE  BadgeInv'
PROOF
  <1> DEFINE Writes == {"update_profile", "replace_services", "commit_update"}
  <1>a. task \in [Workers -> Tasks] /\ task[w] \in Tasks
    BY DEF BadgeInv, TypeOK
  <1>b. \A v \in Workers : task[v].step \in Writes => task[v].checks \subseteq submitted
    BY DEF BadgeInv
  <1>c. flags \cap Checks \subseteq submitted /\ ("verified" \in flags <=> Checks \subseteq flags)
    BY DEF BadgeInv, BadgeEarned
  <1>d. submitted \subseteq submitted'
    BY DEF Profile, RequestProfile, CopyAccount, CreateProfile, RequestUpdate, UpdateProfile,
           ReplaceServices, CommitUpdate, profileVars
  \* Enough: the flags that are written, and the tasks.
  <1>e. ASSUME flags' = flags \/ (\E c \in SUBSET Checks : c \subseteq submitted' /\ flags' = WithBadge(c)),
               \A v \in Workers : task'[v].step \in Writes => task'[v].checks \subseteq submitted'
        PROVE  BadgeInv'
    <2>1. CASE flags' = flags
      BY <1>c, <1>d, <1>e, <2>1 DEF BadgeInv, BadgeEarned
    <2>2. ASSUME NEW c \in SUBSET Checks, c \subseteq submitted', flags' = WithBadge(c) PROVE BadgeInv'
      <3>1. flags' \cap Checks = c /\ ("verified" \in flags' <=> Checks \subseteq c)
        BY <2>2, BadgeShape
      <3>2. Checks \subseteq c <=> Checks \subseteq flags'
        BY <3>1
      <3> QED
        BY <1>e, <2>2, <3>1, <3>2 DEF BadgeInv, BadgeEarned
    <2> QED
      BY <1>e, <2>1, <2>2
  <1>f. \A t : Proceed(w, t) => /\ task'[w] = t
                                /\ \A v \in Workers : v # w => task'[v] = task[v]
    BY <1>a DEF Proceed
  <1>1. CASE RequestProfile(w)
    BY <1>1, <1>b, <1>d, <1>e, <1>f DEF RequestProfile, profileVars
  <1>2. CASE CopyAccount(w)
    BY <1>2, <1>b, <1>d, <1>e, <1>f DEF CopyAccount
  <1>3. ASSUME NEW checks \in SUBSET Checks, NEW list \in Lists, CreateProfile(w, checks, list)
        PROVE  BadgeInv'
    <2>1. \A v \in Workers : task'[v].step \in Writes => task'[v].checks \subseteq submitted'
      BY <1>3, <1>b, <1>d, <1>f DEF CreateProfile, Idle
    <2>2. flags' = flags \/ (checks \subseteq submitted' /\ flags' = WithBadge(checks))
      BY <1>3 DEF CreateProfile
    <2> QED
      BY <1>e, <2>1, <2>2
  <1>4. ASSUME NEW done \in SUBSET Checks, NEW undone \in SUBSET Checks, RequestUpdate(w, done, undone)
        PROVE  BadgeInv'
    <2>1. Merged(done, undone) \subseteq submitted'
      BY <1>4, <1>c DEF Merged, RequestUpdate
    <2>2. \A v \in Workers : task'[v].step \in Writes => task'[v].checks \subseteq submitted'
      BY <1>4, <1>b, <1>d, <1>f, <2>1 DEF RequestUpdate
    <2> QED
      BY <1>4, <1>e, <2>2 DEF RequestUpdate
  <1>5. CASE UpdateProfile(w)
    <2>1. task[w].checks \in SUBSET Checks /\ task[w].checks \subseteq submitted'
      BY <1>5, <1>a, <1>b, <1>d, TaskShape DEF UpdateProfile, At
    <2>2. \A v \in Workers : task'[v].step \in Writes => task'[v].checks \subseteq submitted'
      BY <1>5, <1>b, <1>d, <1>f DEF UpdateProfile, Idle
    <2> QED
      BY <1>5, <1>e, <2>1, <2>2 DEF UpdateProfile
  <1>6. CASE ReplaceServices(w)
    <2>1. task[w].checks \subseteq submitted'
      BY <1>6, <1>b, <1>d DEF ReplaceServices, At
    <2>2. \A v \in Workers : task'[v].step \in Writes => task'[v].checks \subseteq submitted'
      BY <1>6, <1>b, <1>d, <1>f, <2>1 DEF ReplaceServices
    <2> QED
      BY <1>6, <1>e, <2>2 DEF ReplaceServices, profileVars
  <1>7. ASSUME NEW list \in Lists, CommitUpdate(w, list) PROVE BadgeInv'
    <2>1. task[w].checks \in SUBSET Checks /\ task[w].checks \subseteq submitted'
      BY <1>7, <1>a, <1>b, <1>d, TaskShape DEF CommitUpdate, At
    <2>2. ASSUME NEW v \in Workers, task'[v].step \in Writes
          PROVE  task'[v].checks \subseteq submitted'
      <3>1. CASE (services \ task[w].seen) \cap list # {}
        BY <1>7, <1>b, <1>d, <1>f, <2>2, <3>1 DEF CommitUpdate, Idle
      <3>2. CASE (services \ task[w].seen) \cap list = {}
        <4>1. task'[v] = IF v = w THEN Idle
                         ELSE IF At(v, "commit_update")
                              THEN [step |-> "commit_update", checks |-> task[v].checks,
                                    seen |-> task[v].seen \ list]
                              ELSE task[v]
          BY <1>7, <3>2 DEF CommitUpdate
        <4>2. v # w
          BY <2>2, <4>1 DEF Idle
        <4>3. task[v].step \in Writes /\ task'[v].checks = task[v].checks
          BY <2>2, <4>1, <4>2 DEF At
        <4> QED
          BY <1>b, <1>d, <4>3
      <3> QED
        BY <3>1, <3>2
    <2>3. flags' = flags \/ flags' = WithBadge(task[w].checks)
      BY <1>7 DEF CommitUpdate
    <2> QED
      BY <1>e, <2>1, <2>2, <2>3
  <1> QED
    BY <1>1, <1>2, <1>3, <1>4, <1>5, <1>6, <1>7 DEF Profile

LEMMA BadgeNext == BadgeInv /\ [Next]_vars => BadgeInv'
PROOF
  <1> SUFFICES ASSUME BadgeInv, [Next]_vars PROVE BadgeInv'
    OBVIOUS
  <1>a. TypeOK'
    BY TypeNext DEF BadgeInv
  <1>1. ASSUME NEW w \in Workers, Profile(w) PROVE BadgeInv'
    BY <1>1, <1>a, BadgeProfile
  <1>2. ASSUME NEW w \in Workers,
               AccountAvatar(w) \/ ProfileAvatar(w) \/ DeleteFile(w) \/ Portfolio(w) \/ Abort(w)
        PROVE  BadgeInv'
    <2>1. task \in [Workers -> Tasks]
      BY DEF BadgeInv, TypeOK
    <2>2. /\ UNCHANGED <<flags, submitted>>
          /\ task'[w].step \notin {"update_profile", "replace_services", "commit_update"}
          /\ \A v \in Workers : v # w => task'[v] = task[v]
      BY <1>2, <2>1, BadgeElsewhere
    <2> QED
      BY <1>a, <2>2 DEF BadgeInv, BadgeEarned
  <1>3. CASE UNCHANGED vars
    BY <1>3, <1>a DEF vars, profileVars, BadgeInv, BadgeEarned
  <1> QED
    BY <1>1, <1>2, <1>3 DEF Next, Handle

\* Whatever stale checks the updates of a profile merge, the verified badge
\* agrees with the checks beside it, and none of them was never declared.
THEOREM BadgeCorrect == Spec => []BadgeEarned
PROOF
  <1>1. BadgeInv => BadgeEarned
    BY DEF BadgeInv
  <1> QED
    BY <1>1, BadgeInit, BadgeNext, PTL DEF Spec

----------------------------------------------------------------------------
(* The services *)

Updating == {"update_profile", "replace_services", "commit_update"}

MaybeLists == Lists \cup {{}}

\* own[w]: what is left of the list that worker w stored last.  A transaction has
\* seen all of such a list or nothing, and certainly that of its own worker.
Owned(own) ==
  /\ services = UNION {own[v] : v \in Workers}
  /\ \A u, v \in Workers : u # v => own[u] \cap own[v] = {}
  /\ \A w \in Workers : At(w, "commit_update") =>
       /\ own[w] \subseteq task[w].seen
       /\ \A v \in Workers : own[v] \subseteq task[w].seen \/ own[v] \cap task[w].seen = {}

ServicesInv ==
  /\ TypeOK
  /\ ~ HasProfile => services = {} /\ \A w \in Workers : task[w].step \notin Updating
  /\ \E own \in [Workers -> MaybeLists] : Owned(own)

LEMMA ServicesInit == Init => ServicesInv
PROOF
  <1> SUFFICES ASSUME Init PROVE ServicesInv
    OBVIOUS
  <1> DEFINE own == [w \in Workers |-> {}]
  <1>1. own \in [Workers -> MaybeLists]
    BY DEF MaybeLists
  <1>2. services = UNION {own[v] : v \in Workers}
    BY DEF Init
  <1>3. \A w \in Workers : task[w].step \notin Updating
    BY DEF Init, Updating, Idle
  <1>4. Owned(own)
    BY <1>2, <1>3 DEF Owned, Updating, At
  <1> QED
    BY <1>1, <1>3, <1>4, TypeInit DEF ServicesInv, Init

\* A step that leaves the services alone and opens no transaction.
LEMMA ServicesStutter ==
  ASSUME ServicesInv, TypeOK', UNCHANGED <<services, profile>>,
         \A v \in Workers : /\ At(v, "commit_update")' => task'[v] = task[v]
                            /\ task'[v].step \in Updating => HasProfile
  PROVE  ServicesInv'
PROOF
  <1>1. PICK own \in [Workers -> MaybeLists] : Owned(own)
    BY DEF ServicesInv
  <1>2. \A v \in Workers : At(v, "commit_update")' => At(v, "commit_update") /\ task'[v].seen = task[v].seen
    BY DEF At
  <1>3. Owned(own)'
    BY <1>1, <1>2 DEF Owned
  <1> QED
    BY <1>3 DEF ServicesInv, HasProfile

LEMMA ServicesProfile ==
  ASSUME ServicesInv, TypeOK', NEW w \in Workers, Profile(w)
  PROVE  ServicesInv'
PROOF
  <1>a. task \in [Workers -> Tasks] /\ task[w] \in Tasks
    BY DEF ServicesInv, TypeOK
  <1>b. \A t : Proceed(w, t) => task'[w] = t /\ \A v \in Workers : v # w => task'[v] = task[v]
    BY <1>a DEF Proceed
  <1>c. \A v \in Workers : task[v].step \in Updating => HasProfile
    BY DEF ServicesInv
  <1>d. PICK own \in [Workers -> MaybeLists] : Owned(own)
    BY DEF ServicesInv
  <1>1. CASE RequestProfile(w)
    BY <1>1, <1>b, <1>c, ServicesStutter DEF RequestProfile, profileVars, At, Updating
  <1>2. CASE CopyAccount(w)
    BY <1>2, <1>b, <1>c, ServicesStutter DEF CopyAccount, At, Updating
  <1>3. ASSUME NEW checks \in SUBSET Checks, NEW list \in Lists, CreateProfile(w, checks, list)
        PROVE  ServicesInv'
    <2>1. CASE HasProfile
      BY <1>3, <1>b, <1>c, <2>1, ServicesStutter DEF CreateProfile, At, Updating, Idle
    <2>2. CASE ~ HasProfile
      <3> DEFINE new == [v \in Workers |-> IF v = w THEN list ELSE {}]
      <3>1. new \in [Workers -> MaybeLists]
        BY DEF MaybeLists
      <3>2. HasProfile' /\ services' = list
        BY <1>3, <2>2 DEF CreateProfile, HasProfile
      <3>3. \A v \in Workers : ~ At(v, "commit_update")'
        BY <1>3, <1>b, <1>c, <2>2 DEF CreateProfile, At, Updating, Idle
      <3>4. UNION {new[v] : v \in Workers} = list
        <4>1. new[w] = list /\ \A v \in Workers : new[v] \subseteq list
          OBVIOUS
        <4> QED
          BY <4>1
      <3>5. Owned(new)'
        BY <3>2, <3>3, <3>4 DEF Owned
      <3> QED
        BY <3>1, <3>2, <3>5 DEF ServicesInv
    <2> QED
      BY <2>1, <2>2
  <1>4. ASSUME NEW done \in SUBSET Checks, NEW undone \in SUBSET Checks, RequestUpdate(w, done, undone)
        PROVE  ServicesInv'
    BY <1>4, <1>b, <1>c, ServicesStutter DEF RequestUpdate, At, Updating
  <1>5. CASE UpdateProfile(w)
    BY <1>5, <1>b, <1>c, ServicesStutter DEF UpdateProfile, At, Updating, Idle
  <1>6. CASE ReplaceServices(w)
    <2>1. /\ At(w, "commit_update")' /\ task'[w].seen = services /\ services' = services
          /\ HasProfile' /\ HasProfile
      BY <1>6, <1>b, <1>c DEF ReplaceServices, Replaced, At, Updating, profileVars, HasProfile
    <2>2. \A v \in Workers : v # w => task'[v] = task[v]
      BY <1>6, <1>b DEF ReplaceServices
    <2>3. \A v \in Workers : own[v] \subseteq services
      BY <1>d DEF Owned
    <2>4. Owned(own)'
      BY <1>d, <2>1, <2>2, <2>3 DEF Owned, At
    <2> QED
      BY <2>1, <2>4 DEF ServicesInv
  <1>7. ASSUME NEW list \in Lists, CommitUpdate(w, list) PROVE ServicesInv'
    <2> DEFINE kept == services \ task[w].seen
    <2>1. HasProfile /\ profile' = profile
      BY <1>7, <1>c DEF CommitUpdate, At, Updating
    <2>2. CASE kept \cap list # {}
      BY <1>7, <1>b, <2>1, <2>2, ServicesStutter DEF CommitUpdate, At, Updating, Idle
    <2>3. CASE kept \cap list = {}
      <3>0. [v \in Workers |-> IF v = w THEN list
                               ELSE IF own[v] \subseteq task[w].seen THEN {} ELSE own[v]]
              \in [Workers -> MaybeLists]
        BY DEF MaybeLists
      <3>1. PICK new \in [Workers -> MaybeLists] :
              \A v \in Workers :
                new[v] = IF v = w THEN list ELSE IF own[v] \subseteq task[w].seen THEN {} ELSE own[v]
        BY <3>0
      <3>2. services' = kept \cup list
        BY <1>7, <2>3 DEF CommitUpdate
      <3>3. \A v \in Workers : At(v, "commit_update")' =>
              /\ v # w /\ At(v, "commit_update")
              /\ task'[v].seen = task[v].seen \ list
        <4>1. \A v \in Workers :
                task'[v] = IF v = w THEN Idle
                           ELSE IF At(v, "commit_update")
                                THEN [step |-> "commit_update", checks |-> task[v].checks,
                                      seen |-> task[v].seen \ list]
                                ELSE task[v]
          BY <1>7, <2>3 DEF CommitUpdate
        <4>2. ASSUME NEW v \in Workers, At(v, "commit_update")'
              PROVE  v # w /\ At(v, "commit_update") /\ task'[v].seen = task[v].seen \ list
          <5>0. task'[w] = Idle
            BY <4>1
          <5>1. v # w
            BY <4>2, <5>0 DEF At, Idle
          <5>2. At(v, "commit_update")
            BY <4>1, <4>2, <5>1 DEF At
          <5>3. task'[v] = [step |-> "commit_update", checks |-> task[v].checks,
                            seen |-> task[v].seen \ list]
            BY <4>1, <5>1, <5>2
          <5> QED
            BY <5>1, <5>2, <5>3
        <4> QED
          BY <4>2
      <3>4. \A v \in Workers : v # w => new[v] \subseteq kept /\ new[v] \in {{}, own[v]}
        <4>1. At(w, "commit_update")
          BY <1>7 DEF CommitUpdate
        <4>2. \A v \in Workers : own[v] \subseteq services
          BY <1>d DEF Owned
        <4>3. \A v \in Workers : own[v] \subseteq task[w].seen \/ own[v] \cap task[w].seen = {}
          BY <1>d, <4>1 DEF Owned
        <4> QED
          BY <3>1, <4>2, <4>3
      <3>5. ASSUME NEW x \in kept PROVE \E v \in Workers : v # w /\ x \in new[v]
        <4>1. PICK v \in Workers : x \in own[v]
          BY <1>d, <3>5 DEF Owned
        <4>2. own[w] \subseteq task[w].seen
          BY <1>d, <1>7 DEF Owned, CommitUpdate
        <4>3. v # w /\ ~ (own[v] \subseteq task[w].seen)
          BY <3>5, <4>1, <4>2
        <4> QED
          BY <3>1, <4>1, <4>3
      <3>6. services' = UNION {new[v] : v \in Workers}
        <4>1. \A v \in Workers : new[v] \subseteq services'
          BY <3>1, <3>2, <3>4
        <4>2. \A x \in services' : \E v \in Workers : x \in new[v]
          BY <3>1, <3>2, <3>5
        <4> QED
          BY <4>1, <4>2
      <3>7. \A u, v \in Workers : u # v => new[u] \cap new[v] = {}
        <4>1. \A u, v \in Workers : u # v => own[u] \cap own[v] = {}
          BY <1>d DEF Owned
        <4> QED
          BY <2>3, <3>1, <3>4, <4>1
      <3>8. ASSUME NEW u \in Workers, At(u, "commit_update")'
            PROVE  /\ new[u] \subseteq task'[u].seen
                   /\ \A v \in Workers : new[v] \subseteq task'[u].seen \/ new[v] \cap task'[u].seen = {}
        <4>1. u # w /\ At(u, "commit_update") /\ task'[u].seen = task[u].seen \ list
          BY <3>3, <3>8
        <4>2. /\ own[u] \subseteq task[u].seen
              /\ \A v \in Workers : own[v] \subseteq task[u].seen \/ own[v] \cap task[u].seen = {}
          BY <1>d, <4>1 DEF Owned
        <4>3. \A v \in Workers : v # w => new[v] \cap list = {}
          BY <2>3, <3>4
        <4>4. new[w] = list
          BY <3>1
        <4> QED
          BY <3>4, <4>1, <4>2, <4>3, <4>4
      <3>9. Owned(new)'
        BY <3>6, <3>7, <3>8 DEF Owned
      <3> QED
        BY <2>1, <3>1, <3>9 DEF ServicesInv, HasProfile
    <2> QED
      BY <2>2, <2>3
  <1> QED
    BY <1>1, <1>2, <1>3, <1>4, <1>5, <1>6, <1>7 DEF Profile

LEMMA ServicesNext == ServicesInv /\ [Next]_vars => ServicesInv'
PROOF
  <1> SUFFICES ASSUME ServicesInv, [Next]_vars PROVE ServicesInv'
    OBVIOUS
  <1>a. TypeOK'
    BY TypeNext DEF ServicesInv
  <1>b. \A v \in Workers : task[v].step \in Updating => HasProfile
    BY DEF ServicesInv
  <1>1. ASSUME NEW w \in Workers, Profile(w) PROVE ServicesInv'
    BY <1>1, <1>a, ServicesProfile
  <1>2. ASSUME NEW w \in Workers,
               AccountAvatar(w) \/ ProfileAvatar(w) \/ DeleteFile(w) \/ Portfolio(w) \/ Abort(w)
        PROVE  ServicesInv'
    <2>1. task \in [Workers -> Tasks]
      BY DEF ServicesInv, TypeOK
    <2>2. /\ UNCHANGED <<services, profile>>
          /\ task'[w].step \notin Updating
          /\ \A v \in Workers : v # w => task'[v] = task[v]
      BY <1>2, <2>1, BadgeElsewhere DEF Updating
    <2> QED
      BY <1>a, <1>b, <2>2, ServicesStutter DEF At, Updating
  <1>3. CASE UNCHANGED vars
    BY <1>3, <1>a, <1>b, ServicesStutter DEF vars, profileVars, At
  <1> QED
    BY <1>1, <1>2, <1>3 DEF Next, Handle

\* The services of a profile are never more than one list for each handler that
\* may overlap, and these lists are whole.
THEOREM ServicesCorrect == Spec => []FewLists
PROOF
  <1>1. ASSUME ServicesInv PROVE FewLists
    <2>1. PICK own \in [Workers -> MaybeLists] : Owned(own)
      BY <1>1 DEF ServicesInv
    <2> DEFINE all == {own[v] : v \in Workers}
               given == all \ {{}}
    <2>2. own \in Surjection(Workers, all)
      BY <2>1 DEF Surjection
    <2>3. IsFiniteSet(all) /\ Cardinality(all) <= Cardinality(Workers)
      BY <2>2, WorkersAssumption, FS_Surjection
    <2>4. /\ IsFiniteSet(given) /\ Cardinality(given) <= Cardinality(all)
      BY <2>3, FS_Subset
    <2>5. given \in SUBSET Lists
      BY <2>1 DEF MaybeLists
    <2>6. services = UNION given
      <3>1. services = UNION all
        BY <2>1 DEF Owned
      <3> QED
        BY <3>1
    <2>7. Cardinality(given) <= Cardinality(Workers)
      BY <2>3, <2>4, WorkersAssumption, FS_CardinalityType
    <2> QED
      BY <2>5, <2>6, <2>7 DEF FewLists
  <1> QED
    BY <1>1, ServicesInit, ServicesNext, PTL DEF Spec

----------------------------------------------------------------------------
(* The files *)

\* Handlers that hold a file no row names yet, that are about to delete one, and
\* that have read an avatar they will replace.
HasNew(t) == t.step \in Pending \cup {"insert_photo"}
HasDoomed(t) == t.step = "delete_file"
HasOldAccount(t) == t.step = "set_account"
HasOldProfile(t) == t.step \in {"save_avatar", "set_profile"}
HasOld(t) == HasOldAccount(t) \/ HasOldProfile(t)

\* A new file is known to its handler only.
NewApart ==
  \A w \in Workers : HasNew(task[w]) =>
    /\ file[task[w].file] = "stored"
    /\ task[w].file \notin {accountAvatar, profileAvatar} \cup photos \cup copied
    /\ \A v \in Workers :
         /\ v # w /\ HasNew(task[v]) => task[v].file # task[w].file
         /\ HasDoomed(task[v]) => task[v].file # task[w].file
         /\ HasOld(task[v]) => task[v].old # task[w].file

\* A photo is no avatar and nobody deletes it.
PhotosApart ==
  \A f \in photos :
    /\ file[f] = "stored"
    /\ f \notin {accountAvatar, profileAvatar} \cup copied
    /\ \A v \in Workers : /\ HasDoomed(task[v]) => task[v].file # f
                          /\ HasOld(task[v]) => task[v].old # f

\* An avatar that was not copied is of one side only, and nobody deletes it.
AccountApart ==
  accountAvatar \in Files \ copied =>
    /\ file[accountAvatar] = "stored"
    /\ profileAvatar # accountAvatar
    /\ \A v \in Workers : /\ HasDoomed(task[v]) => task[v].file # accountAvatar
                          /\ HasOldProfile(task[v]) => task[v].old # accountAvatar

ProfileApart ==
  profileAvatar \in Files \ copied =>
    /\ file[profileAvatar] = "stored"
    /\ profileAvatar # accountAvatar
    /\ \A v \in Workers : /\ HasDoomed(task[v]) => task[v].file # profileAvatar
                          /\ HasOldAccount(task[v]) => task[v].old # profileAvatar

OldApart ==
  \A u, v \in Workers :
    HasOldAccount(task[u]) /\ HasOldProfile(task[v]) /\ task[u].old \in Files \ copied =>
      task[v].old # task[u].old

\* A profile in flight has an avatar that is on record as copied.
CopiesKnown == \A w \in Workers : At(w, "create_profile") => task[w].avatar \in copied \cup {NoFile}

\* A name that was never drawn is nowhere.
NamesUsed ==
  \A f \in Files : file[f] = "unused" =>
    /\ f \notin {accountAvatar, profileAvatar} \cup copied
    /\ \A v \in Workers : /\ HasDoomed(task[v]) => task[v].file # f
                          /\ HasOld(task[v]) => task[v].old # f

FileInv ==
  /\ TypeOK
  /\ NewApart /\ PhotosApart
  /\ AccountApart /\ ProfileApart /\ OldApart
  /\ CopiesKnown /\ NamesUsed

LEMMA FileInit == Init => FileInv
PROOF
  <1> SUFFICES ASSUME Init PROVE FileInv
    OBVIOUS
  <1>1. \A w \in Workers : task[w].step = "idle"
    BY DEF Init, Idle
  <1> QED
    BY <1>1, TypeInit, FilesAssumption
    DEF Init, FileInv, NewApart, PhotosApart, AccountApart, ProfileApart, OldApart, CopiesKnown,
        NamesUsed, HasNew, HasDoomed, HasOldAccount, HasOldProfile, HasOld, Pending, At

LEMMA FileAccount ==
  ASSUME FileInv, TypeOK', NEW w \in Workers, AccountAvatar(w)
  PROVE  FileInv'
PROOF
  <1> USE DEF FileInv, NewApart, PhotosApart, AccountApart, ProfileApart, OldApart, CopiesKnown,
          NamesUsed, HasNew, HasDoomed, HasOldAccount, HasOldProfile, HasOld, Pending, At
  <1>a. task \in [Workers -> Tasks] /\ task[w] \in Tasks /\ file \in [Files -> {"unused", "stored", "deleted"}]
    BY DEF TypeOK
  <1>b. \A t : Proceed(w, t) => task'[w] = t /\ \A v \in Workers : v # w => task'[v] = task[v]
    BY <1>a DEF Proceed
  <1>1. ASSUME NEW f \in Files, SaveAccountAvatar(w, f) PROVE FileInv'
    <2>1. /\ task'[w] = [step |-> "read_account", file |-> f]
          /\ \A v \in Workers : v # w => task'[v] = task[v]
      BY <1>1, <1>b DEF SaveAccountAvatar
    <2>2. /\ file[f] = "unused" /\ file'[f] = "stored"
          /\ \A g \in Files : g # f => file'[g] = file[g]
      BY <1>1, <1>a DEF SaveAccountAvatar, Save
    <2>3. UNCHANGED <<accountAvatar, profileAvatar, photos, copied>>
      BY <1>1 DEF SaveAccountAvatar, avatarVars, profileVars
    <2>4. NewApart'
      BY <1>a, <2>1, <2>2, <2>3, TaskShape DEF TypeOK
    <2>5. PhotosApart' /\ CopiesKnown'
      BY <1>a, <2>1, <2>2, <2>3, TaskShape DEF TypeOK
    <2>6. AccountApart' /\ ProfileApart' /\ OldApart'
      BY <1>a, <2>1, <2>2, <2>3, TaskShape DEF TypeOK
    <2>7. NamesUsed'
      BY <1>a, <2>1, <2>2, <2>3, TaskShape DEF TypeOK
    <2> QED
      BY <2>4, <2>5, <2>6, <2>7
  <1>2. CASE ReadAccountAvatar(w)
    <2>1. /\ task'[w] = [step |-> "set_account", file |-> task[w].file, old |-> accountAvatar]
          /\ \A v \in Workers : v # w => task'[v] = task[v]
      BY <1>2, <1>b DEF ReadAccountAvatar
    <2>2. UNCHANGED <<accountAvatar, profileAvatar, photos, copied, file>>
      BY <1>2 DEF ReadAccountAvatar, avatarVars, profileVars
    <2>3. task[w].step = "read_account" /\ task[w].file \in Files
      BY <1>2, <1>a, TaskShape DEF ReadAccountAvatar
    <2>4. NewApart'
      BY <1>a, <2>1, <2>2, <2>3, TaskShape DEF TypeOK
    <2>5. PhotosApart' /\ CopiesKnown'
      BY <1>a, <2>1, <2>2, <2>3, TaskShape DEF TypeOK
    <2>6. AccountApart' /\ ProfileApart' /\ OldApart'
      BY <1>a, <2>1, <2>2, <2>3, TaskShape DEF TypeOK
    <2>7. NamesUsed'
      BY <1>a, <2>1, <2>2, <2>3, TaskShape DEF TypeOK
    <2> QED
      BY <2>4, <2>5, <2>6, <2>7
  <1>3. CASE SetAccountAvatar(w)
    <2>1. \A v \in Workers : v # w => task'[v] = task[v]
      BY <1>3, <1>b DEF SetAccountAvatar, DeletePrevious
    <2>2. UNCHANGED <<profileAvatar, photos, copied, file>> /\ accountAvatar' = task[w].file
      BY <1>3 DEF SetAccountAvatar, profileVars
    <2>3. task[w].step = "set_account" /\ task[w].file \in Files /\ task[w].old \in MaybeFile
      BY <1>3, <1>a, TaskShape DEF SetAccountAvatar
    <2>4. \/ task'[w].step = "idle"
          \/ /\ task'[w] = [step |-> "delete_file", file |-> task[w].old]
             /\ task[w].old \in Files
      BY <1>3, <1>b, <2>3 DEF SetAccountAvatar, DeletePrevious, MaybeFile, Idle
    <2>5. NewApart'
      BY <1>a, <2>1, <2>2, <2>3, <2>4, TaskShape DEF TypeOK
    <2>6. PhotosApart' /\ CopiesKnown'
      BY <1>a, <2>1, <2>2, <2>3, <2>4, TaskShape DEF TypeOK
    <2>7. AccountApart' /\ ProfileApart' /\ OldApart'
      BY <1>a, <2>1, <2>2, <2>3, <2>4, TaskShape DEF TypeOK
    <2>8. NamesUsed'
      BY <1>a, <2>1, <2>2, <2>3, <2>4, TaskShape DEF TypeOK
    <2> QED
      BY <2>5, <2>6, <2>7, <2>8
  <1> QED
    BY <1>1, <1>2, <1>3 DEF AccountAvatar

\* What the other steps of a handler leave alone.
LEMMA FileQuiet ==
  ASSUME FileInv, TypeOK', UNCHANGED <<avatarVars, photos, copied, file>>,
         \A v \in Workers :
           \/ task'[v] = task[v]
           \/ ~ HasNew(task'[v]) /\ ~ HasDoomed(task'[v]) /\ ~ HasOld(task'[v]) /\ ~ At(v, "create_profile")'
  PROVE  FileInv'
PROOF
  <1> USE DEF FileInv, NewApart, PhotosApart, AccountApart, ProfileApart, OldApart, CopiesKnown,
          NamesUsed, HasOld, At
  <1>1. UNCHANGED <<accountAvatar, profileAvatar, photos, copied, file>>
    BY DEF avatarVars
  <1>2. NewApart'
    BY <1>1
  <1>3. PhotosApart' /\ CopiesKnown'
    BY <1>1
  <1>4. AccountApart' /\ ProfileApart' /\ OldApart'
    BY <1>1
  <1>5. NamesUsed'
    BY <1>1
  <1> QED
    BY <1>2, <1>3, <1>4, <1>5

LEMMA FileProfileAvatar ==
  ASSUME FileInv, TypeOK', NEW w \in Workers, ProfileAvatar(w)
  PROVE  FileInv'
PROOF
  <1> USE DEF FileInv, NewApart, PhotosApart, AccountApart, ProfileApart, OldApart, CopiesKnown,
          NamesUsed, HasNew, HasDoomed, HasOldAccount, HasOldProfile, HasOld, Pending, At
  <1>a. task \in [Workers -> Tasks] /\ task[w] \in Tasks /\ file \in [Files -> {"unused", "stored", "deleted"}]
    BY DEF TypeOK
  <1>b. \A t : Proceed(w, t) => task'[w] = t /\ \A v \in Workers : v # w => task'[v] = task[v]
    BY <1>a DEF Proceed
  <1>1. CASE ReadProfileAvatar(w)
    <2>1. /\ task'[w] = [step |-> "save_avatar", old |-> profileAvatar]
          /\ \A v \in Workers : v # w => task'[v] = task[v]
      BY <1>1, <1>b DEF ReadProfileAvatar
    <2>2. UNCHANGED <<accountAvatar, profileAvatar, photos, copied, file>>
      BY <1>1 DEF ReadProfileAvatar, avatarVars, profileVars
    <2>3. NewApart'
      BY <1>a, <2>1, <2>2, TaskShape DEF TypeOK
    <2>4. PhotosApart' /\ CopiesKnown'
      BY <1>a, <2>1, <2>2, TaskShape DEF TypeOK
    <2>5. AccountApart' /\ ProfileApart' /\ OldApart'
      BY <1>a, <2>1, <2>2, TaskShape DEF TypeOK
    <2>6. NamesUsed'
      BY <1>a, <2>1, <2>2, TaskShape DEF TypeOK
    <2> QED
      BY <2>3, <2>4, <2>5, <2>6
  <1>2. ASSUME NEW f \in Files, SaveProfileAvatar(w, f) PROVE FileInv'
    <2>1. /\ task'[w] = [step |-> "set_profile", file |-> f, old |-> task[w].old]
          /\ \A v \in Workers : v # w => task'[v] = task[v]
      BY <1>2, <1>b DEF SaveProfileAvatar
    <2>2. /\ file[f] = "unused" /\ file'[f] = "stored"
          /\ \A g \in Files : g # f => file'[g] = file[g]
      BY <1>2, <1>a DEF SaveProfileAvatar, Save
    <2>3. UNCHANGED <<accountAvatar, profileAvatar, photos, copied>>
      BY <1>2 DEF SaveProfileAvatar, avatarVars, profileVars
    <2>4. task[w].step = "save_avatar" /\ task[w].old \in MaybeFile
      BY <1>2, <1>a, TaskShape DEF SaveProfileAvatar
    <2>5. NewApart'
      BY <1>a, <2>1, <2>2, <2>3, <2>4, TaskShape DEF TypeOK
    <2>6. PhotosApart' /\ CopiesKnown'
      BY <1>a, <2>1, <2>2, <2>3, <2>4, TaskShape DEF TypeOK
    <2>7. AccountApart' /\ ProfileApart' /\ OldApart'
      BY <1>a, <2>1, <2>2, <2>3, <2>4, TaskShape DEF TypeOK
    <2>8. NamesUsed'
      BY <1>a, <2>1, <2>2, <2>3, <2>4, TaskShape DEF TypeOK
    <2> QED
      BY <2>5, <2>6, <2>7, <2>8
  <1>3. CASE SetProfileAvatar(w)
    <2>1. \A v \in Workers : v # w => task'[v] = task[v]
      BY <1>3, <1>b DEF SetProfileAvatar, DeletePrevious
    <2>2. UNCHANGED <<accountAvatar, photos, copied, file>> /\ profileAvatar' = task[w].file
      BY <1>3 DEF SetProfileAvatar, profileVars
    <2>3. task[w].step = "set_profile" /\ task[w].file \in Files /\ task[w].old \in MaybeFile
      BY <1>3, <1>a, TaskShape DEF SetProfileAvatar
    <2>4. \/ task'[w].step = "idle"
          \/ /\ task'[w] = [step |-> "delete_file", file |-> task[w].old]
             /\ task[w].old \in Files
      BY <1>3, <1>b, <2>3 DEF SetProfileAvatar, DeletePrevious, MaybeFile, Idle
    <2>5. NewApart'
      BY <1>a, <2>1, <2>2, <2>3, <2>4, TaskShape DEF TypeOK
    <2>6. PhotosApart' /\ CopiesKnown'
      BY <1>a, <2>1, <2>2, <2>3, <2>4, TaskShape DEF TypeOK
    <2>7. AccountApart' /\ ProfileApart' /\ OldApart'
      BY <1>a, <2>1, <2>2, <2>3, <2>4, TaskShape DEF TypeOK
    <2>8. NamesUsed'
      BY <1>a, <2>1, <2>2, <2>3, <2>4, TaskShape DEF TypeOK
    <2> QED
      BY <2>5, <2>6, <2>7, <2>8
  <1> QED
    BY <1>1, <1>2, <1>3 DEF ProfileAvatar

LEMMA FileDelete ==
  ASSUME FileInv, TypeOK', NEW w \in Workers, DeleteFile(w)
  PROVE  FileInv'
PROOF
  <1> USE DEF FileInv, NewApart, PhotosApart, AccountApart, ProfileApart, OldApart, CopiesKnown,
          NamesUsed, HasNew, HasDoomed, HasOldAccount, HasOldProfile, HasOld, Pending, At
  <1>a. task \in [Workers -> Tasks] /\ task[w] \in Tasks /\ file \in [Files -> {"unused", "stored", "deleted"}]
    BY DEF TypeOK
  <1>b. \A t : Proceed(w, t) => task'[w] = t /\ \A v \in Workers : v # w => task'[v] = task[v]
    BY <1>a DEF Proceed
  <1>1. task'[w].step = "idle" /\ \A v \in Workers : v # w => task'[v] = task[v]
    BY <1>b DEF DeleteFile, Idle
  <1>2. UNCHANGED <<accountAvatar, profileAvatar, photos, copied>>
    BY DEF DeleteFile, avatarVars, profileVars
  <1>3. task[w].step = "delete_file" /\ task[w].file \in Files
    BY <1>a, TaskShape DEF DeleteFile
  <1>4. /\ \A g \in Files : g # task[w].file => file'[g] = file[g]
        /\ file'[task[w].file] \in {file[task[w].file], "deleted"}
    BY <1>a, <1>3 DEF DeleteFile, Delete
  <1>5. NewApart'
    BY <1>a, <1>1, <1>2, <1>3, <1>4, TaskShape DEF TypeOK
  <1>6. PhotosApart' /\ CopiesKnown'
    BY <1>a, <1>1, <1>2, <1>3, <1>4, TaskShape DEF TypeOK
  <1>7. AccountApart' /\ ProfileApart' /\ OldApart'
    BY <1>a, <1>1, <1>2, <1>3, <1>4, TaskShape DEF TypeOK
  <1>8. NamesUsed'
    BY <1>a, <1>1, <1>2, <1>3, <1>4, TaskShape DEF TypeOK
  <1> QED
    BY <1>5, <1>6, <1>7, <1>8

LEMMA FileProfile ==
  ASSUME FileInv, TypeOK', NEW w \in Workers, Profile(w)
  PROVE  FileInv'
PROOF
  <1> USE DEF FileInv, NewApart, PhotosApart, AccountApart, ProfileApart, OldApart, CopiesKnown,
          NamesUsed, HasNew, HasDoomed, HasOldAccount, HasOldProfile, HasOld, Pending, At
  <1>a. task \in [Workers -> Tasks] /\ task[w] \in Tasks /\ file \in [Files -> {"unused", "stored", "deleted"}]
    BY DEF TypeOK
  <1>b. \A t : Proceed(w, t) => task'[w] = t /\ \A v \in Workers : v # w => task'[v] = task[v]
    BY <1>a DEF Proceed
  <1>1. CASE RequestProfile(w)
    BY <1>1, <1>b, FileQuiet DEF RequestProfile, profileVars
  <1>2. CASE CopyAccount(w)
    <2>1. /\ task'[w] = [step |-> "create_profile", avatar |-> accountAvatar]
          /\ \A v \in Workers : v # w => task'[v] = task[v]
      BY <1>2, <1>b DEF CopyAccount
    <2>2. UNCHANGED <<accountAvatar, profileAvatar, photos, file>>
      BY <1>2 DEF CopyAccount, avatarVars
    <2>3. copied' = copied \cup ({accountAvatar} \cap Files) /\ accountAvatar \in Files \cup {NoFile}
      BY <1>2 DEF CopyAccount, TypeOK, MaybeFile
    <2>4. NewApart'
      BY <1>a, <2>1, <2>2, <2>3, TaskShape DEF TypeOK
    <2>5. PhotosApart' /\ CopiesKnown'
      BY <1>a, <2>1, <2>2, <2>3, TaskShape DEF TypeOK
    <2>6. AccountApart' /\ ProfileApart' /\ OldApart'
      BY <1>a, <2>1, <2>2, <2>3, TaskShape DEF TypeOK
    <2>7. NamesUsed'
      BY <1>a, <2>1, <2>2, <2>3, TaskShape DEF TypeOK
    <2> QED
      BY <2>4, <2>5, <2>6, <2>7
  <1>3. ASSUME NEW checks \in SUBSET Checks, NEW list \in Lists, CreateProfile(w, checks, list)
        PROVE  FileInv'
    <2>1. task'[w].step = "idle" /\ \A v \in Workers : v # w => task'[v] = task[v]
      BY <1>3, <1>b DEF CreateProfile, Idle
    <2>2. /\ UNCHANGED <<accountAvatar, photos, copied, file>>
          /\ profileAvatar' \in {profileAvatar, task[w].avatar}
      BY <1>3 DEF CreateProfile
    <2>3. task[w].avatar \in copied \cup {NoFile}
      BY <1>3 DEF CreateProfile
    <2>4. NewApart'
      BY <1>a, <2>1, <2>2, <2>3, FilesAssumption, TaskShape DEF TypeOK
    <2>5. PhotosApart' /\ CopiesKnown'
      BY <1>a, <2>1, <2>2, <2>3, FilesAssumption, TaskShape DEF TypeOK
    <2>6. AccountApart' /\ ProfileApart' /\ OldApart'
      BY <1>a, <2>1, <2>2, <2>3, FilesAssumption, TaskShape DEF TypeOK
    <2>7. NamesUsed'
      BY <1>a, <2>1, <2>2, <2>3, FilesAssumption, TaskShape DEF TypeOK
    <2> QED
      BY <2>4, <2>5, <2>6, <2>7
  <1>4. ASSUME NEW done \in SUBSET Checks, NEW undone \in SUBSET Checks, RequestUpdate(w, done, undone)
        PROVE  FileInv'
    BY <1>4, <1>b, FileQuiet DEF RequestUpdate
  <1>5. CASE UpdateProfile(w)
    BY <1>5, <1>b, FileQuiet DEF UpdateProfile, Idle
  <1>6. CASE ReplaceServices(w)
    BY <1>6, <1>b, FileQuiet DEF ReplaceServices, profileVars
  <1>7. ASSUME NEW list \in Lists, CommitUpdate(w, list) PROVE FileInv'
    <2>1. ASSUME NEW v \in Workers
          PROVE  task'[v] = task[v] \/ task'[v].step \in {"idle", "commit_update"}
      <3>1. CASE (services \ task[w].seen) \cap list # {}
        BY <1>7, <1>b, <3>1 DEF CommitUpdate, Idle
      <3>2. CASE (services \ task[w].seen) \cap list = {}
        BY <1>7, <3>2 DEF CommitUpdate, Idle
      <3> QED
        BY <3>1, <3>2
    <2>2. UNCHANGED <<avatarVars, photos, copied, file>>
      BY <1>7 DEF CommitUpdate
    <2> QED
      BY <2>1, <2>2, FileQuiet
  <1> QED
    BY <1>1, <1>2, <1>3, <1>4, <1>5, <1>6, <1>7 DEF Profile

LEMMA FilePortfolio ==
  ASSUME FileInv, TypeOK', NEW w \in Workers, Portfolio(w) \/ Abort(w)
  PROVE  FileInv'
PROOF
  <1> USE DEF FileInv, NewApart, PhotosApart, AccountApart, ProfileApart, OldApart, CopiesKnown,
          NamesUsed, HasNew, HasDoomed, HasOldAccount, HasOldProfile, HasOld, Pending, At
  <1>a. task \in [Workers -> Tasks] /\ task[w] \in Tasks /\ file \in [Files -> {"unused", "stored", "deleted"}]
    BY DEF TypeOK
  <1>b. \A t : Proceed(w, t) => task'[w] = t /\ \A v \in Workers : v # w => task'[v] = task[v]
    BY <1>a DEF Proceed
  <1>1. ASSUME NEW n \in 1..MaxUpload, CountPhotos(w, n) PROVE FileInv'
    BY <1>1, <1>b, FileQuiet DEF CountPhotos, profileVars
  <1>2. ASSUME NEW f \in Files, SavePhoto(w, f) PROVE FileInv'
    <2>1. /\ task'[w] = [step |-> "insert_photo", file |-> f, left |-> task[w].left]
          /\ \A v \in Workers : v # w => task'[v] = task[v]
      BY <1>2, <1>b DEF SavePhoto
    <2>2. /\ file[f] = "unused" /\ file'[f] = "stored"
          /\ \A g \in Files : g # f => file'[g] = file[g]
      BY <1>2, <1>a DEF SavePhoto, Save
    <2>3. UNCHANGED <<accountAvatar, profileAvatar, photos, copied>>
      BY <1>2 DEF SavePhoto, avatarVars, profileVars
    <2>4. NewApart'
      BY <1>a, <2>1, <2>2, <2>3, TaskShape DEF TypeOK
    <2>5. PhotosApart' /\ CopiesKnown'
      BY <1>a, <2>1, <2>2, <2>3, TaskShape DEF TypeOK
    <2>6. AccountApart' /\ ProfileApart' /\ OldApart'
      BY <1>a, <2>1, <2>2, <2>3, TaskShape DEF TypeOK
    <2>7. NamesUsed'
      BY <1>a, <2>1, <2>2, <2>3, TaskShape DEF TypeOK
    <2> QED
      BY <2>4, <2>5, <2>6, <2>7
  <1>3. ASSUME NEW f \in Files, ReadPhoto(w, f) PROVE FileInv'
    BY <1>3, <1>b, FileQuiet DEF ReadPhoto, profileVars
  <1>4. CASE InsertPhoto(w)
    <2>1. task'[w].step \in {"idle", "save_photo"} /\ \A v \in Workers : v # w => task'[v] = task[v]
      BY <1>4, <1>b DEF InsertPhoto, Idle
    <2>2. UNCHANGED <<accountAvatar, profileAvatar, copied, file>> /\ photos' = photos \cup {task[w].file}
      BY <1>4 DEF InsertPhoto, avatarVars, profileVars
    <2>3. task[w].step = "insert_photo" /\ task[w].file \in Files
      BY <1>4, <1>a, TaskShape DEF InsertPhoto
    <2>4. NewApart'
      BY <1>a, <2>1, <2>2, <2>3, TaskShape DEF TypeOK
    <2>5. PhotosApart' /\ CopiesKnown'
      BY <1>a, <2>1, <2>2, <2>3, TaskShape DEF TypeOK
    <2>6. AccountApart' /\ ProfileApart' /\ OldApart'
      BY <1>a, <2>1, <2>2, <2>3, TaskShape DEF TypeOK
    <2>7. NamesUsed'
      BY <1>a, <2>1, <2>2, <2>3, TaskShape DEF TypeOK
    <2> QED
      BY <2>4, <2>5, <2>6, <2>7
  <1>5. CASE RemovePhoto(w)
    <2>1. \A v \in Workers : v # w => task'[v] = task[v]
      BY <1>5, <1>b DEF RemovePhoto, RemoveRow
    <2>2. UNCHANGED <<accountAvatar, profileAvatar, copied, file>> /\ photos' = photos \ {task[w].file}
      BY <1>5 DEF RemovePhoto, RemoveRow, avatarVars, profileVars
    <2>3. task[w].step = "remove_photo" /\ task[w].file \in Files
      BY <1>5, <1>a, TaskShape DEF RemovePhoto
    <2>4. \/ task'[w].step = "idle"
          \/ task'[w] = [step |-> "delete_file", file |-> task[w].file] /\ task[w].file \in photos
      BY <1>5, <1>b DEF RemovePhoto, RemoveRow, Idle
    <2>5. NewApart'
      BY <1>a, <2>1, <2>2, <2>3, <2>4, TaskShape DEF TypeOK
    <2>6. PhotosApart' /\ CopiesKnown'
      BY <1>a, <2>1, <2>2, <2>3, <2>4, TaskShape DEF TypeOK
    <2>7. AccountApart' /\ ProfileApart' /\ OldApart'
      BY <1>a, <2>1, <2>2, <2>3, <2>4, TaskShape DEF TypeOK
    <2>8. NamesUsed'
      BY <1>a, <2>1, <2>2, <2>3, <2>4, TaskShape DEF TypeOK
    <2> QED
      BY <2>5, <2>6, <2>7, <2>8
  <1>6. CASE Abort(w)
    BY <1>6, <1>b, FileQuiet DEF Abort, profileVars, Idle
  <1> QED
    BY <1>1, <1>2, <1>3, <1>4, <1>5, <1>6 DEF Portfolio

LEMMA FileNext == FileInv /\ [Next]_vars => FileInv'
PROOF
  <1> SUFFICES ASSUME FileInv, [Next]_vars PROVE FileInv'
    OBVIOUS
  <1>a. TypeOK'
    BY TypeNext DEF FileInv
  <1>1. CASE Next
    BY <1>1, <1>a, FileAccount, FileProfileAvatar, FileDelete, FileProfile, FilePortfolio DEF Next, Handle
  <1>2. CASE UNCHANGED vars
    BY <1>2, <1>a, FileQuiet DEF vars, profileVars
  <1> QED
    BY <1>1, <1>2

\* However uploads, removals and stops overlap, every photo that is shown has its
\* file: addPortfolioPhotos stores it first, removePortfolioPhoto deletes it last.
THEOREM PhotosCorrect == Spec => []PhotosHaveFiles
PROOF
  <1>1. FileInv => PhotosHaveFiles
    BY DEF FileInv, PhotosApart, PhotosHaveFiles
  <1> QED
    BY <1>1, FileInit, FileNext, PTL DEF Spec

\* And so has every avatar, unless the account and the profile share it since
\* ProviderProfileService.create copied it.
THEOREM AvatarsCorrect == Spec => []AvatarsHaveFiles
PROOF
  <1>1. FileInv => AvatarsHaveFiles
    BY DEF FileInv, AccountApart, ProfileApart, AvatarsHaveFiles
  <1> QED
    BY <1>1, FileInit, FileNext, PTL DEF Spec

----------------------------------------------------------------------------
(* The size of a portfolio *)

Uploading(v) == task[v].step \in {"save_photo", "insert_photo"}

\* One slot for each photo that a handler in flight may still insert.
Slots == {slot \in Workers \X (1..MaxUpload) :
            Uploading(slot[1]) /\ slot[2] <= task[slot[1]].left}

\* The photos that are there and those to come; the others of an upload that
\* has just been counted may fill the portfolio while it was not.
PhotosInv ==
  /\ IsFiniteSet(photos)
  /\ Cardinality(photos) + Cardinality(Slots)
       <= MAX_PORTFOLIO_PHOTOS + MaxUpload * (Cardinality(Workers) - 1)

\* At most MaxUpload slots for each worker.
LEMMA SlotCounts ==
  ASSUME NEW W \in SUBSET Workers
  PROVE  /\ IsFiniteSet(W \X (1..MaxUpload))
         /\ Cardinality(W) \in Nat
         /\ Cardinality(W \X (1..MaxUpload)) = Cardinality(W) * MaxUpload
         /\ \A S \in SUBSET (W \X (1..MaxUpload)) :
              /\ IsFiniteSet(S)
              /\ Cardinality(S) \in Nat
              /\ Cardinality(S) <= Cardinality(W) * MaxUpload
<1>1. IsFiniteSet(W) /\ Cardinality(W) \in Nat
  BY WorkersAssumption, FS_Subset, FS_CardinalityType
<1>2. IsFiniteSet(1..MaxUpload) /\ Cardinality(1..MaxUpload) = MaxUpload
  BY LimitsAssumption, FS_Interval
<1>3. /\ IsFiniteSet(W \X (1..MaxUpload))
      /\ Cardinality(W \X (1..MaxUpload)) = Cardinality(W) * MaxUpload
  BY <1>1, <1>2, FS_Product
<1> QED
  BY <1>1, <1>3, FS_Subset, FS_CardinalityType

\* Which actions give a handler photos to upload, or add one.
LEMMA PhotoSteps ==
  ASSUME TypeOK, NEW w \in Workers, Handle(w) \/ Abort(w)
  PROVE  \/ \E n \in 1..MaxUpload : CountPhotos(w, n)
         \/ \E f \in Files : SavePhoto(w, f)
         \/ InsertPhoto(w)
         \/ /\ photos' \subseteq photos
            /\ \A v \in Workers : Uploading(v)' => task'[v] = task[v]
<1> DEFINE Quiet == /\ photos' \subseteq photos
                    /\ \A v \in Workers : Uploading(v)' => task'[v] = task[v]
<1>0. ASSUME NEW t, Proceed(w, t), t.step \notin {"save_photo", "insert_photo"}, photos' \subseteq photos
      PROVE  Quiet
  BY <1>0 DEF Proceed, Uploading, TypeOK
<1>i. Idle.step \notin {"save_photo", "insert_photo"}
  BY DEF Idle
<1>1. CASE AccountAvatar(w)
  BY <1>0, <1>1, <1>i DEF AccountAvatar, SaveAccountAvatar, ReadAccountAvatar, SetAccountAvatar,
                          DeletePrevious
<1>2. CASE ProfileAvatar(w)
  BY <1>0, <1>2, <1>i DEF ProfileAvatar, ReadProfileAvatar, SaveProfileAvatar, SetProfileAvatar,
                          DeletePrevious
<1>3. CASE DeleteFile(w) \/ Abort(w)
  BY <1>0, <1>3, <1>i DEF DeleteFile, Abort
<1>4. ASSUME NEW list \in Lists, CommitUpdate(w, list) PROVE Quiet
  BY <1>4, <1>0, <1>i DEF CommitUpdate, Uploading, At, Idle, TypeOK
<1>5. CASE \/ RequestProfile(w) \/ CopyAccount(w)
           \/ \E checks \in SUBSET Checks, list \in Lists : CreateProfile(w, checks, list)
           \/ UpdateProfile(w) \/ ReplaceServices(w)
  BY <1>0, <1>5, <1>i DEF RequestProfile, CopyAccount, CreateProfile, UpdateProfile, ReplaceServices
<1>6. ASSUME NEW done, NEW undone, RequestUpdate(w, done, undone) PROVE Quiet
  BY <1>0, <1>6 DEF RequestUpdate
<1>7. CASE RemovePhoto(w) \/ \E f \in Files : ReadPhoto(w, f)
  BY <1>0, <1>7, <1>i DEF RemovePhoto, RemoveRow, ReadPhoto
<1> QED
  BY <1>1, <1>2, <1>3, <1>4, <1>5, <1>6, <1>7 DEF Handle, Profile, Portfolio

\* Fewer photos, no new slot: the bound stays.
LEMMA PhotosShrink ==
  ASSUME PhotosInv, photos' \subseteq photos, Slots' \subseteq Slots
  PROVE  PhotosInv'
<1>1. /\ Slots \in SUBSET (Workers \X (1..MaxUpload))
      /\ Cardinality(Workers) \in Nat
      /\ MAX_PORTFOLIO_PHOTOS \in Nat /\ MaxUpload \in Nat
  <2>1. Cardinality(Workers) \in Nat
    BY SlotCounts
  <2>2. Slots \subseteq Workers \X (1..MaxUpload)
    BY DEF Slots
  <2> QED
    BY <2>1, <2>2, LimitsAssumption
<1>2. IsFiniteSet(Slots) /\ Cardinality(Slots) \in Nat
  BY <1>1, SlotCounts
<1>3. Cardinality(Slots') \in Nat /\ Cardinality(Slots') <= Cardinality(Slots)
  BY <1>2, FS_Subset, FS_CardinalityType
<1>4. /\ IsFiniteSet(photos') /\ Cardinality(photos') \in Nat
      /\ Cardinality(photos) \in Nat /\ Cardinality(photos') <= Cardinality(photos)
  BY FS_Subset, FS_CardinalityType DEF PhotosInv
<1> DEFINE k == MAX_PORTFOLIO_PHOTOS + MaxUpload * (Cardinality(Workers) - 1)
<1>5. k \in Int
  BY <1>1
<1>6. Cardinality(photos) + Cardinality(Slots) <= k
  BY DEF PhotosInv
<1> HIDE DEF k
<1>7. Cardinality(photos') + Cardinality(Slots') <= k
  BY <1>2, <1>3, <1>4, <1>5, <1>6
<1> QED
  BY <1>4, <1>7 DEF PhotosInv, k

\* What CountPhotos checks leaves room for its own upload; the other handlers
\* may each have a whole one to go.
LEMMA PhotosCounted ==
  ASSUME TypeOK, PhotosInv, NEW w \in Workers, NEW n \in 1..MaxUpload, CountPhotos(w, n)
  PROVE  PhotosInv'
<1> DEFINE others == (Workers \ {w}) \X (1..MaxUpload)
           own == {w} \X (1..n)
<1>1. /\ photos' = photos
      /\ task'[w] = [step |-> "save_photo", left |-> n]
      /\ Cardinality(photos) + n <= MAX_PORTFOLIO_PHOTOS
  BY DEF CountPhotos, RoomFor, Proceed, TypeOK
<1>2. Slots' \subseteq others \cup own
  BY <1>1 DEF Slots, Uploading
<1>3. n \in Nat /\ MaxUpload \in Nat /\ MAX_PORTFOLIO_PHOTOS \in Nat
  BY LimitsAssumption
<1>4. IsFiniteSet(own) /\ Cardinality(own) = n
  <2>1. IsFiniteSet({w}) /\ Cardinality({w}) = 1
    BY FS_Singleton
  <2>2. IsFiniteSet(1..n) /\ Cardinality(1..n) = n
    BY <1>3, FS_Interval
  <2>3. IsFiniteSet(own) /\ Cardinality(own) = Cardinality({w}) * Cardinality(1..n)
    BY <2>1, <2>2, FS_Product
  <2> QED
    BY <1>3, <2>1, <2>2, <2>3
<1>5. /\ IsFiniteSet(others)
      /\ Cardinality(others) = (Cardinality(Workers) - 1) * MaxUpload
      /\ Cardinality(Workers) \in Nat
  <2>1. Cardinality(Workers \ {w}) = Cardinality(Workers) - 1
    BY WorkersAssumption, FS_RemoveElement
  <2> QED
    BY <2>1, SlotCounts, WorkersAssumption, FS_CardinalityType
<1>6. Cardinality(others) = MaxUpload * (Cardinality(Workers) - 1)
  BY <1>3, <1>5
<1> HIDE DEF others, own
<1>7. /\ IsFiniteSet(others \cup own)
      /\ Cardinality(others) \in Nat
      /\ Cardinality(others \cup own) <= Cardinality(others) + n
  <2>1. /\ IsFiniteSet(others \cup own)
        /\ Cardinality(others \cup own)
             = Cardinality(others) + Cardinality(own) - Cardinality(others \cap own)
    BY <1>4, <1>5, FS_Union
  <2>2. IsFiniteSet(others \cap own)
    BY <1>4, FS_Subset
  <2>3. Cardinality(others \cap own) \in Nat /\ Cardinality(others) \in Nat
    BY <1>5, <2>2, FS_CardinalityType
  <2> QED
    BY <1>3, <1>4, <2>1, <2>3
<1>8. /\ IsFiniteSet(Slots')
      /\ Cardinality(Slots') \in Nat
      /\ Cardinality(Slots') <= Cardinality(others \cup own)
      /\ Cardinality(others \cup own) \in Nat
  BY <1>2, <1>7, FS_Subset, FS_CardinalityType
<1>9. IsFiniteSet(photos) /\ Cardinality(photos) \in Nat
  BY FS_CardinalityType DEF PhotosInv
<1>10. Cardinality(photos) + Cardinality(Slots') <= MAX_PORTFOLIO_PHOTOS + Cardinality(others)
  BY <1>1, <1>3, <1>7, <1>8, <1>9
<1> QED
  BY <1>1, <1>6, <1>9, <1>10 DEF PhotosInv

\* An insert turns a slot into a photo.
LEMMA PhotosInserted ==
  ASSUME TypeOK, PhotosInv, NEW w \in Workers, InsertPhoto(w)
  PROVE  PhotosInv'
<1> DEFINE slot == <<w, task[w].left>>
           f == task[w].file
<1>1. task[w].left \in 1..MaxUpload
  BY TaskShape DEF InsertPhoto, At, TypeOK
<1>2. /\ photos' = photos \cup {f}
      /\ \A v \in Workers : v # w => task'[v] = task[v]
      /\ task'[w].step # "idle" => task'[w].left = task[w].left - 1
      /\ task'[w].step \in {"idle", "save_photo"}
  BY DEF InsertPhoto, Proceed, Idle, TypeOK
<1>3. slot \in Slots
  BY <1>1 DEF Slots, Uploading, InsertPhoto, At
<1>4. Slots' \subseteq Slots \ {slot}
  <2> SUFFICES ASSUME NEW v \in Workers, NEW i \in 1..MaxUpload, Uploading(v)', i <= task'[v].left
               PROVE  <<v, i>> \in Slots \ {slot}
    BY DEF Slots
  <2>1. CASE v = w
    <3>1. i <= task[w].left - 1
      BY <1>2, <2>1 DEF Uploading
    <3>2. i <= task[w].left /\ i # task[w].left
      BY <1>1, <3>1
    <3> QED
      BY <2>1, <3>2 DEF Slots, Uploading, InsertPhoto, At
  <2>2. CASE v # w
    BY <1>2, <2>2 DEF Slots, Uploading
  <2> QED
    BY <2>1, <2>2
<1> HIDE DEF slot, f
<1>5. /\ IsFiniteSet(Slots) /\ Cardinality(Slots) \in Nat
      /\ Cardinality(Workers) \in Nat
  BY SlotCounts DEF Slots
<1>6. IsFiniteSet(Slots \ {slot}) /\ Cardinality(Slots \ {slot}) = Cardinality(Slots) - 1
  BY <1>3, <1>5, FS_RemoveElement
<1>7. Cardinality(Slots') \in Nat /\ Cardinality(Slots') <= Cardinality(Slots) - 1
  BY <1>4, <1>6, FS_Subset, FS_CardinalityType
<1>8. IsFiniteSet(photos) /\ Cardinality(photos) \in Nat
  BY FS_CardinalityType DEF PhotosInv
<1>9. \/ Cardinality(photos \cup {f}) = Cardinality(photos)
      \/ Cardinality(photos \cup {f}) = Cardinality(photos) + 1
  BY <1>8, FS_AddElement
<1>10. IsFiniteSet(photos') /\ Cardinality(photos') \in Nat
       /\ Cardinality(photos') <= Cardinality(photos) + 1
  <2>1. IsFiniteSet(photos \cup {f})
    BY <1>8, FS_AddElement
  <2> QED
    BY <1>2, <1>8, <1>9, <2>1
<1>11. Cardinality(photos') + Cardinality(Slots') <= Cardinality(photos) + Cardinality(Slots)
  BY <1>5, <1>7, <1>8, <1>10
<1> DEFINE k == MAX_PORTFOLIO_PHOTOS + MaxUpload * (Cardinality(Workers) - 1)
<1>12. k \in Int /\ Cardinality(photos) + Cardinality(Slots) <= k
  BY <1>5, LimitsAssumption DEF PhotosInv
<1> HIDE DEF k
<1>13. Cardinality(photos') + Cardinality(Slots') <= k
  BY <1>5, <1>7, <1>8, <1>10, <1>11, <1>12
<1> QED
  BY <1>10, <1>13 DEF PhotosInv, k

\* The limit of the portfolio is exceeded by what the other handlers in flight
\* upload at most (ProviderProfileService.addPortfolioPhotos).
THEOREM PhotosBoundedCorrect == Spec => []PhotosBounded
<1>1. Init => PhotosInv
  <2> SUFFICES ASSUME Init PROVE PhotosInv
    OBVIOUS
  <2>1. photos = {} /\ Slots = {}
    BY DEF Init, Slots, Uploading, Idle
  <2>2. Cardinality(Workers) \in Nat /\ Cardinality(Workers) # 0
    BY WorkersAssumption, FS_CardinalityType, FS_EmptySet
  <2>3. MaxUpload * (Cardinality(Workers) - 1) \in Nat
    BY <2>2, LimitsAssumption
  <2> QED
    BY <2>1, <2>3, LimitsAssumption, FS_EmptySet DEF PhotosInv
<1>2. TypeOK /\ PhotosInv /\ [Next]_vars => PhotosInv'
  <2> SUFFICES ASSUME TypeOK, PhotosInv, [Next]_vars PROVE PhotosInv'
    OBVIOUS
  <2>1. ASSUME NEW w \in Workers, NEW f \in Files, SavePhoto(w, f) PROVE PhotosInv'
    <3>1. /\ photos' = photos
          /\ task'[w].step = "insert_photo" /\ task'[w].left = task[w].left
          /\ \A v \in Workers : v # w => task'[v] = task[v]
      BY <2>1 DEF SavePhoto, Proceed, TypeOK
    <3>2. Slots' \subseteq Slots
      BY <2>1, <3>1 DEF Slots, Uploading, SavePhoto, At
    <3> QED
      BY <3>1, <3>2, PhotosShrink
  <2>2. CASE /\ photos' \subseteq photos
             /\ \A v \in Workers : Uploading(v)' => task'[v] = task[v]
    <3>1. Slots' \subseteq Slots
      BY <2>2 DEF Slots, Uploading
    <3> QED
      BY <2>2, <3>1, PhotosShrink
  <2>3. CASE UNCHANGED vars
    BY <2>2, <2>3 DEF vars
  <2> QED
    BY <2>1, <2>2, <2>3, PhotoSteps, PhotosCounted, PhotosInserted DEF Next
<1>3. PhotosInv => PhotosBounded
  <2> SUFFICES ASSUME PhotosInv PROVE PhotosBounded
    OBVIOUS
  <2>1. /\ Cardinality(Slots) \in Nat /\ Cardinality(photos) \in Nat
        /\ Cardinality(Workers) \in Nat
    BY SlotCounts, FS_CardinalityType DEF Slots, PhotosInv
  <2> DEFINE k == MAX_PORTFOLIO_PHOTOS + MaxUpload * (Cardinality(Workers) - 1)
  <2>2. k \in Int /\ Cardinality(photos) + Cardinality(Slots) <= k
    BY <2>1, LimitsAssumption DEF PhotosInv
  <2> HIDE DEF k
  <2>3. Cardinality(photos) <= k
    BY <2>1, <2>2
  <2> QED
    BY <2>3 DEF PhotosBounded, k
<1> QED
  BY <1>1, <1>2, <1>3, TypeCorrect, PTL DEF Spec

=============================================================================
