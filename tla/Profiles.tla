------------------------------ MODULE Profiles ------------------------------
(***************************************************************************)
(* UsersService, ProviderProfileService and the storage they write to: the *)
(* avatar of one account, its provider profile with the KYC flags, the     *)
(* services and the portfolio, and the files that all these rows name.     *)
(* Every where clause names the account, its profile or one photo of it.   *)
(*                                                                         *)
(* A worker is a handler in flight, one action is one database statement   *)
(* or one call of the storage, and task[w] holds what the handler has read *)
(* so far; what a request says is drawn at the statement that uses it.     *)
(* The order of photos and of services is left out.                        *)
(***************************************************************************)
EXTENDS Integers, FiniteSets

CONSTANTS
  Workers,
  Files,                 \* names that the storage may draw
  NoFile,                \* avatar_url is null
  Lists,                 \* the lists of services a provider may submit
  MAX_PORTFOLIO_PHOTOS,  \* 12 in the code
  MaxUpload              \* files of one upload: 6 in the code

ASSUME WorkersAssumption == IsFiniteSet(Workers) /\ Workers # {}
ASSUME FilesAssumption == NoFile \notin Files
ASSUME LimitsAssumption == MAX_PORTFOLIO_PHOTOS \in Nat /\ MaxUpload \in Nat \ {0}

Checks == {"selfie", "cni"}
Labels == UNION Lists

----------------------------------------------------------------------------
(* Types *)

Idle == [step |-> "idle"]

MaybeFile == Files \cup {NoFile}

\* setAvatar, of the account and of the profile.
AvatarTasks == [step: {"read_account"}, file: Files]
               \cup [step: {"set_account"}, file: Files, old: MaybeFile]
               \cup [step: {"save_avatar"}, old: MaybeFile]
               \cup [step: {"set_profile"}, file: Files, old: MaybeFile]
               \cup [step: {"delete_file"}, file: Files]

\* create, and update with what it merged and the services its transaction saw.
ProfileTasks == [step: {"copy_account"}]
                \cup [step: {"create_profile"}, avatar: MaybeFile]
                \cup [step: {"update_profile", "replace_services"}, checks: SUBSET Checks]
                \cup [step: {"commit_update"}, checks: SUBSET Checks, seen: SUBSET Labels]

\* addPortfolioPhotos with the files still to store, removePortfolioPhoto.
PortfolioTasks == [step: {"save_photo"}, left: 1..MaxUpload]
                  \cup [step: {"insert_photo"}, file: Files, left: 1..MaxUpload]
                  \cup [step: {"remove_photo"}, file: Files]

Tasks == {Idle} \cup AvatarTasks \cup ProfileTasks \cup PortfolioTasks

VARIABLES
  accountAvatar,  \* users.avatar_url
  profile,        \* {} or {"row"}: providers.user_id is unique
  profileAvatar,  \* providers.avatar_url
  flags,          \* which of kyc_selfie_done, kyc_cni_done and is_verified are true
  services,       \* labels of the provider_services rows
  photos,         \* urls of the provider_photos rows
  file,           \* file[f] in the storage
  task,           \* what each worker has left to do
  submitted,      \* history: the checks that a request declared done
  copied          \* history: avatars that a create read from the account

avatarVars == <<accountAvatar, profileAvatar>>
profileVars == <<profile, flags, services, submitted, copied>>
vars == <<avatarVars, profileVars, photos, file, task>>

TypeOK ==
  /\ accountAvatar \in MaybeFile /\ profileAvatar \in MaybeFile
  /\ profile \subseteq {"row"}
  /\ flags \subseteq Checks \cup {"verified"}
  /\ services \subseteq Labels
  /\ photos \subseteq Files
  /\ file \in [Files -> {"unused", "stored", "deleted"}]
  /\ task \in [Workers -> Tasks]
  /\ submitted \subseteq Checks
  /\ copied \subseteq Files

Init ==
  /\ accountAvatar = NoFile /\ profileAvatar = NoFile
  /\ profile = {} /\ flags = {} /\ services = {}
  /\ photos = {}
  /\ file = [f \in Files |-> "unused"]
  /\ task = [w \in Workers |-> Idle]
  /\ submitted = {} /\ copied = {}

----------------------------------------------------------------------------
(* Helpers, and StoragePort *)

Free(w) == task[w] = Idle
At(w, step) == task[w].step = step
Doing(step) == {w \in Workers : At(w, step)}
Proceed(w, todo) == task' = [task EXCEPT ![w] = todo]
HasProfile == profile = {"row"}

\* save draws a name that was never used.
Save(f) == file[f] = "unused" /\ file' = [file EXCEPT ![f] = "stored"]

\* delete is best effort: the adapters swallow their errors.
Delete(f) == file' = file \/ file' = [file EXCEPT ![f] = "deleted"]

----------------------------------------------------------------------------
(* UsersService.setAvatar *)

SaveAccountAvatar(w, f) ==
  /\ Free(w)
  /\ Save(f)
  /\ Proceed(w, [step |-> "read_account", file |-> f])
  /\ UNCHANGED <<avatarVars, profileVars, photos>>

ReadAccountAvatar(w) ==
  /\ At(w, "read_account")
  /\ Proceed(w, [step |-> "set_account", file |-> task[w].file, old |-> accountAvatar])
  /\ UNCHANGED <<avatarVars, profileVars, photos, file>>

\* Mutant: the file that is deleted is the new one.
DeletePreviousSwapped(w) ==
  Proceed(w, IF task[w].old = NoFile THEN Idle ELSE [step |-> "delete_file", file |-> task[w].file])

\* The previous file goes after the row has left it.
DeletePrevious(w) ==
  Proceed(w, IF task[w].old = NoFile THEN Idle ELSE [step |-> "delete_file", file |-> task[w].old])

SetAccountAvatar(w) ==
  /\ At(w, "set_account")
  /\ accountAvatar' = task[w].file
  /\ DeletePrevious(w)
  /\ UNCHANGED <<profileAvatar, profileVars, photos, file>>

DeleteFile(w) ==
  /\ At(w, "delete_file")
  /\ Delete(task[w].file)
  /\ Proceed(w, Idle)
  /\ UNCHANGED <<avatarVars, profileVars, photos>>

----------------------------------------------------------------------------
(* ProviderProfileService.setAvatar *)

ReadProfileAvatar(w) ==
  /\ Free(w)
  /\ HasProfile
  /\ Proceed(w, [step |-> "save_avatar", old |-> profileAvatar])
  /\ UNCHANGED <<avatarVars, profileVars, photos, file>>

SaveProfileAvatar(w, f) ==
  /\ At(w, "save_avatar")
  /\ Save(f)
  /\ Proceed(w, [step |-> "set_profile", file |-> f, old |-> task[w].old])
  /\ UNCHANGED <<avatarVars, profileVars, photos>>

SetProfileAvatar(w) ==
  /\ At(w, "set_profile")
  /\ profileAvatar' = task[w].file
  /\ DeletePrevious(w)
  /\ UNCHANGED <<accountAvatar, profileVars, photos, file>>

----------------------------------------------------------------------------
(* ProviderProfileService.create *)

\* isVerified: both checks are done.
WithBadge(checks) == checks \cup (IF Checks \subseteq checks THEN {"verified"} ELSE {})

RequestProfile(w) ==
  /\ Free(w)
  /\ ~ HasProfile
  /\ Proceed(w, [step |-> "copy_account"])
  /\ UNCHANGED <<avatarVars, profileVars, photos, file>>

CopyAccount(w) ==
  /\ At(w, "copy_account")
  /\ copied' = copied \cup ({accountAvatar} \cap Files)
  /\ Proceed(w, [step |-> "create_profile", avatar |-> accountAvatar])
  /\ UNCHANGED <<avatarVars, profile, flags, services, submitted, photos, file>>

\* One statement with its nested rows; the unique user_id rejects a second one.
CreateProfile(w, checks, list) ==
  /\ At(w, "create_profile")
  /\ IF HasProfile
     THEN UNCHANGED <<profile, flags, services, submitted, profileAvatar>>
     ELSE /\ profile' = {"row"}
          /\ flags' = WithBadge(checks)
          /\ services' = list
          /\ submitted' = submitted \cup checks
          /\ profileAvatar' = task[w].avatar
  /\ Proceed(w, Idle)
  /\ UNCHANGED <<accountAvatar, copied, photos, file>>

----------------------------------------------------------------------------
(* ProviderProfileService.update *)

\* Mutant: what the request does not mention counts as done.
MergedByDefault(done, undone) == Checks \ undone

\* A check is done, undone, or not mentioned and as it was read.
Merged(done, undone) == ((flags \cap Checks) \ undone) \cup done

\* Without a list of services the transaction is a single update.
RequestUpdate(w, done, undone) ==
  /\ Free(w)
  /\ HasProfile
  /\ submitted' = submitted \cup done
  /\ \E next \in {"update_profile", "replace_services"} :
       Proceed(w, [step |-> next, checks |-> Merged(done, undone)])
  /\ UNCHANGED <<avatarVars, profile, flags, services, copied, photos, file>>

UpdateProfile(w) ==
  /\ At(w, "update_profile")
  /\ flags' = WithBadge(task[w].checks)
  /\ Proceed(w, Idle)
  /\ UNCHANGED <<avatarVars, profile, services, submitted, copied, photos, file>>

\* Mutant: the list is added to the rows that are there.
ReplacedForgotten == {}

\* deleteMany sees the committed rows.
Replaced == services

ReplaceServices(w) ==
  /\ At(w, "replace_services")
  /\ Proceed(w, [step |-> "commit_update", checks |-> task[w].checks, seen |-> Replaced])
  /\ UNCHANGED <<avatarVars, profileVars, photos, file>>

\* createMany rejects a label that another transaction has stored since.  The rows
\* it inserts are not those that the others have seen.
CommitUpdate(w, list) ==
  /\ At(w, "commit_update")
  /\ LET kept == services \ task[w].seen IN
       IF kept \cap list # {}
       THEN UNCHANGED <<services, flags>> /\ Proceed(w, Idle)
       ELSE /\ services' = kept \cup list
            /\ flags' = WithBadge(task[w].checks)
            /\ task' = [v \in Workers |->
                          IF v = w THEN Idle
                          ELSE IF At(v, "commit_update")
                               THEN [step |-> "commit_update", checks |-> task[v].checks,
                                     seen |-> task[v].seen \ list]
                          ELSE task[v]]
  /\ UNCHANGED <<avatarVars, profile, submitted, copied, photos, file>>

----------------------------------------------------------------------------
(* The portfolio *)

\* Mutant: the files of the request are not counted.
RoomBefore(n) == Cardinality(photos) <= MAX_PORTFOLIO_PHOTOS

RoomFor(n) == Cardinality(photos) + n <= MAX_PORTFOLIO_PHOTOS

CountPhotos(w, n) ==
  /\ Free(w)
  /\ HasProfile
  /\ RoomFor(n)
  /\ Proceed(w, [step |-> "save_photo", left |-> n])
  /\ UNCHANGED <<avatarVars, profileVars, photos, file>>

SavePhoto(w, f) ==
  /\ At(w, "save_photo")
  /\ Save(f)
  /\ Proceed(w, [step |-> "insert_photo", file |-> f, left |-> task[w].left])
  /\ UNCHANGED <<avatarVars, profileVars, photos>>

InsertPhoto(w) ==
  /\ At(w, "insert_photo")
  /\ photos' = photos \cup {task[w].file}
  /\ Proceed(w, IF task[w].left > 1 THEN [step |-> "save_photo", left |-> task[w].left - 1] ELSE Idle)
  /\ UNCHANGED <<avatarVars, profileVars, file>>

ReadPhoto(w, f) ==
  /\ Free(w)
  /\ f \in photos
  /\ Proceed(w, [step |-> "remove_photo", file |-> f])
  /\ UNCHANGED <<avatarVars, profileVars, photos, file>>

\* Mutant: the file goes before the row.
RemoveFileFirst(w) ==
  /\ photos' = photos
  /\ Proceed(w, [step |-> "delete_file", file |-> task[w].file])

\* The delete rejects when the row is gone already.
RemoveRow(w) ==
  /\ photos' = photos \ {task[w].file}
  /\ Proceed(w, IF task[w].file \in photos THEN [step |-> "delete_file", file |-> task[w].file]
                ELSE Idle)

RemovePhoto(w) ==
  /\ At(w, "remove_photo")
  /\ RemoveRow(w)
  /\ UNCHANGED <<avatarVars, profileVars, file>>

----------------------------------------------------------------------------

\* A statement or the storage fails, or the server stops: the rest is lost.
Abort(w) ==
  /\ ~ Free(w)
  /\ Proceed(w, Idle)
  /\ UNCHANGED <<avatarVars, profileVars, photos, file>>

AccountAvatar(w) ==
  \/ \E f \in Files : SaveAccountAvatar(w, f)
  \/ ReadAccountAvatar(w)
  \/ SetAccountAvatar(w)

ProfileAvatar(w) ==
  \/ ReadProfileAvatar(w)
  \/ \E f \in Files : SaveProfileAvatar(w, f)
  \/ SetProfileAvatar(w)

Profile(w) ==
  \/ RequestProfile(w)
  \/ CopyAccount(w)
  \/ \E checks \in SUBSET Checks, list \in Lists : CreateProfile(w, checks, list)
  \/ \E done, undone \in SUBSET Checks :
       done \cap undone = {} /\ RequestUpdate(w, done, undone)
  \/ UpdateProfile(w)
  \/ ReplaceServices(w)
  \/ \E list \in Lists : CommitUpdate(w, list)

Portfolio(w) ==
  \/ \E n \in 1..MaxUpload : CountPhotos(w, n)
  \/ \E f \in Files : SavePhoto(w, f) \/ ReadPhoto(w, f)
  \/ InsertPhoto(w)
  \/ RemovePhoto(w)

Handle(w) ==
  AccountAvatar(w) \/ ProfileAvatar(w) \/ DeleteFile(w) \/ Profile(w) \/ Portfolio(w)

Next == \E w \in Workers : Handle(w) \/ Abort(w)

Spec == Init /\ [][Next]_vars

----------------------------------------------------------------------------
(* Safety *)

\* Whatever stale flags an update merges, the badge is that of the flags beside
\* it, and no check is done that no request ever declared.
BadgeEarned ==
  /\ "verified" \in flags <=> Checks \subseteq flags
  /\ flags \cap Checks \subseteq submitted

\* An update replaces the services it saw: those of transactions that overlapped
\* add up, to one list for each handler.
FewLists ==
  \E given \in SUBSET Lists :
    services = UNION given /\ Cardinality(given) <= Cardinality(Workers)

\* The limit is checked before the uploads: it is exceeded by what the other
\* handlers in flight upload at most.
PhotosBounded ==
  Cardinality(photos)
    <= MAX_PORTFOLIO_PHOTOS + MaxUpload * (Cardinality(Workers) - 1)

\* However uploads and removals overlap or stop half-way, a photo that is shown
\* has its file.
PhotosHaveFiles == \A f \in photos : file[f] = "stored"

\* An avatar has its file too, except one that the account and the profile
\* share since the profile was created: either side deletes it for both.
AvatarsHaveFiles ==
  \A f \in {accountAvatar, profileAvatar} \cap Files : file[f] = "stored" \/ f \in copied

=============================================================================
