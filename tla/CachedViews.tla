----------------------------- MODULE CachedViews -----------------------------
(****************************************************************************)
(* What customers are shown of a turf and of their own profile, from the    *)
(* cache, and everything that changes the two rows.  A reader that finds no *)
(* view reads the row and stores the view some time later; the processes    *)
(* share the cache, and each lets one reader at a time fill a view          *)
(* (CacheService.getOrSet; getMe does without, and two processes stand for  *)
(* two of its readers).  A writer changes the row and then deletes the      *)
(* views it knows, one after the other; some delete none.                   *)
(*                                                                          *)
(* Of a turf's fields the status and deletedAt are kept, of the profile's   *)
(* none; every write makes a new version.                                   *)
(****************************************************************************)
EXTENDS Integers, Sequences, FiniteSets

CONSTANTS Servers,      \* processes
          Writers,      \* requests that write, at a time
          MaxVersion,   \* bound: versions of a row
          Watch,        \* bound: the sets of views that are read, one set in a behaviour
          Absent

TurfViews == {"turf", "home:activeTurfs", "turfs:all:1:50"}
ProfileViews == {"profile", "auth:getMe"}
Views == TurfViews \cup ProfileViews
TurfStatuses == {"ACTIVE", "INACTIVE", "SUSPENDED", "MAINTENANCE"}
RowStatuses == TurfStatuses \cup {"NONE"}   \* NONE: no row yet
\* late: the row was changed between the read and the store, or by a writer that did not get
\* to delete the view (it deletes none, its DEL failed, it died).
Copies == [version : 0 .. MaxVersion, listed : BOOLEAN, late : BOOLEAN]

ASSUME ViewsAssumption == MaxVersion \in Nat /\ Watch \subseteq SUBSET Views /\ Absent \notin Copies

VARIABLES
    turfRow,     \* status, deleted, version
    profileRow,  \* its version
    view,        \* the cache: the versions shown
    filling,     \* each process's promiseMap: the version read, if it is read yet
    writing,     \* the writers: the keys they still delete
    watched      \* the views that are read

viewVars == <<turfRow, profileRow, view, filling, writing, watched>>

VersionFor(v) == IF v \in TurfViews THEN turfRow.version ELSE profileRow
Listed(row) == row.status = "ACTIVE" /\ ~row.deleted
NoFill == [at |-> "none", copy |-> Absent]

ViewsTypeOK ==
    /\ turfRow \in [status : RowStatuses, deleted : BOOLEAN, version : 0 .. MaxVersion]
    /\ profileRow \in 0 .. MaxVersion
    /\ view \in [Views -> Copies \cup {Absent}]
    /\ filling \in [Servers -> [Views -> [at : {"none", "read", "store"}, copy : Copies \cup {Absent}]]]
    /\ watched \in SUBSET Views
    /\ \A w \in Writers : writing[w] \in Seq(Views \cup {"turfs:all"})

ViewsInit ==
    /\ turfRow \in [status : {"NONE", "ACTIVE"}, deleted : {FALSE}, version : {0}]
    /\ profileRow = 0
    /\ view = [v \in Views |-> Absent]
    /\ filling = [p \in Servers |-> [v \in Views |-> NoFill]]
    /\ writing = [w \in Writers |-> <<>>]
    /\ watched \in Watch

----------------------------------------------------------------------------
(* CacheService.getOrSet *)

\* No view, and nobody in this process filling it: the factory starts.  Whoever comes
\* meanwhile waits for the same promise.
MissView(p, v) ==
    /\ v \in watched /\ view[v] = Absent /\ filling[p][v].at = "none"
    /\ filling' = [filling EXCEPT ![p][v].at = "read"]
    /\ UNCHANGED <<turfRow, profileRow, view, writing, watched>>

\* The lists take turfs that are ACTIVE and not deleted; there is no page of no turf.
ReadView(p, v) ==
    /\ filling[p][v].at = "read"
    /\ v = "turf" => turfRow.status # "NONE"
    /\ filling' = [filling EXCEPT ![p][v] =
                     [at |-> "store",
                      copy |-> [version |-> VersionFor(v), listed |-> Listed(turfRow), late |-> FALSE]]]
    /\ UNCHANGED <<turfRow, profileRow, view, writing, watched>>

StoreView(p, v) ==
    /\ filling[p][v].at = "store"
    /\ view' = [view EXCEPT ![v] = filling[p][v].copy]
    /\ filling' = [filling EXCEPT ![p][v] = NoFill]
    /\ UNCHANGED <<turfRow, profileRow, writing, watched>>

\* The factory throws, or the process dies.
FillFails(p, v) ==
    /\ filling[p][v].at # "none"
    /\ filling' = [filling EXCEPT ![p][v] = NoFill]
    /\ UNCHANGED <<turfRow, profileRow, view, writing, watched>>

\* Two or three minutes are over, counted from when the view was stored; or the home page is
\* asked to refresh.
DropView(v) ==
    /\ view[v] # Absent
    /\ view' = [view EXCEPT ![v] = Absent]
    /\ UNCHANGED <<turfRow, profileRow, filling, writing, watched>>

----------------------------------------------------------------------------
(* The writers *)

Overtaken(copy) == IF copy = Absent THEN Absent ELSE [copy EXCEPT !.late = TRUE]

\* The row is written; what has been read of it and not stored yet will be stored late.
Wrote(w, views, keys) ==
    /\ writing[w] = <<>>
    /\ writing' = [writing EXCEPT ![w] = keys]
    /\ filling' = [p \in Servers |-> [v \in Views |->
                     IF v \in views THEN [filling[p][v] EXCEPT !.copy = Overtaken(@)] ELSE filling[p][v]]]

\* Mutant: the home page is forgotten.
TurfKeysNoHome == <<"turf", "turfs:all">>

\* The owner's writers delete turf:{id}, turfs:all and home:activeTurfs.
TurfKeys == <<"turf", "turfs:all", "home:activeTurfs">>

WroteTurf(w, status, deleted, keys) ==
    /\ turfRow.version < MaxVersion
    /\ turfRow' = [status |-> status, deleted |-> deleted, version |-> turfRow.version + 1]
    /\ Wrote(w, TurfViews, keys)
    /\ UNCHANGED <<profileRow, watched>>

ChangeTurf(w, status) ==
    /\ turfRow.status # "NONE"
    /\ WroteTurf(w, status, turfRow.deleted, TurfKeys)
    /\ UNCHANGED view

SameTurf(w) == ChangeTurf(w, turfRow.status)

ProfileKeys == <<"profile", "auth:getMe">>
WroteProfile(w, keys) ==
    /\ profileRow < MaxVersion
    /\ profileRow' = profileRow + 1
    /\ Wrote(w, ProfileViews, keys)
    /\ UNCHANGED <<turfRow, watched>>
SameProfile(w) == WroteProfile(w, ProfileKeys) /\ UNCHANGED view

\* Writers that delete no view.
Unannounced(views) == view' = [v \in Views |-> IF v \in views THEN Overtaken(view[v]) ELSE view[v]]
ChangeTurfUnannounced(w, status) ==
    /\ turfRow.status # "NONE"
    /\ WroteTurf(w, status, turfRow.deleted, <<>>)
    /\ Unannounced(TurfViews)
SameTurfUnannounced(w) == ChangeTurfUnannounced(w, turfRow.status)
SameProfileUnannounced(w) == WroteProfile(w, <<>>) /\ Unannounced(ProfileViews)

\* turfs.service.  A new turf is ACTIVE; the turf's own page is not among its keys.
CreateTurf(w) ==
    /\ turfRow.status = "NONE"
    /\ WroteTurf(w, "ACTIVE", FALSE, Tail(TurfKeys))
    /\ UNCHANGED view

\* None of the others looks at deletedAt, or at who set the status.
UpdateTurf(w) == SameTurf(w)
UpdateTurfStatus(w) == \E s \in TurfStatuses : ChangeTurf(w, s)
RemoveTurf(w) ==
    /\ turfRow.status # "NONE"
    /\ WroteTurf(w, "INACTIVE", TRUE, TurfKeys)
    /\ UNCHANGED view

\* upload.service, once the file is stored.
UploadTurfImage(w) == SameTurf(w)
DeleteTurfImage(w) == SameTurf(w)
UploadTurfVideo(w) == SameTurf(w)

\* owner-settings.service and the admin's services delete no view.
UpdateTurfSettings(w) == SameTurfUnannounced(w)
UpdateCancellationPolicy(w) == SameTurfUnannounced(w)
AdminUpdateTurfStatus(w) == \E s \in TurfStatuses : ChangeTurfUnannounced(w, s)
FeatureTurf(w) == SameTurfUnannounced(w)
UnfeatureTurf(w) == SameTurfUnannounced(w)
SetTurfMaintenance(w) == ChangeTurfUnannounced(w, "MAINTENANCE")

\* Looking at the owner's profile turns a turf that is neither ACTIVE nor INACTIVE INACTIVE.
NormalizeOwnerTurfStatuses(w) ==
    /\ turfRow.status \notin {"ACTIVE", "INACTIVE"}
    /\ ChangeTurfUnannounced(w, "INACTIVE")

\* user-profile.service, upload.service and auth.service.
CreateProfile(w) == SameProfile(w)
UpdateHomeAddress(w) == SameProfile(w)
UpdateProfile(w) == SameProfile(w)
UploadUserProfileImage(w) == SameProfile(w)
DeleteUserProfileImage(w) == SameProfile(w)
UpdateAvatar(w) == SameProfileUnannounced(w)
SavePaymentDetails(w) == SameProfileUnannounced(w)
ChangeAccount(w) == SameProfileUnannounced(w)   \* phone number, MPIN

\* One key after the other.
DeleteKey(w) ==
    /\ writing[w] # <<>>
    /\ view' = [v \in Views |-> IF v = Head(writing[w]) THEN Absent ELSE view[v]]
    /\ writing' = [writing EXCEPT ![w] = Tail(@)]
    /\ UNCHANGED <<turfRow, profileRow, filling, watched>>

\* RedisService.del only logs that it failed, and the writer goes on.
DeleteFails(w) ==
    /\ writing[w] # <<>>
    /\ view' = [v \in Views |-> IF v = Head(writing[w]) THEN Overtaken(view[v]) ELSE view[v]]
    /\ writing' = [writing EXCEPT ![w] = Tail(@)]
    /\ UNCHANGED <<turfRow, profileRow, filling, watched>>

WriterDies(w) ==
    /\ writing[w] # <<>>
    /\ view' = [v \in Views |-> IF \E i \in DOMAIN writing[w] : writing[w][i] = v
                                THEN Overtaken(view[v]) ELSE view[v]]
    /\ writing' = [writing EXCEPT ![w] = <<>>]
    /\ UNCHANGED <<turfRow, profileRow, filling, watched>>

Write(w) ==
    \/ CreateTurf(w) \/ UpdateTurf(w) \/ UpdateTurfStatus(w) \/ RemoveTurf(w)
    \/ UploadTurfImage(w) \/ DeleteTurfImage(w) \/ UploadTurfVideo(w)
    \/ UpdateTurfSettings(w) \/ UpdateCancellationPolicy(w)
    \/ AdminUpdateTurfStatus(w) \/ FeatureTurf(w) \/ UnfeatureTurf(w) \/ SetTurfMaintenance(w)
    \/ NormalizeOwnerTurfStatuses(w)
    \/ CreateProfile(w) \/ UpdateHomeAddress(w) \/ UpdateProfile(w)
    \/ UploadUserProfileImage(w) \/ DeleteUserProfileImage(w)
    \/ UpdateAvatar(w) \/ SavePaymentDetails(w) \/ ChangeAccount(w)

ViewsNext ==
    \/ \E p \in Servers, v \in Views :
          MissView(p, v) \/ ReadView(p, v) \/ StoreView(p, v) \/ FillFails(p, v)
    \/ \E v \in Views : DropView(v)
    \/ \E w \in Writers : Write(w) \/ DeleteKey(w) \/ DeleteFails(w) \/ WriterDies(w)

ViewsSpec == ViewsInit /\ [][ViewsNext]_viewVars

----------------------------------------------------------------------------
(* Properties *)

ToDelete(v) == \E w \in Writers, i \in 1 .. 3 : i \in DOMAIN writing[w] /\ writing[w][i] = v

\* The list of all turfs is deleted by nobody: see FreshList.
DeletedViews == Views \ {"turfs:all:1:50"}

\* Once an owner or a customer has their answer, the turf's page, the home page and both
\* profiles show what they wrote, whoever else reads and writes meanwhile: a view is older
\* than its row only while the writer is still deleting it, and when it is late.  The home
\* page then offers no turf that cannot be booked.
FreshViews ==
    \A v \in DeletedViews : view[v] # Absent /\ ~view[v].late /\ ~ToDelete(v) =>
       /\ view[v].version = VersionFor(v)
       /\ v \in TurfViews /\ view[v].listed => turfRow.status = "ACTIVE"

\* The same of the list of all turfs, and whatever the writer deletes.  Both refuted: "turfs:all"
\* is not the key "turfs:all:1:50" the list is stored under, and half of the writers delete
\* nothing.
FreshList == view["turfs:all:1:50"] # Absent /\ ~view["turfs:all:1:50"].late
             => (\E w \in Writers : writing[w] # <<>>) \/ view["turfs:all:1:50"].version = turfRow.version
FreshAfterEveryWrite ==
    (\A w \in Writers : writing[w] = <<>>) /\ (\A p \in Servers, v \in Views : filling[p][v] = NoFill)
    => \A v \in DeletedViews : view[v] # Absent => view[v].version = VersionFor(v)
=============================================================================
