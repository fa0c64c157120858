-------------------------------- MODULE Mount --------------------------------
(* A mounted album (src/fs/fuse.rs): one directory and its files behind the *)
(* request handlers.  A handler holds the mutex for its whole length, and   *)
(* fuser calls them one after the other, so a request is one step; but it   *)
(* makes several calls into AlbumFs, each with a sync of its own that may    *)
(* fail, and a listing takes several requests.                              *)
(*                                                                          *)
(* Where add_dir_entry puts a name is the module Directory, and what a      *)
(* failing sync leaves on the disk is BlockStore: here a name comes         *)
(* anywhere after "..", and `saved` says that all is on the disk.           *)
EXTENDS Naturals, Sequences, FiniteSets, SequencesExt

CONSTANTS
    Names,          \* names of files
    InodeCount,     \* inodes of the table; the first is the directory
    Sizes, Perms,   \* sizes of files and permission bits
    Users,          \* owners; root among them
    NoPerm, RootUser,       \* permissions and owner that Inode::default() has
    None,           \* a field that setattr is not asked to change
    PageMax         \* most entries that fit into one reply to readdir

Dir  == 1
Inos == 1..InodeCount
Dots == {".", ".."}

ASSUME MountAssumption ==
    /\ InodeCount \in Nat \ {0} /\ PageMax \in Nat \ {0}
    /\ 0 \in Sizes /\ Sizes \subseteq Nat
    /\ NoPerm \in Perms /\ RootUser \in Users
    /\ None \notin Sizes /\ None \notin Perms /\ None \notin Users
    /\ Dots \cap Names = {}

VARIABLES
    attr,           \* the inodes
    list,           \* the directory in the order of its records
    saved,          \* what is in memory is on the disk
    reply,          \* of the last request that changes or syncs, or the exit status
    phase,          \* "up", "destroyed" (fuser has ended), "exited"
    listing,        \* the running listing: next offset, how often it got a name
                    \* (2 for more than once), state
    start, grew, shrank,    \* history: names at its start; was one added, or removed, since
    told            \* history: did the last request leave what its caller may expect

vars == <<attr, list, saved, reply, phase, listing, start, grew, shrank, told>>
listingVars == <<listing, start, grew, shrank>>

Attr == [kind : {"free", "file", "dir"}, size : Sizes, perm : Perms, uid : Users]

FreeAttr    == [kind |-> "free", size |-> 0, perm |-> NoPerm, uid |-> RootUser]
NoListing   == [offset |-> 0, got |-> [n \in Dots \cup Names |-> 0], state |-> "none"]
Entry(n, i) == [name |-> n, ino |-> i]
Entries     == {list[k].name : k \in DOMAIN list}
Named       == {list[k].ino : k \in DOMAIN list}
Files       == {i \in Named : attr[i].kind = "file"}
FreeInos    == {i \in Inos : attr[i].kind = "free"}

\* The record that has a name, and lookup.
At(n, s)   == CHOOSE k \in DOMAIN s : s[k].name = n
InodeOf(n) == list[At(n, list)].ino

\* mount_filesystem syncs before it mounts.
Init ==
    /\ attr = [i \in Inos |-> [FreeAttr EXCEPT !.kind = IF i = Dir THEN "dir" ELSE "free"]]
    /\ list = <<Entry(".", Dir), Entry("..", Dir)>>
    /\ saved = TRUE /\ reply = "ok" /\ phase = "up"
    /\ listing = NoListing /\ start = {} /\ grew = FALSE /\ shrank = FALSE
    /\ told = TRUE

-----------------------------------------------------------------------------
(* What the caller of a request may expect to be there afterwards, by what  *)
(* it asked for and not by how the program goes about it: after success all *)
(* it asked for, after an error nothing, all, or what is called halfway.    *)

After(attrs, entries) == [attr |-> attrs, entries |-> entries]
Now == After(attr, ToSet(list))

Leaves(done, halfway) ==
    told' = (After(attr', ToSet(list')) \in
                IF reply' = "ok" THEN done ELSE {Now} \cup done \cup halfway)

Made(k, p, u) == [kind |-> k, size |-> 0, perm |-> p, uid |-> u]
Freed(i)      == [attr EXCEPT ![i] = FreeAttr]
NotCalled(n)  == {e \in ToSet(list) : e.name # n}

\* What is half created has no name yet, or still belongs to root.
LeavesCreated(n, k, p, u) ==
    LET MadeAt(i, v) == [attr EXCEPT ![i] = Made(k, p, v)]
        With(i)      == ToSet(list) \cup {Entry(n, i)}
    IN  Leaves({After(MadeAt(i, u), With(i)) : i \in FreeInos},
               UNION {{After(MadeAt(i, v), es) : v \in {RootUser, u}, es \in {ToSet(list), With(i)}} :
                         i \in FreeInos})

\* What is half removed has lost its name.
LeavesRemoved(n) == Leaves({After(Freed(InodeOf(n)), NotCalled(n))}, {After(attr, NotCalled(n))})

\* Half a rename has removed the target, or half removed it; the old name is
\* there until the new one is.
LeavesMoved(n, m) ==
    LET gone == IF m \in Entries THEN Freed(InodeOf(m)) ELSE attr
    IN  Leaves({After(gone, {e \in NotCalled(m) : e.name # n} \cup {Entry(m, InodeOf(n))})},
               {After(attr, NotCalled(m)), After(gone, NotCalled(m))})

LeavesInode(done, halfway) ==
    Leaves({After(done, ToSet(list))}, {After(a, ToSet(list)) : a \in halfway})

LeavesWritten(i, z) == LeavesInode([attr EXCEPT ![i].size = IF z > @ THEN z ELSE @], {})

\* Of a setattr the size may be done alone.
LeavesSet(i, w) ==
    LET Sized == [attr EXCEPT ![i].size = IF w.size = None THEN @ ELSE w.size]
    IN  LeavesInode([Sized EXCEPT ![i].perm = IF w.perm = None THEN @ ELSE w.perm,
                                  ![i].uid  = IF w.uid  = None THEN @ ELSE w.uid], {Sized})

-----------------------------------------------------------------------------
(* Requests that change something.  The flags say which syncs succeed.      *)

Reply(ok) == reply' = IF ok THEN "ok" ELSE "error"

\* A change of the directory while it is listed.
Track(adds, removes) ==
    /\ grew'   = (grew   \/ (adds    /\ listing.state = "open"))
    /\ shrank' = (shrank \/ (removes /\ listing.state = "open"))
    /\ UNCHANGED <<listing, start>>

Added(n, i, s) == {InsertAt(s, k, Entry(n, i)) : k \in 3..Len(s) + 1}
Without(n, s)  == IF \E k \in DOMAIN s : s[k].name = n THEN RemoveAt(s, At(n, s)) ELSE s

\* The first free inode, and the owner of a new file when the handler is done
\* with it: AlbumFs makes the file as root's, and the handler sets the owner
\* when that has succeeded (s1).
FreeIno == CHOOSE i \in FreeInos : \A j \in FreeInos : i <= j

\* Mutant: the handler does not set the owner.
OwnerRoot(u, s1) == RootUser

Owner(u, s1) == IF s1 THEN u ELSE RootUser

\* Mutant: no sync after the owner is set.
CreateUnsynced(n, k, u, p, s1, s2) ==
    /\ phase = "up" /\ n \notin Entries /\ FreeInos # {}
    /\ list' \in Added(n, FreeIno, list)
    /\ attr' = [attr EXCEPT ![FreeIno] = Made(k, p, Owner(u, s1))]
    /\ saved' = FALSE /\ Reply(s1) /\ LeavesCreated(n, k, p, u)
    /\ Track(TRUE, FALSE)
    /\ UNCHANGED phase

\* create, mkdir: AlbumFs makes the file and syncs (s1); the handler then sets
\* the owner and syncs again (s2), or returns at the first error.
Create(n, k, u, p, s1, s2) ==
    /\ phase = "up" /\ n \notin Entries /\ FreeInos # {}
    /\ list' \in Added(n, FreeIno, list)
    /\ attr' = [attr EXCEPT ![FreeIno] = Made(k, p, Owner(u, s1))]
    /\ saved' = (s1 /\ s2) /\ Reply(s1 /\ s2) /\ LeavesCreated(n, k, p, u)
    /\ Track(TRUE, FALSE)
    /\ UNCHANGED phase

\* A create or mkdir for whose name add_dir_entry finds no room leaves an inode.
CreateUnnamed(n, k, u, p) ==
    /\ phase = "up" /\ n \notin Entries /\ FreeInos # {}
    /\ attr' = [attr EXCEPT ![FreeIno] = Made(k, p, RootUser)]
    /\ saved' = FALSE /\ Reply(FALSE)
    /\ UNCHANGED <<list, phase, listingVars>> /\ LeavesCreated(n, k, p, u)

\* unlink, and rmdir of an empty directory.
Unlink(n, s1) ==
    /\ phase = "up" /\ n \in Entries
    /\ attr' = Freed(InodeOf(n)) /\ list' = Without(n, list)
    /\ saved' = s1 /\ Reply(s1) /\ LeavesRemoved(n)
    /\ Track(FALSE, TRUE)
    /\ UNCHANGED phase

\* An unlink that cannot free the blocks of the file, because a pointer block
\* cannot be read, has removed the name and keeps the inode.
UnlinkFails(n) ==
    /\ phase = "up" /\ n \in Entries /\ attr[InodeOf(n)].kind = "file"
    /\ list' = Without(n, list)
    /\ saved' = FALSE /\ Reply(FALSE)
    /\ UNCHANGED attr /\ LeavesRemoved(n)
    /\ Track(FALSE, TRUE)
    /\ UNCHANGED phase

\* rename first unlinks a target, of the same kind, and syncs; then the new name
\* is added, the old one removed and all synced (s1).
Rename(n, m, s1) ==
    /\ phase = "up" /\ n \in Entries /\ n # m
    /\ m \in Entries => attr[InodeOf(m)].kind = attr[InodeOf(n)].kind
    /\ LET gone == IF m \in Entries THEN Freed(InodeOf(m)) ELSE attr
           base == Without(m, list)
       IN  \/ \* the target's blocks cannot be freed
              /\ m \in Entries /\ attr[InodeOf(m)].kind = "file"
              /\ list' = base /\ attr' = attr
              /\ saved' = FALSE /\ Reply(FALSE) /\ Track(FALSE, TRUE)
           \/ \* the sync after it fails, or there is no room for the new name
              /\ m \in Entries
              /\ list' = base /\ attr' = gone
              /\ saved' = FALSE /\ Reply(FALSE) /\ Track(FALSE, TRUE)
           \/ /\ \E s \in Added(m, InodeOf(n), base) : list' = Without(n, s)
              /\ attr' = gone
              /\ saved' = s1 /\ Reply(s1) /\ Track(TRUE, TRUE)
    /\ LeavesMoved(n, m)
    /\ UNCHANGED phase

Write(i, z, s1) ==
    /\ phase = "up" /\ i \in Files
    /\ attr' = [attr EXCEPT ![i].size = IF z > @ THEN z ELSE @]
    /\ saved' = s1 /\ Reply(s1)
    /\ UNCHANGED <<list, phase, listingVars>> /\ LeavesWritten(i, z)

\* Mutant: the inode that setattr changes was read before the truncate.
WithFieldsStale(a, truncated, w) ==
    [kind |-> a.kind,
     size |-> a.size,
     perm |-> IF w.perm = None THEN a.perm ELSE w.perm,
     uid  |-> IF w.uid = None THEN a.uid ELSE w.uid]

\* Mutant: a field that was not asked for is written all the same.
WithFieldsUnset(a, truncated, w) ==
    [kind |-> truncated.kind, size |-> truncated.size, perm |-> w.perm, uid |-> w.uid]

\* The inode as setattr writes it back: read again after the truncate; the
\* bits of the type stay.
WithFields(a, truncated, w) ==
    [kind |-> truncated.kind,
     size |-> truncated.size,
     perm |-> IF w.perm = None THEN truncated.perm ELSE w.perm,
     uid  |-> IF w.uid = None THEN truncated.uid ELSE w.uid]

Wants == [size : Sizes \cup {None}, perm : Perms \cup {None}, uid : Users \cup {None}]

\* setattr: truncate, which refuses a directory and syncs (s1), then the other
\* fields and a sync (s2).  An error ends it where it happens.
Setattr(i, w, s1, s2) ==
    /\ phase = "up" /\ i \in Named
    /\ LET a         == attr[i]
           truncated == IF w.size = None THEN a ELSE [a EXCEPT !.size = w.size]
       IN  \/ /\ w.size # None /\ a.kind = "dir"
              /\ Reply(FALSE) /\ UNCHANGED <<attr, saved>>
           \/ /\ w.size # None /\ a.kind = "file" /\ ~s1
              /\ attr' = [attr EXCEPT ![i] = truncated]
              /\ saved' = FALSE /\ Reply(FALSE)
           \/ /\ w.size = None \/ (a.kind = "file" /\ s1)
              /\ attr' = [attr EXCEPT ![i] = WithFields(a, truncated, w)]
              /\ saved' = s2 /\ Reply(s2)
    /\ UNCHANGED <<list, phase, listingVars>> /\ LeavesSet(i, w)

\* A request that stops at a block it cannot read, reach or allocate, such as a
\* write, a truncate or a mkdir, has changed blocks and no inode.
Stops ==
    /\ phase = "up"
    /\ saved' = FALSE /\ Reply(FALSE)
    /\ UNCHANGED <<attr, list, phase, listingVars, told>>

\* flush, release, releasedir, fsync and fsyncdir are one sync each.
SyncRequest(s1) ==
    /\ phase = "up"
    /\ saved' = (saved \/ s1) /\ Reply(s1)
    /\ UNCHANGED <<attr, list, phase, listingVars, told>>

-----------------------------------------------------------------------------
(* Listing                                                                 *)

Opendir ==
    /\ phase = "up" /\ listing.state # "open"
    /\ listing' = [NoListing EXCEPT !.state = "open"]
    /\ start' = Entries /\ grew' = FALSE /\ shrank' = FALSE
    /\ UNCHANGED <<attr, list, saved, reply, phase, told>>

\* readdir_page, cut where the buffer of the reply is full.
ReaddirPage(entries, offset, most) ==
    SubSeq(entries, offset + 1, IF offset + most < Len(entries) THEN offset + most ELSE Len(entries))

\* Mutant: the offset of an entry is its own, not that of the next one.
NextOffsetOwn(offset, page) == IF page = <<>> THEN offset ELSE offset + Len(page) - 1

\* Mutant: the offset of an entry is one further than the next one.
NextOffsetPast(offset, page) == offset + Len(page) + 1

\* The offset that came with the last entry of the page.
NextOffset(offset, page) == offset + Len(page)

\* One page; the caller asks again until one comes back empty.
Readdir(most) ==
    /\ phase = "up" /\ listing.state = "open"
    /\ LET page == ReaddirPage(list, listing.offset, most)
       IN  listing' = [offset |-> NextOffset(listing.offset, page),
                       got    |-> [n \in Dots \cup Names |->
                                     IF (\E k \in DOMAIN page : page[k].name = n) /\ listing.got[n] < 2
                                     THEN listing.got[n] + 1 ELSE listing.got[n]],
                       state  |-> IF page = <<>> THEN "done" ELSE "open"]
    /\ UNCHANGED <<attr, list, saved, reply, phase, start, grew, shrank, told>>

-----------------------------------------------------------------------------
(* The end of the mount                                                    *)

\* destroy syncs and tells nobody.
Destroy(s1) ==
    /\ phase = "up" /\ phase' = "destroyed"
    /\ saved' = (saved \/ s1)
    /\ UNCHANGED <<attr, list, reply, listingVars, told>>

\* mount_filesystem syncs once more and returns that result, or the one of the
\* session when it is an error.
Exit(session, s1) ==
    /\ phase = "destroyed" /\ phase' = "exited"
    /\ saved' = (saved \/ s1)
    /\ Reply(session /\ s1)
    /\ UNCHANGED <<attr, list, listingVars, told>>

Exited == phase = "exited" /\ UNCHANGED vars

ReadNext == \E most \in 1..PageMax : Readdir(most)

Requests ==
    \/ \E s1, s2 \in BOOLEAN :
        \/ \E n \in Names, k \in {"file", "dir"}, u \in Users, p \in Perms : Create(n, k, u, p, s1, s2)
        \/ \E i \in Inos, w \in Wants : Setattr(i, w, s1, s2)
    \/ \E s1 \in BOOLEAN :
        \/ \E n \in Names : Unlink(n, s1)
        \/ \E n, m \in Names : Rename(n, m, s1)
        \/ \E i \in Inos, z \in Sizes : Write(i, z, s1)
        \/ SyncRequest(s1) \/ Destroy(s1)
        \/ \E session \in BOOLEAN : Exit(session, s1)
    \/ \E n \in Names, k \in {"file", "dir"}, u \in Users, p \in Perms : CreateUnnamed(n, k, u, p)
    \/ \E n \in Names : UnlinkFails(n)
    \/ Stops \/ Exited

Next == Requests \/ Opendir \/ ReadNext

Spec == Init /\ [][Next]_vars

\* A program that lists a directory asks for pages until one is empty.
FairSpec == Spec /\ WF_vars(ReadNext)

-----------------------------------------------------------------------------
(* Properties                                                              *)

\* The variables have their types, and an offset stays within the directory.
TypeOK ==
    /\ attr \in [Inos -> Attr] /\ told \in BOOLEAN
    /\ list \in Seq([name : Dots \cup Names, ino : Inos])
    /\ saved \in BOOLEAN /\ reply \in {"ok", "error"} /\ phase \in {"up", "destroyed", "exited"}
    /\ listing.offset \in 0..InodeCount + 1 /\ listing.state \in {"none", "open", "done"}
    /\ start \subseteq Dots \cup Names /\ grew \in BOOLEAN /\ shrank \in BOOLEAN

\* A handler makes several changes and may end between any two of them.  A
\* request that succeeded has left all that was asked for: the owner of a new
\* file, a size set together with other attributes, the one name of a renamed
\* file.  One that failed has left nothing, all, or the halves named above; in
\* particular a rename never loses the file, and nothing else has changed.
ToldIsStored == told

\* A request that changed something, an fsync or the whole mount reports success
\* only when all changes so far, those of requests that failed too, are saved.
OkIsSaved == reply = "ok" /\ phase # "destroyed" => saved

\* Pages are cut by index from a list that is read again for each of them.  As
\* long as nothing is removed, no entry that was there at opendir is skipped,
\* whatever is added in between and wherever.
NoneSkipped ==
    listing.state = "done" /\ ~shrank => \A n \in start : listing.got[n] # 0

\* As long as nothing is added, no entry is listed twice, whatever is removed.
NoneTwice ==
    listing.state # "none" /\ ~grew => \A n \in DOMAIN listing.got : listing.got[n] <= 1

\* The inductive invariant.  A name is there once; an inode, other than that of the
\* directory, is named once, and none that is named is free.
Listed(s) ==
    /\ s \in Seq([name : Dots \cup Names, ino : Inos]) /\ Len(s) >= 2
    /\ s[1] = Entry(".", Dir) /\ s[2] = Entry("..", Dir)
    /\ \A j, k \in DOMAIN s : s[j].name = s[k].name => j = k
InosOnce(es) == \A e, f \in es : e.name \notin Dots /\ e.ino = f.ino => e = f
ListSound ==
    /\ Listed(list) /\ InosOnce(ToSet(list))
    /\ \A e \in ToSet(list) : attr[e.ino].kind # "free"

\* What a running listing has not got yet lies ahead of its offset, and what it
\* has got lies behind.
Ahead ==
    listing.state # "none" /\ ~shrank =>
        \A n \in start : \/ listing.got[n] # 0
                         \/ /\ listing.state = "open"
                            /\ \E k \in DOMAIN list : k > listing.offset /\ list[k].name = n
Behind ==
    listing.state # "none" /\ ~grew =>
        \A n \in Dots \cup Names :
            /\ listing.got[n] <= 1
            /\ listing.state = "open" /\ listing.got[n] = 1 =>
                  \A k \in DOMAIN list : list[k].name = n => k <= listing.offset

MountInv ==
    /\ TypeOK /\ listing \in [offset : Nat, got : [Dots \cup Names -> 0..2], state : {"none", "open", "done"}]
    /\ ToldIsStored /\ OkIsSaved
    /\ ListSound /\ Ahead /\ Behind

\* A listing ends while other requests change the directory under it.
ListingEnds == listing.state = "open" ~> (listing.state = "done" \/ phase # "up")
=============================================================================
