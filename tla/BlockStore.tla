----------------------------- MODULE BlockStore -----------------------------
(***************************************************************************)
(* The block store of AlbumFS (fs/block.rs) over its carrier images        *)
(* (stego/png.rs, stego/jpeg.rs), with the sync of fs/album.rs above it    *)
(* and the open of fs/format.rs.                                           *)
(*                                                                         *)
(* A carrier holds a contiguous range of blocks.  It is read whole when a  *)
(* block of it is first used, changed in memory, and written whole by      *)
(* flush: first to a temporary file beside it, then renamed over it.       *)
(* Carriers are flushed one after the other; an error ends the flush.  The *)
(* process can stop at any point, and is then started again by open.       *)
(***************************************************************************)
EXTENDS Naturals

CONSTANTS
    NCarriers,    \* carriers of the manifest, in its order
    First,        \* block_start of each carrier, and the number of blocks
    BitmapBlock,  \* the block that sync writes the bitmap to
    Values,       \* contents of a block
    Encrypted     \* a markerless pool: opened by the names in its manifest

VARIABLES
    file,     \* the blocks in the carrier files
    temp,     \* the temporary file of each carrier: "absent", "partial" or "whole"
    staged,   \* the blocks in the temporary files
    buffer,   \* the blocks in memory
    loaded,   \* carriers whose buffer is loaded
    dirty,    \* carriers whose buffer was changed
    pc,       \* "closed", "open", or where flush is: "next", "save", "rename"
    slot,     \* the carrier flush has come to
    view,     \* history: what the callers of this process last wrote or found
    synced,   \* history: view when sync last succeeded
    since     \* history: what was written to each block since then

store   == <<file, temp, staged, buffer, loaded, dirty, pc, slot>>
history == <<view, synced, since>>
vars    == <<store, history>>

Carriers == 1..NCarriers
Blocks   == 0..First[NCarriers + 1] - 1

InSlot(c, b) == First[c] <= b /\ b < First[c + 1]

\* What validate_manifest_geometry makes sure of.
ASSUME GeometryAssumption ==
    /\ NCarriers \in Nat \ {0} /\ First \in [1..NCarriers + 1 -> Nat]
    /\ \A b \in Blocks : \E c \in Carriers :
          InSlot(c, b) /\ \A d \in Carriers : InSlot(d, b) => d = c
    /\ BitmapBlock \in Blocks
    /\ Encrypted \in BOOLEAN

-----------------------------------------------------------------------------
(* Buffers                                                                 *)

CarrierFor(b) == CHOOSE c \in Carriers : InSlot(c, b)

\* Mutant: the carrier is read again although its buffer is loaded.
BufferReloaded(c) == [b \in Blocks |-> IF InSlot(c, b) THEN file[b] ELSE buffer[b]]

\* ensure_loaded: the buffers once carrier c is loaded.
Buffer(c) == [b \in Blocks |-> IF InSlot(c, b) /\ c \notin loaded THEN file[b] ELSE buffer[b]]

Init ==
    /\ file \in [Blocks -> Values]
    /\ temp = [c \in Carriers |-> "absent"] /\ staged = file
    /\ buffer = file /\ loaded = {} /\ dirty = {}
    /\ pc = "closed" /\ slot = 1
    /\ view = file /\ synced = file /\ since = [b \in Blocks |-> {}]

ReadBlock(b) ==
    /\ pc = "open"
    /\ buffer' = Buffer(CarrierFor(b))
    /\ loaded' = loaded \cup {CarrierFor(b)}
    /\ UNCHANGED <<file, temp, staged, dirty, pc, slot, history>>

\* Mutant: the block is marked and the loaded carrier is not kept.
WriteUnloaded(b, v) ==
    LET c == CarrierFor(b)
    IN  /\ buffer' = [Buffer(c) EXCEPT ![b] = v]
        /\ dirty' = dirty \cup {c}
        /\ view' = [view EXCEPT ![b] = v]
        /\ since' = [since EXCEPT ![b] = @ \cup {v}]
        /\ UNCHANGED <<file, temp, staged, loaded, synced>>

\* write_block.
Write(b, v) ==
    LET c == CarrierFor(b)
    IN  /\ buffer' = [Buffer(c) EXCEPT ![b] = v]
        /\ loaded' = loaded \cup {c}
        /\ dirty' = dirty \cup {c}
        /\ view' = [view EXCEPT ![b] = v]
        /\ since' = [since EXCEPT ![b] = @ \cup {v}]
        /\ UNCHANGED <<file, temp, staged, synced>>

WriteBlock(b, v) == pc = "open" /\ Write(b, v) /\ UNCHANGED <<pc, slot>>

-----------------------------------------------------------------------------
(* sync: the bitmap is written to its block, then every dirty carrier is   *)
(* flushed                                                                 *)

BeginSync(v) ==
    /\ pc = "open"
    /\ Write(BitmapBlock, v)
    /\ pc' = "next" /\ slot' = 1

SkipClean ==
    /\ pc = "next" /\ slot \in Carriers \ dirty
    /\ slot' = slot + 1
    /\ UNCHANGED <<file, temp, staged, buffer, loaded, dirty, pc, history>>

\* write_chunk opens the carrier, embeds the buffer and starts to save.
StartSave ==
    /\ pc = "next" /\ slot \in dirty
    /\ temp' = [temp EXCEPT ![slot] = "partial"]
    /\ pc' = "save"
    /\ UNCHANGED <<file, staged, buffer, loaded, dirty, slot, history>>

FinishSave ==
    /\ pc = "save"
    /\ temp' = [temp EXCEPT ![slot] = "whole"]
    /\ staged' = [b \in Blocks |-> IF InSlot(slot, b) THEN buffer[b] ELSE staged[b]]
    /\ pc' = "rename"
    /\ UNCHANGED <<file, buffer, loaded, dirty, slot, history>>

\* Mutant: the carrier stays dirty and flush starts on it again.
RenameTempStuck ==
    /\ pc = "rename"
    /\ file' = [b \in Blocks |-> IF InSlot(slot, b) THEN staged[b] ELSE file[b]]
    /\ temp' = [temp EXCEPT ![slot] = "absent"]
    /\ pc' = "next"
    /\ UNCHANGED <<staged, buffer, loaded, dirty, slot, history>>

RenameTemp ==
    /\ pc = "rename"
    /\ file' = [b \in Blocks |-> IF InSlot(slot, b) THEN staged[b] ELSE file[b]]
    /\ temp' = [temp EXCEPT ![slot] = "absent"]
    /\ dirty' = dirty \ {slot}
    /\ pc' = "next" /\ slot' = slot + 1
    /\ UNCHANGED <<staged, buffer, loaded, history>>

EndSync ==
    /\ pc = "next" /\ slot \notin Carriers
    /\ pc' = "open" /\ slot' = 1
    /\ synced' = view /\ since' = [b \in Blocks |-> {}]
    /\ UNCHANGED <<file, temp, staged, buffer, loaded, dirty, view>>

\* Mutant: a carrier counts as clean once flush has come to it.
SyncFailsClean ==
    /\ pc = "save" \/ pc = "rename" \/ (pc = "next" /\ slot \in dirty)
    /\ pc' = "open" /\ slot' = 1
    /\ dirty' = dirty \ {slot}
    /\ UNCHANGED <<file, temp, staged, buffer, loaded, history>>

\* The carrier cannot be opened, saved or renamed: flush ends with the error.
\* The temporary file stays as it is.
SyncFails ==
    /\ pc = "save" \/ pc = "rename" \/ (pc = "next" /\ slot \in dirty)
    /\ pc' = "open" /\ slot' = 1
    /\ UNCHANGED <<file, temp, staged, buffer, loaded, dirty, history>>

-----------------------------------------------------------------------------
(* The process stops (a crash, a kill, the end of a mount whose last sync  *)
(* failed) and the pool is opened again                                    *)

Stop ==
    /\ pc # "closed"
    /\ pc' = "closed" /\ slot' = 1
    /\ loaded' = {} /\ dirty' = {}
    /\ UNCHANGED <<file, temp, staged, buffer, history>>

\* open_plaintext takes every image of the directory that holds a chunk for a
\* carrier, a temporary file too, and refuses the pool when there are not as many
\* as its manifest names.  A whole temporary file always counts; a partial PNG is
\* no image, but of a partial JPEG libjpeg may decode enough for the chunk.
CanOpen == Encrypted \/ \A c \in Carriers : temp[c] # "whole"

\* The open of AlbumFs: load_bitmap reads the carrier of the bitmap.
Open ==
    /\ pc = "closed" /\ CanOpen
    /\ pc' = "open"
    /\ buffer' = Buffer(CarrierFor(BitmapBlock))
    /\ loaded' = loaded \cup {CarrierFor(BitmapBlock)}
    /\ view' = file /\ synced' = file /\ since' = [b \in Blocks |-> {}]
    /\ UNCHANGED <<file, temp, staged, dirty, slot>>

\* The open fails, and nothing in the program removes the temporary file.
OpenRefused ==
    /\ pc = "closed" /\ ~Encrypted
    /\ \E c \in Carriers : temp[c] # "absent"
    /\ UNCHANGED vars

FlushStep == SkipClean \/ StartSave \/ FinishSave \/ RenameTemp \/ EndSync

Next ==
    \/ \E b \in Blocks : ReadBlock(b) \/ \E v \in Values : WriteBlock(b, v)
    \/ \E v \in Values : BeginSync(v)
    \/ FlushStep
    \/ SyncFails \/ Stop \/ Open \/ OpenRefused

Spec == Init /\ [][Next]_vars

\* The thread in flush runs on: its loop has no wait in it.
FairSpec == Spec /\ WF_vars(FlushStep)

-----------------------------------------------------------------------------
(* Properties                                                              *)

\* Type correctness: in particular flush stays within the carriers.
TypeOK ==
    /\ file \in [Blocks -> Values] /\ staged \in [Blocks -> Values]
    /\ buffer \in [Blocks -> Values]
    /\ temp \in [Carriers -> {"absent", "partial", "whole"}]
    /\ loaded \subseteq Carriers /\ dirty \subseteq loaded
    /\ pc \in {"closed", "open", "next", "save", "rename"} /\ slot \in 1..NCarriers + 1
    /\ view \in [Blocks -> Values] /\ synced \in [Blocks -> Values]
    /\ since \in [Blocks -> SUBSET Values]

\* What read_block answers.
Answer(b) == IF CarrierFor(b) \in loaded THEN buffer[b] ELSE file[b]

\* A reader gets what was last written, whatever was loaded in between, and also
\* after a flush that failed half way (ensure_loaded, write_block, flush).
ReadYourWrites == pc # "closed" => \A b \in Blocks : Answer(b) = view[b]

\* A carrier that is not dirty needs no flush: its file holds what its buffer does.
CleanIsOnDisk ==
    \A b \in Blocks : CarrierFor(b) \in loaded \ dirty => buffer[b] = file[b]

\* No acknowledged write is lost: whatever stops or fails, a carrier file holds
\* in each block what the last successful sync left there, or something written
\* since.  A successful sync leaves what was last written (flush, save_atomic).
SyncIsDurable == \A b \in Blocks : file[b] \in {synced[b]} \cup since[b]

\* What makes these inductive: flush has passed the carriers that are no longer
\* dirty, the file to be renamed holds the buffer, and a process that stopped
\* has no buffers.
FlushOrder ==
    /\ pc = "closed" => loaded = {}
    /\ pc \in {"next", "save", "rename"} => \A c \in Carriers : c < slot => c \notin dirty
    /\ pc \in {"save", "rename"} => slot \in dirty
    /\ pc = "rename" => \A b \in Blocks : InSlot(slot, b) => staged[b] = buffer[b]

WrittenSince == \A b \in Blocks : view[b] \in {synced[b]} \cup since[b]

StoreInv ==
    TypeOK /\ ReadYourWrites /\ CleanIsOnDisk /\ SyncIsDurable /\ FlushOrder /\ WrittenSince

\* A sync ends: with success, with an error or with the process.
SyncEnds == pc \in {"next", "save", "rename"} ~> pc \in {"open", "closed"}
=============================================================================
