------------------------------ MODULE MmapFile ------------------------------
(***************************************************************************)
(* aether::io::MmapFile: RAII ownership of a descriptor and a mapping, for *)
(* a program with several MmapFile objects that it creates, resizes, moves *)
(* and closes while any system call may fail.                              *)
(*                                                                         *)
(* Descriptors and addresses are numbers the system hands out again once   *)
(* they are free, so an object that keeps a released one ends up with a    *)
(* resource of another object.  A path is used by one object at a time.    *)
(***************************************************************************)
EXTENDS Naturals

CONSTANTS Object, Path,
          Handle,      \* descriptors and addresses: positive numbers
          Size         \* the nonzero sizes callers ask for

ASSUME HandleAssumption ==
  Handle \subseteq Nat \ {0} /\ 0 \notin Size /\ 0 \notin Path

VARIABLES file,        \* the members fd_, data_, size_, path_, flush_on_destroy
          open,        \* the path each open descriptor refers to
          mapped,      \* the path and size of each mapped address
          fileSize,    \* the length of the file at each path, 0 if none
          dirty,       \* paths with bytes no msync has covered
          lost,        \* history: mapped addresses munmap refused to release
          unsynced     \* history: paths closed with no flush, or a failed one

vars == <<file, open, mapped, fileSize, dirty, lost, unsynced>>

Null == 0
Closed == [fd |-> Null, data |-> Null, size |-> 0, path |-> Null, flush |-> TRUE]

valid(o) == file[o].fd # Null /\ file[o].data # Null /\ file[o].size # 0

Init ==
  /\ file = [o \in Object |-> Closed]
  /\ open = [h \in {} |-> Null] /\ mapped = [a \in {} |-> Null]
  /\ fileSize = [p \in Path |-> 0]
  /\ dirty = {} /\ lost = {} /\ unsynced = {}

\* The system hands out the lowest free number.
Lowest(used) == CHOOSE h \in Handle \ used : \A g \in Handle \ used : h <= g
With(f, h, v) == [k \in DOMAIN f \cup {h} |-> IF k = h THEN v ELSE f[k]]
Less(f, h) == [k \in DOMAIN f \ {h} |-> f[k]]
PathFree(p) == \A o \in Object : file[o].path # p

\* A file of n bytes at p was opened and mapped for o.
Acquired(o, p, n, flush) ==
  /\ Handle \ DOMAIN open # {} /\ Handle \ DOMAIN mapped # {}
  /\ LET fd == Lowest(DOMAIN open)
         data == Lowest(DOMAIN mapped)
     IN  /\ open' = With(open, fd, p)
         /\ mapped' = With(mapped, data, [path |-> p, size |-> n])
         /\ file' = [file EXCEPT ![o] = [fd |-> fd, data |-> data, size |-> n,
                                         path |-> p, flush |-> flush]]

-----------------------------------------------------------------------------
(***************************************************************************)
(* create.  open with O_TRUNC empties the file, ftruncate extends it.      *)
(***************************************************************************)
Create(o, p, n, flush) ==
  /\ file[o] = Closed /\ PathFree(p)
  /\ fileSize' = [fileSize EXCEPT ![p] = n]
  /\ dirty' = dirty \ {p} /\ unsynced' = unsynced \ {p}
  /\ Acquired(o, p, n, flush)
  /\ UNCHANGED lost

\* ftruncate or mmap failed; the descriptor is closed again.
CreateFails(p, n) ==
  /\ PathFree(p)
  /\ fileSize' = [fileSize EXCEPT ![p] = n]
  /\ dirty' = dirty \ {p} /\ unsynced' = unsynced \ {p}
  /\ UNCHANGED <<file, open, mapped, lost>>

OpenExisting(o, p, flush) ==
  /\ file[o] = Closed /\ PathFree(p)
  /\ fileSize[p] # 0
  /\ Acquired(o, p, fileSize[p], flush)
  /\ UNCHANGED <<fileSize, dirty, lost, unsynced>>

\* The caller writes through bytes().
Write(o) ==
  /\ valid(o)
  /\ dirty' = dirty \cup {file[o].path}
  /\ UNCHANGED <<file, open, mapped, fileSize, lost, unsynced>>

Flush(o) ==
  /\ valid(o)
  /\ dirty' = dirty \ {file[o].path}
  /\ UNCHANGED <<file, open, mapped, fileSize, lost, unsynced>>

(***************************************************************************)
(* resize, when its flush succeeds: data_ and size_ are cleared before     *)
(* munmap, and stay so if a call fails.                                    *)
(***************************************************************************)
Detached(o) == [file EXCEPT ![o].data = Null, ![o].size = 0]

\* The unflushed bytes are let go of.
ResizeUnflushed(o) ==
  /\ valid(o)
  /\ file' = Detached(o)
  /\ lost' = lost \cup {file[o].data}
  /\ UNCHANGED <<open, mapped, fileSize, dirty, unsynced>>
ResizeUnmapFails(o) ==
  /\ valid(o)
  /\ dirty' = dirty \ {file[o].path}
  /\ file' = Detached(o)
  /\ lost' = lost \cup {file[o].data}
  /\ UNCHANGED <<open, mapped, fileSize, unsynced>>

\* ftruncate failed (n is the old length) or mmap failed (n is the new one).
ResizeFails(o, n) ==
  /\ valid(o)
  /\ n \in Size
  /\ dirty' = dirty \ {file[o].path}
  /\ mapped' = Less(mapped, file[o].data)
  /\ fileSize' = [fileSize EXCEPT ![file[o].path] = n]
  /\ file' = Detached(o)
  /\ UNCHANGED <<open, lost, unsynced>>

ResizeKeepsSize(o, n) ==
  /\ valid(o)
  /\ dirty' = dirty \ {file[o].path}
  /\ LET free == Less(mapped, file[o].data)
         data == Lowest(DOMAIN free)
     IN  /\ mapped' = With(free, data, [path |-> file[o].path, size |-> n])
         /\ file' = [file EXCEPT ![o].data = data]
  /\ fileSize' = [fileSize EXCEPT ![file[o].path] = n]
  /\ UNCHANGED <<open, lost, unsynced>>
Resize(o, n) ==
  /\ valid(o)
  /\ dirty' = dirty \ {file[o].path}
  /\ LET free == Less(mapped, file[o].data)
         data == Lowest(DOMAIN free)
     IN  /\ mapped' = With(free, data, [path |-> file[o].path, size |-> n])
         /\ file' = [file EXCEPT ![o].data = data, ![o].size = n]
  /\ fileSize' = [fileSize EXCEPT ![file[o].path] = n]
  /\ UNCHANGED <<open, lost, unsynced>>

(***************************************************************************)
(* close: every step is tried whatever the others returned.  The system    *)
(* releases the descriptor even if close() reports an error.               *)
(***************************************************************************)
Syncs(o) == valid(o) /\ file[o].flush

\* A close that gives up when its flush fails.
ReleaseStopsAtError(o, synced, unmaps) ==
  IF Syncs(o) /\ ~synced
  THEN unsynced' = unsynced \cup {file[o].path} /\ UNCHANGED <<open, mapped, dirty, lost>>
  ELSE /\ open' = Less(open, file[o].fd)
       /\ mapped' = IF unmaps THEN Less(mapped, file[o].data) ELSE mapped
       /\ lost' = IF valid(o) /\ ~unmaps THEN lost \cup {file[o].data} ELSE lost
       /\ dirty' = IF Syncs(o) THEN dirty \ {file[o].path} ELSE dirty
       /\ unsynced' = IF valid(o) /\ ~Syncs(o) THEN unsynced \cup {file[o].path} ELSE unsynced
Release(o, synced, unmaps) ==
  /\ open' = Less(open, file[o].fd)
  /\ mapped' = IF unmaps THEN Less(mapped, file[o].data) ELSE mapped
  /\ lost' = IF file[o].data # Null /\ ~unmaps THEN lost \cup {file[o].data} ELSE lost
  /\ dirty' = IF Syncs(o) /\ synced THEN dirty \ {file[o].path} ELSE dirty
  /\ unsynced' = IF valid(o) /\ ~(Syncs(o) /\ synced)
                 THEN unsynced \cup {file[o].path} ELSE unsynced

\* close() and the destructor, which ignores the status.
Close(o, synced, unmaps) ==
  /\ Release(o, synced, unmaps)
  /\ file' = [file EXCEPT ![o] = Closed]
  /\ UNCHANGED fileSize

\* What a moved-from object keeps: the options, and nothing it would release.
MovedFrom(o) == [Closed EXCEPT !.flush = file[o].flush]

\* The source of the move still has its descriptor and its mapping.
MoveCopies(o, src, synced, unmaps) ==
  /\ o # src
  /\ Release(o, synced, unmaps)
  /\ file' = [file EXCEPT ![o] = file[src]]
  /\ UNCHANGED fileSize
\* Move construction is a move into an object that is closed.
Move(o, src, synced, unmaps) ==
  /\ o # src
  /\ Release(o, synced, unmaps)
  /\ file' = [file EXCEPT ![o] = file[src], ![src] = MovedFrom(src)]
  /\ UNCHANGED fileSize

Next ==
  \E o \in Object :
    \/ \E p \in Path, flush \in BOOLEAN :
         \/ \E n \in Size : Create(o, p, n, flush)
         \/ OpenExisting(o, p, flush)
    \/ \E p \in Path, n \in Size \cup {0} : CreateFails(p, n)
    \/ Write(o)
    \/ Flush(o)
    \/ ResizeUnmapFails(o)
    \/ \E n \in Size : ResizeFails(o, n) \/ Resize(o, n)
    \/ \E synced, unmaps \in BOOLEAN :
         \/ Close(o, synced, unmaps)
         \/ \E src \in Object : Move(o, src, synced, unmaps)

Spec == Init /\ [][Next]_vars

-----------------------------------------------------------------------------
Descriptors == {o \in Object : file[o].fd # Null}
Mappings == {o \in Object : file[o].data # Null}

(***************************************************************************)
(* No object holds a descriptor or an address that is not its own: what it *)
(* holds is open or mapped, refers to its path, and no other object holds  *)
(* it.  So nothing is released twice, even when the number is in use again.*)
(***************************************************************************)
OwnedOnce ==
  /\ \A o \in Descriptors : file[o].fd \in DOMAIN open /\ open[file[o].fd] = file[o].path
  /\ \A o \in Mappings : file[o].data \in DOMAIN mapped \ lost
                          /\ mapped[file[o].data].path = file[o].path
  /\ \A o, p \in Descriptors : file[o].fd = file[p].fd => o = p
  /\ \A o, p \in Mappings : file[o].data = file[p].data => o = p

(***************************************************************************)
(* Nothing leaks, whichever calls failed: an open descriptor belongs to an *)
(* object, and so does a mapping unless munmap itself refused to release   *)
(* it.                                                                     *)
(***************************************************************************)
NoLeaks ==
  /\ DOMAIN open = {file[o].fd : o \in Descriptors}
  /\ DOMAIN mapped = {file[o].data : o \in Mappings} \cup lost

(***************************************************************************)
(* The span bytes() returns is mapped and backed by the file, also after a *)
(* resize() that failed halfway: a failed one leaves the object invalid.   *)
(***************************************************************************)
BytesBacked ==
  \A o \in Object : valid(o) =>
    mapped[file[o].data].size = file[o].size /\ file[o].size = fileSize[file[o].path]

(***************************************************************************)
(* Bytes that no msync covered are still mapped by a valid object, unless  *)
(* an object was closed with flush_on_destroy off or with a failed flush.  *)
(***************************************************************************)
DirtyIsMapped ==
  \A p \in dirty \ unsynced : \E o \in Object : valid(o) /\ file[o].path = p

-----------------------------------------------------------------------------
Members == [fd : Handle \cup {Null}, data : Handle \cup {Null}, size : Size \cup {0},
            path : Path \cup {Null}, flush : BOOLEAN]

\* The inductive invariant: the members have their types and go together, an
\* object without a descriptor has no path and no mapping, no two objects share
\* a path, and the properties above.
MmapInv ==
  /\ file \in [Object -> Members]
  /\ fileSize \in [Path -> Size \cup {0}]
  /\ lost \subseteq Handle
  /\ \A o \in Object : /\ file[o].fd # Null <=> file[o].path # Null
                       /\ file[o].data # Null <=> file[o].size # 0
                       /\ file[o].data # Null => file[o].fd # Null
  /\ \A o, p \in Object : file[o].path = file[p].path /\ file[o].path # Null => o = p
  /\ OwnedOnce /\ NoLeaks /\ BytesBacked /\ DirtyIsMapped

=============================================================================
