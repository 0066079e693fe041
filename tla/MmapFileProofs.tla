--------------------------- MODULE MmapFileProofs ---------------------------
(***************************************************************************)
(* Proofs about MmapFile, for any number of objects, paths, descriptors,   *)
(* addresses and sizes.                                                    *)
(***************************************************************************)
EXTENDS MmapFile, WellFoundedInduction, TLAPS

(***************************************************************************)
(* The system's numbers, and the functions that hold them.                 *)
(***************************************************************************)
\* A free number is handed out if there is one.
LEMMA LowestIsFree ==
  ASSUME NEW used, Handle \ used # {}
  PROVE  Lowest(used) \in Handle \ used
<1> DEFINE R == OpToRel(<, Nat)
           free == Handle \ used
<1>1. IsWellFoundedOn(R, Nat)
  BY NatLessThanWellFounded, Zenon
<1>2. free \subseteq Nat /\ free # {}
  BY HandleAssumption, Zenon
<1>3. \A x, y \in Nat : y < x => <<y, x>> \in R
  BY Zenon DEF OpToRel
<1> HIDE DEF R, free
<1>4. PICK h \in free : \A g \in free : <<g, h>> \notin R
  BY <1>1, <1>2, WFMin, Zenon
<1>5. ASSUME NEW g \in free PROVE h <= g
  <2>1. g \in Nat /\ h \in Nat /\ <<g, h>> \notin R
    BY <1>2, <1>4, Zenon
  <2>2. ~(g < h)
    BY <1>3, <2>1, Zenon
  <2>3. QED
    BY <2>1, <2>2
<1>6. QED
  BY <1>5, Zenon DEF Lowest, free

\* The initial state satisfies the invariant.
LEMMA InitMmapInv == Init => MmapInv
BY HandleAssumption
   DEF Init, MmapInv, Members, Closed, Null, OwnedOnce, NoLeaks, BytesBacked, DirtyIsMapped, valid,
       Descriptors, Mappings

(***************************************************************************)
(* The invariant, said of every object and every number.                   *)
(***************************************************************************)
LEMMA NoLeaksPointwise ==
  NoLeaks <=>
    /\ \A h : h \in DOMAIN open <=> \E o \in Object : file[o].fd # Null /\ h = file[o].fd
    /\ \A h : h \in DOMAIN mapped <=>
               h \in lost \/ \E o \in Object : file[o].data # Null /\ h = file[o].data
<1>1. DOMAIN open = {file[o].fd : o \in Descriptors} <=>
        \A h : h \in DOMAIN open <=> \E o \in Object : file[o].fd # Null /\ h = file[o].fd
  BY Zenon DEF Descriptors
<1>2. DOMAIN mapped = {file[o].data : o \in Mappings} \cup lost <=>
        \A h : h \in DOMAIN mapped <=>
              h \in lost \/ \E o \in Object : file[o].data # Null /\ h = file[o].data
  BY Zenon DEF Mappings
<1>3. QED
  BY <1>1, <1>2, Zenon DEF NoLeaks

\* The same of the next state.
LEMMA NoLeaksPointwisePrime ==
  NoLeaks' <=>
    /\ \A h : h \in DOMAIN open' <=> \E o \in Object : file'[o].fd # Null /\ h = file'[o].fd
    /\ \A h : h \in DOMAIN mapped' <=>
               h \in lost' \/ \E o \in Object : file'[o].data # Null /\ h = file'[o].data
<1>1. DOMAIN open' = {file'[o].fd : o \in Descriptors'} <=>
        \A h : h \in DOMAIN open' <=> \E o \in Object : file'[o].fd # Null /\ h = file'[o].fd
  BY Zenon DEF Descriptors
<1>2. DOMAIN mapped' = {file'[o].data : o \in Mappings'} \cup lost' <=>
        \A h : h \in DOMAIN mapped' <=>
              h \in lost' \/ \E o \in Object : file'[o].data # Null /\ h = file'[o].data
  BY Zenon DEF Mappings
<1>3. QED
  BY <1>1, <1>2, Zenon DEF NoLeaks

\* Opening or creating a file at a path no object uses.
LEMMA AcquiredInv ==
  ASSUME MmapInv, NEW o \in Object, NEW p \in Path, NEW n \in Size, NEW flush \in BOOLEAN,
         file[o] = Closed, PathFree(p), Acquired(o, p, n, flush),
         fileSize' = [fileSize EXCEPT ![p] = n], lost' = lost,
         dirty' \ unsynced' \subseteq dirty \ unsynced
  PROVE  MmapInv'
<1> DEFINE fd == Lowest(DOMAIN open)
           data == Lowest(DOMAIN mapped)
<1>1. /\ fd \in Handle \ DOMAIN open /\ data \in Handle \ DOMAIN mapped
      /\ DOMAIN open' = DOMAIN open \cup {fd} /\ open'[fd] = p
      /\ \A h \in DOMAIN open : open'[h] = open[h]
      /\ DOMAIN mapped' = DOMAIN mapped \cup {data}
      /\ mapped'[data] = [path |-> p, size |-> n]
      /\ \A h \in DOMAIN mapped : mapped'[h] = mapped[h]
      /\ file' = [file EXCEPT ![o] = [fd |-> fd, data |-> data, size |-> n,
                                      path |-> p, flush |-> flush]]
  <2>1. fd \in Handle \ DOMAIN open /\ data \in Handle \ DOMAIN mapped
    BY LowestIsFree, Zenon DEF Acquired
  <2>2. /\ open' = With(open, fd, p)
        /\ mapped' = With(mapped, data, [path |-> p, size |-> n])
        /\ file' = [file EXCEPT ![o] = [fd |-> fd, data |-> data, size |-> n,
                                        path |-> p, flush |-> flush]]
    BY Zenon DEF Acquired
  <2> HIDE DEF fd, data
  <2>3. /\ DOMAIN open' = DOMAIN open \cup {fd} /\ open'[fd] = p
        /\ \A h \in DOMAIN open : open'[h] = open[h]
    BY <2>1, <2>2, Zenon DEF With
  <2>4. /\ DOMAIN mapped' = DOMAIN mapped \cup {data}
        /\ mapped'[data] = [path |-> p, size |-> n]
        /\ \A h \in DOMAIN mapped : mapped'[h] = mapped[h]
    BY <2>1, <2>2, Zenon DEF With
  <2>5. QED
    BY <2>1, <2>2, <2>3, <2>4, Zenon
<1> HIDE DEF fd, data
<1> USE HandleAssumption DEF Null
<1>2. /\ file[o].fd = 0 /\ file[o].data = 0 /\ file[o].size = 0 /\ file[o].path = 0
      /\ \A q \in Object : file[q].path # p
  BY DEF Closed, PathFree
<1>3. /\ file'[o].fd = fd /\ file'[o].data = data /\ file'[o].size = n /\ file'[o].path = p
      /\ \A q \in Object : q # o => file'[q] = file[q]
      /\ fd # 0 /\ data # 0 /\ n # 0 /\ p # 0
  BY <1>1, Zenon DEF MmapInv
<1>4. /\ file' \in [Object -> Members]
      /\ fileSize' \in [Path -> Size \cup {0}]
      /\ lost' \subseteq Handle
  <2>1. [fd |-> fd, data |-> data, size |-> n, path |-> p, flush |-> flush] \in Members
    BY <1>1, Zenon DEF Members
  <2>2. QED
    BY <1>1, <2>1, Zenon DEF MmapInv
<1>5. /\ \A q \in Object : /\ file'[q].fd # 0 <=> file'[q].path # 0
                           /\ file'[q].data # 0 <=> file'[q].size # 0
                           /\ file'[q].data # 0 => file'[q].fd # 0
      /\ \A q, r \in Object : file'[q].path = file'[r].path /\ file'[q].path # 0 => q = r
  BY <1>2, <1>3 DEF MmapInv
<1>6. OwnedOnce'
  <2>1. fd # 0 /\ data # 0 /\ lost \subseteq DOMAIN mapped
    BY <1>1, Zenon DEF MmapInv, NoLeaks
  <2>2. /\ \A q \in Descriptors : file[q].fd \in DOMAIN open /\ file[q].fd # fd
        /\ \A q \in Mappings : file[q].data \in DOMAIN mapped /\ file[q].data # data
    BY <1>1 DEF MmapInv, OwnedOnce
  <2>3. Descriptors' = Descriptors \cup {o} /\ Mappings' = Mappings \cup {o}
    BY <1>3, <2>1, Zenon DEF Descriptors, Mappings
  <2>4. o \notin Descriptors /\ o \notin Mappings
    BY <1>2, Zenon DEF Descriptors, Mappings
  <2>5. Descriptors \subseteq Object /\ Mappings \subseteq Object
    BY Zenon DEF Descriptors, Mappings
  <2>6. QED
    BY <1>1, <1>3, <2>1, <2>2, <2>3, <2>4, <2>5 DEF MmapInv, OwnedOnce
<1>7. NoLeaks'
  <2>1. NoLeaks
    BY Zenon DEF MmapInv
  <2>2. QED
    BY <1>1, <1>2, <1>3, <2>1, NoLeaksPointwise, NoLeaksPointwisePrime
<1>8. BytesBacked'
  BY <1>1, <1>2, <1>3 DEF MmapInv, BytesBacked, OwnedOnce, Mappings, valid
<1>9. DirtyIsMapped'
  BY <1>2, <1>3 DEF MmapInv, DirtyIsMapped, valid
<1>10. QED
  BY <1>4, <1>5, <1>6, <1>7, <1>8, <1>9, Zenon DEF MmapInv

\* create: the new file has the size it was given.
LEMMA CreateInv ==
  \A o \in Object, p \in Path, n \in Size, flush \in BOOLEAN :
    MmapInv /\ Create(o, p, n, flush) => MmapInv'
<1> SUFFICES ASSUME NEW o \in Object, NEW p \in Path, NEW n \in Size, NEW flush \in BOOLEAN,
                    MmapInv, Create(o, p, n, flush)
             PROVE  MmapInv'
  BY Zenon
<1>1. /\ file[o] = Closed /\ PathFree(p) /\ Acquired(o, p, n, flush) /\ lost' = lost
      /\ fileSize' = [fileSize EXCEPT ![p] = n]
      /\ dirty' \ unsynced' = (dirty \ {p}) \ (unsynced \ {p})
  BY Zenon DEF Create
<1>2. dirty' \ unsynced' \subseteq dirty \ unsynced
  BY <1>1, Zenon
<1>3. QED
  BY <1>1, <1>2, AcquiredInv, Zenon

\* open_existing: the object takes the size of the file.
LEMMA OpenExistingInv ==
  \A o \in Object, p \in Path, flush \in BOOLEAN :
    MmapInv /\ OpenExisting(o, p, flush) => MmapInv'
<1> SUFFICES ASSUME NEW o \in Object, NEW p \in Path, NEW flush \in BOOLEAN,
                    MmapInv, OpenExisting(o, p, flush)
             PROVE  MmapInv'
  BY Zenon
<1> DEFINE n == fileSize[p]
<1>1. /\ file[o] = Closed /\ PathFree(p) /\ Acquired(o, p, n, flush) /\ lost' = lost
      /\ n # 0 /\ fileSize' = fileSize /\ dirty' \ unsynced' \subseteq dirty \ unsynced
  BY Zenon DEF OpenExisting
<1>2. n \in Size /\ fileSize' = [fileSize EXCEPT ![p] = n]
  BY <1>1, Zenon DEF MmapInv
<1> HIDE DEF n
<1>3. QED
  BY <1>1, <1>2, AcquiredInv, Zenon

\* Steps that leave every object and resource as it is.
LEMMA CreateFailsInv ==
  \A p \in Path, n \in Size \cup {0} : MmapInv /\ CreateFails(p, n) => MmapInv'
<1> SUFFICES ASSUME NEW p \in Path, NEW n \in Size \cup {0}, MmapInv, CreateFails(p, n)
             PROVE  MmapInv'
  BY Zenon
<1>1. /\ UNCHANGED <<file, open, mapped, lost>>
      /\ fileSize' = [fileSize EXCEPT ![p] = n]
      /\ \A o \in Object : file[o].path # p
      /\ dirty' \ unsynced' \subseteq dirty \ unsynced
  BY Zenon DEF CreateFails, PathFree
<1>2. OwnedOnce' /\ NoLeaks'
  BY <1>1 DEF MmapInv, OwnedOnce, NoLeaks, Descriptors, Mappings
<1>3. fileSize' \in [Path -> Size \cup {0}] /\ BytesBacked'
  BY <1>1 DEF MmapInv, BytesBacked, valid
<1>4. DirtyIsMapped'
  BY <1>1, Zenon DEF MmapInv, DirtyIsMapped, valid
<1>5. QED
  BY <1>1, <1>2, <1>3, <1>4, Zenon DEF MmapInv

\* A write through the span, and flush.
LEMMA WriteInv == \A o \in Object : MmapInv /\ (Write(o) \/ Flush(o)) => MmapInv'
<1> SUFFICES ASSUME NEW o \in Object, MmapInv, Write(o) \/ Flush(o) PROVE MmapInv'
  BY Zenon
<1>1. /\ UNCHANGED <<file, open, mapped, fileSize, lost, unsynced>> /\ valid(o)
      /\ dirty' \subseteq dirty \cup {file[o].path}
  BY Zenon DEF Write, Flush
<1>2. OwnedOnce' /\ NoLeaks' /\ BytesBacked'
  BY <1>1 DEF MmapInv, OwnedOnce, NoLeaks, BytesBacked, Descriptors, Mappings, valid
<1>3. DirtyIsMapped'
  BY <1>1, Zenon DEF MmapInv, DirtyIsMapped, valid
<1>4. QED
  BY <1>1, <1>2, <1>3, Zenon DEF MmapInv

\* What detaching an object does: it keeps its descriptor and its path.
LEMMA DetachedEffect ==
  ASSUME MmapInv, NEW o \in Object, file' = Detached(o)
  PROVE  /\ file' \in [Object -> Members]
         /\ file'[o].fd = file[o].fd /\ file'[o].path = file[o].path
         /\ file'[o].data = 0 /\ file'[o].size = 0
         /\ \A q \in Object : q # o => file'[q] = file[q]
<1>1. file \in [Object -> Members]
  BY Zenon DEF MmapInv
<1> DEFINE m == [[file[o] EXCEPT !.data = 0] EXCEPT !.size = 0]
<1>2. /\ m \in Members /\ m.fd = file[o].fd /\ m.path = file[o].path
      /\ m.data = 0 /\ m.size = 0
  <2>1. file[o] \in Members
    BY <1>1, Zenon
  <2>2. QED
    BY <2>1, Zenon DEF Members, Null
<1>3. file' = [file EXCEPT ![o] = m]
  BY <1>1, Zenon DEF Detached, Null, Members
<1> HIDE DEF m
<1>4. QED
  BY <1>1, <1>2, <1>3, Zenon

\* What a valid object holds.
LEMMA ValidHolds ==
  ASSUME MmapInv, NEW o \in Object, valid(o)
  PROVE  /\ file[o].fd # 0 /\ file[o].data # 0 /\ file[o].size # 0
         /\ file[o].path \in Path /\ file[o].data \in Handle
         /\ file[o].data \in DOMAIN mapped /\ file[o].data \notin lost
         /\ \A q \in Object : file[q].data # 0 /\ q # o => file[q].data # file[o].data
         /\ \A q \in Object : q # o => file[q].path # file[o].path
BY HandleAssumption DEF MmapInv, Members, OwnedOnce, Mappings, valid, Null

\* A detached object with its mapping kept or gone, and its file of any length.
LEMMA DetachedInv ==
  ASSUME MmapInv, NEW o \in Object, valid(o), file' = Detached(o),
         dirty' = dirty \ {file[o].path}, UNCHANGED <<open, unsynced>>,
         \/ mapped' = mapped /\ lost' = lost \cup {file[o].data} /\ fileSize' = fileSize
         \/ /\ mapped' = Less(mapped, file[o].data) /\ lost' = lost
            /\ \E n \in Size : fileSize' = [fileSize EXCEPT ![file[o].path] = n]
  PROVE  MmapInv'
<1> USE DEF Null
<1>1. /\ file' \in [Object -> Members]
      /\ file'[o].fd = file[o].fd /\ file'[o].path = file[o].path
      /\ file'[o].data = 0 /\ file'[o].size = 0
      /\ \A q \in Object : q # o => file'[q] = file[q]
  BY DetachedEffect, Zenon
<1>2. /\ file[o].fd # 0 /\ file[o].data # 0 /\ file[o].size # 0
      /\ file[o].path \in Path /\ file[o].data \in Handle
      /\ file[o].data \in DOMAIN mapped /\ file[o].data \notin lost
      /\ \A q \in Object : file[q].data # 0 /\ q # o => file[q].data # file[o].data
      /\ \A q \in Object : q # o => file[q].path # file[o].path
  BY ValidHolds, Zenon
<1>3. /\ \A h \in DOMAIN mapped : h # file[o].data =>
           h \in DOMAIN mapped' /\ mapped'[h] = mapped[h] /\ (h \in lost' <=> h \in lost)
      /\ \A h : h \in DOMAIN mapped' => h \in DOMAIN mapped
      /\ file[o].data \in DOMAIN mapped' <=> file[o].data \in lost'
      /\ \A h : h # file[o].data => (h \in lost' <=> h \in lost)
  BY <1>2, Zenon DEF Less
<1>4. /\ fileSize' \in [Path -> Size \cup {0}] /\ lost' \subseteq Handle
      /\ \A q \in Path : q # file[o].path => fileSize'[q] = fileSize[q]
  BY <1>2, Zenon DEF MmapInv
<1>5. /\ \A q \in Object : /\ file'[q].fd # 0 <=> file'[q].path # 0
                           /\ file'[q].data # 0 <=> file'[q].size # 0
                           /\ file'[q].data # 0 => file'[q].fd # 0
      /\ \A q, r \in Object : file'[q].path = file'[r].path /\ file'[q].path # 0 => q = r
  BY <1>1 DEF MmapInv
<1>6. OwnedOnce'
  <2>1. OwnedOnce
    BY Zenon DEF MmapInv
  <2>2. QED
    BY <1>1, <1>2, <1>3, <2>1 DEF OwnedOnce, Descriptors, Mappings
<1>7. NoLeaks'
  <2>1. NoLeaks
    BY Zenon DEF MmapInv
  <2>2. QED
    BY <1>1, <1>2, <1>3, <2>1, NoLeaksPointwise, NoLeaksPointwisePrime
<1>8. BytesBacked'
  <2> SUFFICES ASSUME NEW q \in Object, valid(q)'
               PROVE  /\ mapped'[file'[q].data].size = file'[q].size
                      /\ file'[q].size = fileSize'[file'[q].path]
    BY Zenon DEF BytesBacked
  <2>1. q # o /\ file'[q] = file[q] /\ valid(q)
    BY <1>1, Zenon DEF valid
  <2>2. /\ file[q].data \in DOMAIN mapped /\ file[q].data # file[o].data
        /\ file[q].path \in Path /\ file[q].path # file[o].path
    BY <1>2, <2>1, ValidHolds, Zenon
  <2>3. QED
    BY <1>3, <1>4, <2>1, <2>2 DEF MmapInv, BytesBacked
<1>9. DirtyIsMapped'
  BY <1>1, <1>2 DEF MmapInv, DirtyIsMapped, valid
<1>10. QED
  BY <1>1, <1>4, <1>5, <1>6, <1>7, <1>8, <1>9, Zenon DEF MmapInv

\* A resize that stops in the middle leaves the object without a mapping.
LEMMA ResizeStopsInv ==
  \A o \in Object : MmapInv /\ (ResizeUnmapFails(o) \/ \E n \in Size : ResizeFails(o, n))
                   => MmapInv'
<1> SUFFICES ASSUME NEW o \in Object, MmapInv,
                    ResizeUnmapFails(o) \/ \E n \in Size : ResizeFails(o, n)
             PROVE  MmapInv'
  BY Zenon
<1>1. /\ valid(o) /\ file' = Detached(o)
      /\ dirty' = dirty \ {file[o].path} /\ UNCHANGED <<open, unsynced>>
      /\ \/ mapped' = mapped /\ lost' = lost \cup {file[o].data} /\ fileSize' = fileSize
         \/ /\ mapped' = Less(mapped, file[o].data) /\ lost' = lost
            /\ \E n \in Size : fileSize' = [fileSize EXCEPT ![file[o].path] = n]
  BY Zenon DEF ResizeUnmapFails, ResizeFails
<1>2. QED
  BY <1>1, DetachedInv, Zenon

\* A resize that succeeds gives the object a mapping of the new size.
LEMMA ResizeInv == \A o \in Object, n \in Size : MmapInv /\ Resize(o, n) => MmapInv'
<1> SUFFICES ASSUME NEW o \in Object, NEW n \in Size, MmapInv, Resize(o, n) PROVE MmapInv'
  BY Zenon
<1> DEFINE free == Less(mapped, file[o].data)
           data == Lowest(DOMAIN free)
<1>1. /\ valid(o) /\ dirty' = dirty \ {file[o].path} /\ UNCHANGED <<open, lost, unsynced>>
      /\ mapped' = With(free, data, [path |-> file[o].path, size |-> n])
      /\ file' = [file EXCEPT ![o].data = data, ![o].size = n]
      /\ fileSize' = [fileSize EXCEPT ![file[o].path] = n]
  BY Zenon DEF Resize
<1>2. /\ file[o].fd # 0 /\ file[o].data # 0 /\ file[o].size # 0
      /\ file[o].path \in Path /\ file[o].data \in Handle
      /\ file[o].data \in DOMAIN mapped /\ file[o].data \notin lost
      /\ \A q \in Object : file[q].data # 0 /\ q # o => file[q].data # file[o].data
      /\ \A q \in Object : q # o => file[q].path # file[o].path
  BY <1>1, ValidHolds, Zenon
<1>3. /\ DOMAIN free = DOMAIN mapped \ {file[o].data}
      /\ \A h \in DOMAIN free : free[h] = mapped[h]
  BY Zenon DEF Less
<1>4. data \in Handle \ DOMAIN free
  BY <1>2, <1>3, LowestIsFree, Zenon
<1> HIDE DEF free, data
<1>5. /\ DOMAIN mapped' = DOMAIN free \cup {data}
      /\ mapped'[data] = [path |-> file[o].path, size |-> n]
      /\ \A h \in DOMAIN free : mapped'[h] = mapped[h]
  BY <1>1, <1>3, <1>4, Zenon DEF With
<1> USE HandleAssumption DEF Null
<1>6. /\ file' \in [Object -> Members]
      /\ file'[o].fd = file[o].fd /\ file'[o].path = file[o].path
      /\ file'[o].data = data /\ file'[o].size = n /\ data # 0 /\ n # 0
      /\ \A q \in Object : q # o => file'[q] = file[q]
  <2>1. data \in Handle /\ data # 0 /\ n # 0
    BY <1>4, Zenon
  <2>2. file \in [Object -> Members]
    BY Zenon DEF MmapInv
  <2>3. /\ file'[o].fd = file[o].fd /\ file'[o].path = file[o].path
        /\ file'[o].data = data /\ file'[o].size = n
        /\ \A q \in Object : q # o => file'[q] = file[q]
    BY <1>1, <2>2, Zenon DEF Members
  <2>4. file' \in [Object -> Members]
    <3>1. [file[o] EXCEPT !.data = data, !.size = n] \in Members
      BY <2>1, <2>2, Zenon DEF Members
    <3>2. file' = [file EXCEPT ![o] = [file[o] EXCEPT !.data = data, !.size = n]]
      BY <1>1, <2>2, Zenon
    <3>3. QED
      BY <2>2, <3>1, <3>2, Zenon
  <2>5. QED
    BY <2>1, <2>3, <2>4, Zenon
<1>7. /\ fileSize' \in [Path -> Size \cup {0}] /\ lost' \subseteq Handle
      /\ fileSize'[file[o].path] = n
      /\ \A q \in Path : q # file[o].path => fileSize'[q] = fileSize[q]
  BY <1>1, <1>2, Zenon DEF MmapInv
<1>8. /\ \A q \in Object : /\ file'[q].fd # 0 <=> file'[q].path # 0
                           /\ file'[q].data # 0 <=> file'[q].size # 0
                           /\ file'[q].data # 0 => file'[q].fd # 0
      /\ \A q, r \in Object : file'[q].path = file'[r].path /\ file'[q].path # 0 => q = r
  BY <1>2, <1>6 DEF MmapInv
<1>9. \A q \in Object : q # o /\ file[q].data # 0 =>
        file[q].data \in DOMAIN free /\ file[q].data # data
  BY <1>2, <1>3, <1>4 DEF MmapInv, OwnedOnce, Mappings
<1>10. lost \subseteq DOMAIN free /\ data \notin lost
  BY <1>2, <1>3, <1>4, NoLeaksPointwise, Zenon DEF MmapInv
<1>11. OwnedOnce'
  <2>1. OwnedOnce
    BY Zenon DEF MmapInv
  <2>2. QED
    BY <1>1, <1>2, <1>3, <1>5, <1>6, <1>9, <1>10, <2>1 DEF OwnedOnce, Descriptors, Mappings
<1>12. NoLeaks'
  <2>1. NoLeaks
    BY Zenon DEF MmapInv
  <2>2. QED
    BY <1>1, <1>2, <1>3, <1>5, <1>6, <1>9, <1>10, <2>1, NoLeaksPointwise, NoLeaksPointwisePrime
<1>13. BytesBacked'
  <2> SUFFICES ASSUME NEW q \in Object, valid(q)'
               PROVE  /\ mapped'[file'[q].data].size = file'[q].size
                      /\ file'[q].size = fileSize'[file'[q].path]
    BY Zenon DEF BytesBacked
  <2>1. CASE q = o
    BY <2>1, <1>5, <1>6, <1>7
  <2>2. CASE q # o
    <3>1. file'[q] = file[q] /\ valid(q)
      BY <2>2, <1>6, Zenon DEF valid
    <3>2. /\ file[q].data \in DOMAIN free
          /\ file[q].path \in Path /\ file[q].path # file[o].path
      BY <1>2, <1>9, <2>2, <3>1, ValidHolds, Zenon
    <3>3. QED
      BY <1>5, <1>7, <3>1, <3>2 DEF MmapInv, BytesBacked
  <2>3. QED
    BY <2>1, <2>2, Zenon
<1>14. DirtyIsMapped'
  BY <1>1, <1>2, <1>6, Zenon DEF MmapInv, DirtyIsMapped, valid
<1>15. QED
  BY <1>6, <1>7, <1>8, <1>11, <1>12, <1>13, <1>14, Zenon DEF MmapInv

(***************************************************************************)
(* close and the moves.                                                    *)
(***************************************************************************)
\* What a release does, whether the flush and munmap succeed or not.
LEMMA ReleaseEffect ==
  ASSUME MmapInv, NEW o \in Object, \E synced, unmaps \in BOOLEAN : Release(o, synced, unmaps)
  PROVE  /\ DOMAIN open' = DOMAIN open \ {file[o].fd}
         /\ \A h \in DOMAIN open' : open'[h] = open[h]
         /\ \A h : h # file[o].data => /\ h \in DOMAIN mapped' <=> h \in DOMAIN mapped
                                       /\ h \in lost' <=> h \in lost
         /\ \A h \in DOMAIN mapped' : mapped'[h] = mapped[h]
         /\ file[o].data \in DOMAIN mapped' <=> file[o].data \in lost'
         /\ lost' \subseteq Handle
         /\ \A p \in dirty' \ unsynced' :
              p \in dirty \ unsynced /\ (valid(o) => p # file[o].path)
<1>1. /\ open' = Less(open, file[o].fd)
      /\ \/ mapped' = Less(mapped, file[o].data) /\ lost' = lost
         \/ /\ mapped' = mapped
            /\ lost' = IF file[o].data # Null THEN lost \cup {file[o].data} ELSE lost
  BY Zenon DEF Release
<1>2. \A p \in dirty' \ unsynced' :
        p \in dirty \ unsynced /\ (valid(o) => p # file[o].path)
  BY Zenon DEF Release
<1>3. /\ file[o].data # Null => file[o].data \in DOMAIN mapped \ lost
      /\ file[o].data \in Handle \cup {0} /\ lost \subseteq Handle
      /\ 0 \notin DOMAIN mapped /\ 0 \notin lost
  <2>1. lost \subseteq Handle /\ file[o].data \in Handle \cup {0}
    BY Zenon DEF MmapInv, Members, Null
  <2>2. 0 \notin DOMAIN mapped /\ 0 \notin lost
    BY <2>1, HandleAssumption, NoLeaksPointwise, Zenon DEF MmapInv, Null
  <2>3. QED
    BY <2>1, <2>2, Zenon DEF MmapInv, OwnedOnce, Mappings
<1>4. QED
  BY <1>1, <1>2, <1>3, Zenon DEF Less, Null

\* The object o is released, and what the others hold stays with them or
\* changes hands: was[q] is the object that held what q holds now.
LEMMA ReleasedInv ==
  ASSUME MmapInv, NEW o \in Object, \E synced, unmaps \in BOOLEAN : Release(o, synced, unmaps),
         file' \in [Object -> Members], fileSize' = fileSize,
         NEW live \in SUBSET Object, NEW was \in [live -> Object \ {o}],
         \A q, r \in live : was[q] = was[r] => q = r,
         \A q \in Object \ {o} : file[q].fd # 0 => \E r \in live : was[r] = q,
         \A q \in live : /\ file'[q].fd = file[was[q]].fd /\ file'[q].data = file[was[q]].data
                         /\ file'[q].size = file[was[q]].size
                         /\ file'[q].path = file[was[q]].path,
         \A q \in Object \ live : /\ file'[q].fd = 0 /\ file'[q].data = 0
                                  /\ file'[q].size = 0 /\ file'[q].path = 0
  PROVE  MmapInv'
<1> USE DEF Null
<1>1. /\ DOMAIN open' = DOMAIN open \ {file[o].fd}
      /\ \A h \in DOMAIN open' : open'[h] = open[h]
      /\ \A h : h # file[o].data => /\ h \in DOMAIN mapped' <=> h \in DOMAIN mapped
                                    /\ h \in lost' <=> h \in lost
      /\ \A h \in DOMAIN mapped' : mapped'[h] = mapped[h]
      /\ file[o].data \in DOMAIN mapped' <=> file[o].data \in lost'
      /\ lost' \subseteq Handle
      /\ \A p \in dirty' \ unsynced' :
           p \in dirty \ unsynced /\ (valid(o) => p # file[o].path)
  BY ReleaseEffect, Zenon
<1>2. /\ \A q \in Object : /\ file'[q].fd # 0 <=> file'[q].path # 0
                           /\ file'[q].data # 0 <=> file'[q].size # 0
                           /\ file'[q].data # 0 => file'[q].fd # 0
      /\ \A q, r \in Object : file'[q].path = file'[r].path /\ file'[q].path # 0 => q = r
  BY DEF MmapInv
<1> OwnedOnce
  BY Zenon DEF MmapInv
<1>3. /\ \A q \in Object \ {o} : file[q].fd # 0 => file[q].fd # file[o].fd
      /\ \A q \in Object \ {o} : file[q].data # 0 => file[q].data # file[o].data
  BY DEF OwnedOnce, Descriptors, Mappings
<1>4. OwnedOnce'
  <2>1. \A q \in live : /\ file'[q].fd # 0 => was[q] \in Descriptors
                        /\ file'[q].data # 0 => was[q] \in Mappings
    BY Zenon DEF Descriptors, Mappings
  <2>2. \A q \in Descriptors' : q \in live /\ file'[q].fd # 0
    BY Zenon DEF Descriptors
  <2>3. \A q \in Mappings' : q \in live /\ file'[q].data # 0
    BY Zenon DEF Mappings
  <2>4. \A q \in Descriptors' : /\ file'[q].fd \in DOMAIN open'
                                /\ open'[file'[q].fd] = file'[q].path
    BY <1>1, <1>3, <2>1, <2>2 DEF OwnedOnce
  <2>5. \A q \in Mappings' : /\ file'[q].data \in DOMAIN mapped' \ lost'
                             /\ mapped'[file'[q].data].path = file'[q].path
    BY <1>1, <1>3, <2>1, <2>3 DEF OwnedOnce
  <2>6. \A q, r \in Descriptors' : file'[q].fd = file'[r].fd => q = r
    BY <2>1, <2>2 DEF OwnedOnce
  <2>7. \A q, r \in Mappings' : file'[q].data = file'[r].data => q = r
    BY <2>1, <2>3 DEF OwnedOnce
  <2>8. QED
    BY <2>4, <2>5, <2>6, <2>7, Zenon DEF OwnedOnce
<1>5. NoLeaks'
  <2>1. ASSUME NEW h PROVE h \in DOMAIN open' <=>
                           \E q \in Object : file'[q].fd # 0 /\ h = file'[q].fd
    <3>1. h \in DOMAIN open <=> \E q \in Object : file[q].fd # 0 /\ h = file[q].fd
      BY NoLeaksPointwise, Zenon DEF MmapInv
    <3>2. QED
      BY <1>1, <1>3, <3>1
  <2>2. ASSUME NEW h PROVE h \in DOMAIN mapped' <=>
                           h \in lost' \/ \E q \in Object : file'[q].data # 0 /\ h = file'[q].data
    <3>1. CASE h = file[o].data
      <4>1. \A q \in Object : file'[q].data # 0 => file'[q].data # file[o].data
        BY <1>3
      <4>2. QED
        BY <3>1, <4>1, <1>1, Zenon
    <3>2. CASE h # file[o].data
      <4>1. h \in DOMAIN mapped <=>
              h \in lost \/ \E q \in Object : file[q].data # 0 /\ h = file[q].data
        BY NoLeaksPointwise, Zenon DEF MmapInv
      <4>2. \A q \in Object \ {o} : file[q].data # 0 =>
              \E r \in live : file'[r].data = file[q].data
        BY DEF MmapInv
      <4>3. \A q \in Object : file'[q].data # 0 =>
              \E r \in Object : file'[q].data = file[r].data
        OBVIOUS
      <4>4. QED
        BY <1>1, <3>2, <4>1, <4>2, <4>3
    <3>3. QED
      BY <3>1, <3>2, Zenon
  <2>3. QED
    BY <2>1, <2>2, NoLeaksPointwisePrime, Zenon
<1>6. BytesBacked'
  <2> SUFFICES ASSUME NEW q \in Object, valid(q)'
               PROVE  /\ mapped'[file'[q].data].size = file'[q].size
                      /\ file'[q].size = fileSize'[file'[q].path]
    BY Zenon DEF BytesBacked
  <2>1. q \in live /\ was[q] \in Object \ {o} /\ valid(was[q])
    BY Zenon DEF valid
  <2>2. file[was[q]].data \in DOMAIN mapped'
    BY <1>1, <1>3, <2>1, ValidHolds, Zenon
  <2>3. QED
    <3>1. /\ mapped[file[was[q]].data].size = file[was[q]].size
          /\ file[was[q]].size = fileSize[file[was[q]].path]
      BY <2>1, Zenon DEF MmapInv, BytesBacked
    <3>2. /\ file'[q].data = file[was[q]].data /\ file'[q].size = file[was[q]].size
          /\ file'[q].path = file[was[q]].path
      BY <2>1, Zenon
    <3>3. mapped'[file[was[q]].data] = mapped[file[was[q]].data]
      BY <1>1, <2>2, Zenon
    <3>4. QED
      BY <3>1, <3>2, <3>3
<1>7. DirtyIsMapped'
  <2> SUFFICES ASSUME NEW p \in dirty' \ unsynced'
               PROVE  \E q \in Object : valid(q)' /\ file'[q].path = p
    BY Zenon DEF DirtyIsMapped
  <2>1. PICK r \in Object : valid(r) /\ file[r].path = p
    BY <1>1, Zenon DEF MmapInv, DirtyIsMapped
  <2>2. r # o
    BY <1>1, <2>1, Zenon
  <2>3. PICK q \in live : was[q] = r
    BY <2>1, <2>2, Zenon DEF valid
  <2>4. QED
    BY <2>1, <2>3, Zenon DEF valid
<1>8. QED
  BY <1>1, <1>2, <1>4, <1>5, <1>6, <1>7, Zenon DEF MmapInv

\* close, whether or not msync and munmap succeed.
LEMMA CloseInv ==
  \A o \in Object : MmapInv /\ (\E synced, unmaps \in BOOLEAN : Close(o, synced, unmaps))
                   => MmapInv'
<1> SUFFICES ASSUME NEW o \in Object, MmapInv,
                    \E synced, unmaps \in BOOLEAN : Close(o, synced, unmaps)
             PROVE  MmapInv'
  BY Zenon
<1> DEFINE live == Object \ {o}
           was == [q \in live |-> q]
<1>1. /\ \E synced, unmaps \in BOOLEAN : Release(o, synced, unmaps)
      /\ file' = [file EXCEPT ![o] = Closed] /\ fileSize' = fileSize
  BY Zenon DEF Close
<1>2. Closed \in Members
  BY Zenon DEF Closed, Members
<1>3. file' \in [Object -> Members]
  BY <1>1, <1>2, Zenon DEF MmapInv
<1>4. /\ live \in SUBSET Object /\ was \in [live -> Object \ {o}]
      /\ \A q, r \in live : was[q] = was[r] => q = r
      /\ \A q \in Object \ {o} : file[q].fd # 0 => \E r \in live : was[r] = q
  BY Zenon
<1>5. /\ \A q \in live : file'[q] = file[was[q]]
      /\ \A q \in Object \ live : /\ file'[q].fd = 0 /\ file'[q].data = 0
                                /\ file'[q].size = 0 /\ file'[q].path = 0
  BY <1>1, Zenon DEF MmapInv, Closed, Null
<1> HIDE DEF live, was
<1>6. QED
  BY <1>1, <1>3, <1>4, <1>5, ReleasedInv

\* A move assignment closes what the target held and empties the source.
LEMMA MoveInv ==
  \A o, src \in Object : MmapInv /\ (\E synced, unmaps \in BOOLEAN : Move(o, src, synced, unmaps))
                        => MmapInv'
<1> SUFFICES ASSUME NEW o \in Object, NEW src \in Object, MmapInv,
                    \E synced, unmaps \in BOOLEAN : Move(o, src, synced, unmaps)
             PROVE  MmapInv'
  BY Zenon
<1> DEFINE live == Object \ {src}
           was == [q \in live |-> IF q = o THEN src ELSE q]
<1>1. /\ \E synced, unmaps \in BOOLEAN : Release(o, synced, unmaps)
      /\ o # src /\ file' = [file EXCEPT ![o] = file[src], ![src] = MovedFrom(src)]
      /\ fileSize' = fileSize
  BY Zenon DEF Move
<1>2. /\ MovedFrom(src) \in Members
      /\ MovedFrom(src).fd = 0 /\ MovedFrom(src).data = 0
      /\ MovedFrom(src).size = 0 /\ MovedFrom(src).path = 0
  BY Zenon DEF MmapInv, MovedFrom, Closed, Members, Null
<1>3. file' \in [Object -> Members]
  BY <1>1, <1>2, Zenon DEF MmapInv
<1>4. /\ live \in SUBSET Object /\ was \in [live -> Object \ {o}]
      /\ \A q, r \in live : was[q] = was[r] => q = r
      /\ \A q \in Object \ {o} : file[q].fd # 0 => \E r \in live : was[r] = q
  BY <1>1, Zenon
<1>5. /\ \A q \in live : file'[q] = file[was[q]]
      /\ \A q \in Object \ live : /\ file'[q].fd = 0 /\ file'[q].data = 0
                                /\ file'[q].size = 0 /\ file'[q].path = 0
  BY <1>1, <1>2, Zenon DEF MmapInv
<1>6. /\ \E synced, unmaps \in BOOLEAN : Release(o, synced, unmaps)
      /\ fileSize' = fileSize
  BY <1>1, Zenon
<1> HIDE DEF live, was
<1>7. QED
  BY <1>3, <1>4, <1>5, <1>6, ReleasedInv

\* The invariant is inductive.
LEMMA NextMmapInv == MmapInv /\ [Next]_vars => MmapInv'
<1> SUFFICES ASSUME MmapInv, [Next]_vars PROVE MmapInv'
  BY Zenon
<1>1. CASE UNCHANGED vars
  <2>1. OwnedOnce' /\ NoLeaks'
    <3>1. UNCHANGED <<file, open, mapped, lost>> /\ OwnedOnce /\ NoLeaks
      BY <1>1, Zenon DEF vars, MmapInv
    <3>2. Descriptors' = Descriptors /\ Mappings' = Mappings
      BY <3>1, Zenon DEF Descriptors, Mappings
    <3>3. QED
      BY <3>1, <3>2 DEF OwnedOnce, NoLeaks
  <2>2. BytesBacked' /\ DirtyIsMapped'
    BY <1>1, Zenon DEF vars, MmapInv, BytesBacked, DirtyIsMapped, valid
  <2>3. QED
    BY <1>1, <2>1, <2>2, Zenon DEF vars, MmapInv
<1>2. ASSUME Next PROVE MmapInv'
  <2>1. PICK o \in Object :
          \/ \E p \in Path, flush \in BOOLEAN :
               (\E n \in Size : Create(o, p, n, flush)) \/ OpenExisting(o, p, flush)
          \/ \E p \in Path, n \in Size \cup {0} : CreateFails(p, n)
          \/ Write(o) \/ Flush(o)
          \/ ResizeUnmapFails(o)
          \/ \E n \in Size : ResizeFails(o, n) \/ Resize(o, n)
          \/ \E synced, unmaps \in BOOLEAN : Close(o, synced, unmaps)
          \/ \E src \in Object : \E synced, unmaps \in BOOLEAN : Move(o, src, synced, unmaps)
    BY <1>2, Zenon DEF Next
  <2>2. CASE \E p \in Path, flush \in BOOLEAN :
               (\E n \in Size : Create(o, p, n, flush)) \/ OpenExisting(o, p, flush)
    BY <2>2, CreateInv, OpenExistingInv, Zenon
  <2>3. CASE (\E p \in Path, n \in Size \cup {0} : CreateFails(p, n)) \/ Write(o) \/ Flush(o)
    BY <2>3, CreateFailsInv, WriteInv, Zenon
  <2>4. CASE ResizeUnmapFails(o) \/ \E n \in Size : ResizeFails(o, n) \/ Resize(o, n)
    BY <2>4, ResizeStopsInv, ResizeInv, Zenon
  <2>5. CASE \E synced, unmaps \in BOOLEAN : Close(o, synced, unmaps)
    BY <2>5, CloseInv, Zenon
  <2>6. CASE \E src \in Object : \E synced, unmaps \in BOOLEAN : Move(o, src, synced, unmaps)
    BY <2>6, MoveInv, Zenon
  <2>7. QED
    BY <2>1, <2>2, <2>3, <2>4, <2>5, <2>6, Zenon
<1>3. QED
  BY <1>1, <1>2, Zenon

\* The invariant holds at every moment.
LEMMA MmapInvariance == Spec => []MmapInv
BY InitMmapInv, NextMmapInv, PTL DEF Spec

-----------------------------------------------------------------------------
(***************************************************************************)
(* However the program creates, resizes, moves and closes MmapFile objects *)
(* and whichever system calls fail, no object holds a descriptor or an     *)
(* address that another one holds or that was released.                    *)
(***************************************************************************)
THEOREM Ownership == Spec => []OwnedOnce
<1>1. MmapInv => OwnedOnce
  BY Zenon DEF MmapInv
<1>2. QED
  BY <1>1, MmapInvariance, PTL

(***************************************************************************)
(* Every open descriptor and every mapping belongs to an object, but for   *)
(* mappings that munmap refused to release.                                *)
(***************************************************************************)
THEOREM NothingLeaks == Spec => []NoLeaks
<1>1. MmapInv => NoLeaks
  BY Zenon DEF MmapInv
<1>2. QED
  BY <1>1, MmapInvariance, PTL

(***************************************************************************)
(* bytes() of a valid object is mapped and backed by its file, also after  *)
(* a resize() that failed halfway.                                         *)
(***************************************************************************)
THEOREM SpanIsBacked == Spec => []BytesBacked
<1>1. MmapInv => BytesBacked
  BY Zenon DEF MmapInv
<1>2. QED
  BY <1>1, MmapInvariance, PTL

(***************************************************************************)
(* close(), the destructor, resize() and the moves let go of unflushed     *)
(* bytes only when they were told to or msync failed.                      *)
(***************************************************************************)
THEOREM DirtyStaysMapped == Spec => []DirtyIsMapped
<1>1. MmapInv => DirtyIsMapped
  BY Zenon DEF MmapInv
<1>2. QED
  BY <1>1, MmapInvariance, PTL

=============================================================================
