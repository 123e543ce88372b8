---------------------------- MODULE OpenFilesProofs ----------------------------
(***************************************************************************)
(* The list of channels and the open descriptors agree: every entry of the *)
(* list can be closed, and while CLOSE# only closes the newest channel the *)
(* list is complete, so that no statement aborts.  And the item pointer of *)
(* a channel agrees with its offset: PTR# = n goes to the end of the n-th  *)
(* item (SkipSelects, by induction on n), and PRINT# and INPUT# count what *)
(* they write and read (OneMoreItem).                                      *)
(***************************************************************************)
EXTENDS OpenFiles, SequenceTheorems, FiniteSetTheorems, Induction

(* The list is a sequence of entries, and the newest entry is its head.    *)
(* What a pointer is does not matter here, so no set of pointers is fixed. *)
Entry(P) == [fd: Fds, ptr: P]
IsList(list) == \E P : list \in Seq(Entry(P))

FdsOf(list) == {list[i].fd : i \in DOMAIN list}
Distinct(list) ==
  \A i, j \in DOMAIN list : list[i].fd = list[j].fd => i = j

Inv ==
  /\ IsList(files_list)
  /\ Running => Listed \subseteq Open /\ Distinct(files_list)
  /\ NewestFirstIsSafe

-----------------------------------------------------------------------------
(* The operations of the list.                                             *)

(* A list is still one when more pointers are allowed.                     *)
LEMMA MorePointers ==
  ASSUME NEW P, NEW x, NEW list \in Seq(Entry(P))
  PROVE  list \in Seq(Entry(P \cup {x}))
<1>1. Entry(P) \subseteq Entry(P \cup {x})
  BY DEF Entry
<1> QED BY <1>1, SeqMonotonic

(* file_set_find: the entry of a listed descriptor.                        *)
LEMMA FindFinds ==
  ASSUME IsList(files_list), Distinct(files_list), NEW fd, fd \in Listed
  PROVE  /\ Find(fd) \in 1..Len(files_list)
         /\ files_list[Find(fd)].fd = fd
<1>1. PICK P : files_list \in Seq(Entry(P))
  BY DEF IsList
<1>2. DOMAIN files_list = 1..Len(files_list) /\ Len(files_list) \in Nat
  BY <1>1
<1>3. PICK i \in DOMAIN files_list : files_list[i].fd = fd
  BY DEF Listed
<1>4. \A j \in 1..(i - 1) : files_list[j].fd # fd
  BY <1>2, <1>3 DEF Distinct
<1> QED BY <1>2, <1>3, <1>4 DEF Find

(* file_set_add: one more entry, for a descriptor that was not listed.     *)
LEMMA AddedList ==
  ASSUME IsList(files_list), Distinct(files_list), NEW fd \in Fds, fd \notin Listed
  PROVE  /\ IsList(Added(fd)) /\ Distinct(Added(fd))
         /\ FdsOf(Added(fd)) = Listed \cup {fd}
<1>1. PICK P : files_list \in Seq(Entry(P))
  BY DEF IsList
<1> DEFINE Q == P \cup {0}
           new == [fd |-> fd, ptr |-> 0]
           list == Added(fd)
           n == Len(files_list)
<1>2. files_list \in Seq(Entry(Q))
  BY <1>1, MorePointers
<1>3. new \in Entry(Q) /\ new.fd = fd
  BY DEF Entry
<1> HIDE DEF new, Q
<1>4. /\ list \in Seq(Entry(Q)) /\ n \in Nat /\ Len(list) = n + 1
      /\ list[1] = new /\ \A i \in 1..n : list[i + 1] = files_list[i]
  BY <1>2, <1>3 DEF Added, new
<1>5. DOMAIN list = 1..(n + 1) /\ DOMAIN files_list = 1..n
  BY <1>2, <1>4
<1> HIDE DEF list, n
<1>6. \A k \in 2..(n + 1) : k - 1 \in 1..n /\ list[k] = files_list[k - 1]
  <2> SUFFICES ASSUME NEW k \in 2..(n + 1)
               PROVE  k - 1 \in 1..n /\ list[k] = files_list[k - 1]
    OBVIOUS
  <2>1. k - 1 \in 1..n /\ (k - 1) + 1 = k
    BY <1>4
  <2> QED BY <2>1, <1>4
<1>7. FdsOf(list) = Listed \cup {fd}
  <2>1. \A g \in FdsOf(list) : g \in Listed \cup {fd}
    <3> SUFFICES ASSUME NEW k \in 1..(n + 1)
                 PROVE  list[k].fd \in Listed \cup {fd}
      BY <1>5 DEF FdsOf
    <3>1. CASE k = 1
      BY <3>1, <1>3, <1>4
    <3>2. CASE k \in 2..(n + 1)
      BY <3>2, <1>5, <1>6 DEF Listed
    <3> QED BY <3>1, <3>2, <1>4
  <2>2. fd \in FdsOf(list)
    BY <1>3, <1>4, <1>5 DEF FdsOf
  <2>3. \A i \in 1..n : i + 1 \in 1..(n + 1)
    BY <1>4
  <2>4. Listed \subseteq FdsOf(list)
    BY <2>3, <1>4, <1>5 DEF FdsOf, Listed
  <2> QED BY <2>1, <2>2, <2>4
<1>8. Distinct(list)
  <2> SUFFICES ASSUME NEW i \in 1..(n + 1), NEW j \in 1..(n + 1),
                      list[i].fd = list[j].fd
               PROVE  i = j
    BY <1>5 DEF Distinct
  <2>1. \A k \in 2..(n + 1) : list[k].fd # fd
    BY <1>5, <1>6 DEF Listed
  <2>2. CASE i = 1 \/ j = 1
    BY <2>1, <2>2, <1>3, <1>4
  <2>3. CASE i \in 2..(n + 1) /\ j \in 2..(n + 1)
    <3>1. i - 1 \in 1..n /\ j - 1 \in 1..n
          /\ files_list[i - 1].fd = files_list[j - 1].fd
      BY <2>3, <1>6
    <3>2. i - 1 = j - 1
      BY <3>1, <1>5 DEF Distinct
    <3> QED BY <3>2, <1>4
  <2> QED BY <2>2, <2>3, <1>4
<1> QED BY <1>4, <1>7, <1>8 DEF IsList, list

(* file_set_remove: what is left was in the list and is not fd.  Nothing   *)
(* else goes if fd was the head.                                           *)
LEMMA RemovedList ==
  ASSUME IsList(files_list), Distinct(files_list), NEW fd
  PROVE  /\ IsList(Removed(fd)) /\ Distinct(Removed(fd))
         /\ FdsOf(Removed(fd)) \subseteq Listed \ {fd}
         /\ fd \in Listed /\ files_list[1].fd = fd
              => Listed \ {fd} \subseteq FdsOf(Removed(fd))
<1>1. CASE fd \notin Listed
  BY <1>1 DEF Removed, FdsOf, Listed
<1>2. CASE fd \in Listed
  <2>1. PICK P : files_list \in Seq(Entry(P))
    BY DEF IsList
  <2> DEFINE n == Len(files_list)
             h == Find(fd)
             list == Removed(fd)
  <2>2. h \in 1..n /\ files_list[h].fd = fd
    BY <1>2, FindFinds
  <2>3. n \in Nat /\ DOMAIN files_list = 1..n
    BY <2>1
  <2>4. list = SubSeq(files_list, h + 1, n)
    BY <1>2 DEF Removed
  <2> HIDE DEF list, n, h
  <2>5. /\ list \in Seq(Entry(P)) /\ Len(list) = n - h
        /\ DOMAIN list = 1..(n - h)
        /\ \A k \in 1..(n - h) : list[k] = files_list[k + h]
    <3>1. \A k \in (h + 1)..n : files_list[k] \in Entry(P)
      BY <2>1, <2>2, <2>3 DEF n
    <3> QED BY <2>1, <2>2, <2>3, <2>4, <3>1
  <2>6. \A k \in 1..(n - h) : k + h \in 1..n /\ k + h # h
    BY <2>2, <2>3
  <2>7. FdsOf(list) \subseteq Listed \ {fd}
    <3> SUFFICES ASSUME NEW k \in 1..(n - h)
                 PROVE  list[k].fd \in Listed \ {fd}
      BY <2>5 DEF FdsOf
    <3>1. list[k].fd = files_list[k + h].fd /\ k + h \in DOMAIN files_list
      BY <2>3, <2>5, <2>6
    <3>2. files_list[k + h].fd # fd
      BY <3>1, <2>2, <2>3, <2>6 DEF Distinct
    <3> QED BY <3>1, <3>2 DEF Listed
  <2>8. Distinct(list)
    <3> SUFFICES ASSUME NEW i \in 1..(n - h), NEW j \in 1..(n - h),
                        list[i].fd = list[j].fd
                 PROVE  i = j
      BY <2>5 DEF Distinct
    <3>1. i + h \in 1..n /\ j + h \in 1..n
          /\ files_list[i + h].fd = files_list[j + h].fd
      BY <2>5, <2>6
    <3>2. i + h = j + h
      BY <3>1, <2>3 DEF Distinct
    <3> QED BY <3>2, <2>2, <2>3
  <2>9. ASSUME files_list[1].fd = fd
        PROVE  Listed \ {fd} \subseteq FdsOf(list)
    <3>1. h = 1
      BY <2>2, <2>3, <2>9 DEF Distinct
    <3> SUFFICES ASSUME NEW i \in 1..n, files_list[i].fd # fd
                 PROVE  files_list[i].fd \in FdsOf(list)
      BY <2>3 DEF Listed
    <3>2. i - 1 \in 1..(n - h) /\ (i - 1) + h = i
      BY <3>1, <2>3, <2>9
    <3>3. list[i - 1] = files_list[i]
      BY <3>2, <2>5
    <3> QED BY <3>2, <3>3, <2>5 DEF FdsOf
  <2> QED BY <2>5, <2>7, <2>8, <2>9 DEF IsList, list
<1> QED BY <1>1, <1>2

(* Setting a pointer changes no descriptor.                                *)
LEMMA PointedList ==
  ASSUME IsList(files_list), Distinct(files_list), NEW fd, NEW x
  PROVE  /\ IsList(WithPtr(fd, x)) /\ Distinct(WithPtr(fd, x))
         /\ FdsOf(WithPtr(fd, x)) = Listed
<1>1. CASE fd \notin Listed
  BY <1>1 DEF WithPtr, FdsOf, Listed
<1>2. CASE fd \in Listed
  <2>1. PICK P : files_list \in Seq(Entry(P))
    BY DEF IsList
  <2> DEFINE Q == P \cup {x}
             n == Len(files_list)
             h == Find(fd)
             list == WithPtr(fd, x)
  <2>2. h \in 1..n
    BY <1>2, FindFinds
  <2>3. n \in Nat /\ DOMAIN files_list = 1..n
        /\ \A i \in 1..n : files_list[i] \in Entry(P)
    BY <2>1
  <2>4. list = [files_list EXCEPT ![h].ptr = x]
    BY <1>2 DEF WithPtr
  <2> HIDE DEF list, n, h
  <2>5. \A i \in 1..n : files_list[i].fd \in Fds /\ list[i].fd = files_list[i].fd
    BY <2>2, <2>3, <2>4 DEF Entry
  <2>6. files_list \in Seq(Entry(Q))
    BY <2>1, MorePointers
  <2> DEFINE new == [files_list[h] EXCEPT !.ptr = x]
  <2>7. files_list[h] \in Entry(Q)
    BY <2>2, <2>6, ElementOfSeq DEF n
  <2>8. new \in Entry(Q)
    BY <2>7 DEF Entry
  <2>9. list = [files_list EXCEPT ![h] = new]
    BY <2>4
  <2> HIDE DEF new, Q
  <2>10. DOMAIN list = 1..n
    BY <2>2, <2>3, <2>4
  <2>11. list \in Seq(Entry(Q))
    BY <2>2, <2>6, <2>8, <2>9, ExceptSeq DEF n
  <2> QED BY <2>3, <2>5, <2>10, <2>11 DEF IsList, Distinct, FdsOf, Listed, list
<1> QED BY <1>1, <1>2

(* The list that is left once every file is closed.                        *)
LEMMA EmptyList == IsList(<<>>) /\ Distinct(<<>>) /\ FdsOf(<<>>) = {}
<1>1. <<>> \in Seq(Entry({}))
  OBVIOUS
<1> QED BY <1>1 DEF IsList, Distinct, FdsOf

-----------------------------------------------------------------------------
(* The steps.                                                              *)

(* Most steps leave the list, the open descriptors and the outcome alone.  *)
LEMMA StillInv ==
  ASSUME Inv, files_list' = files_list, Open' = Open, outcome' = outcome,
         newest_first' = newest_first
  PROVE  Inv'
BY DEF Inv, Running, Listed, Distinct, NewestFirstIsSafe, OpenAreListed

(* An entry of an open channel gets another pointer, or the channel has no *)
(* entry and the program aborts.                                           *)
LEMMA PointerStep ==
  ASSUME Inv, Running, NEW fd \in Open, NEW x, Open' = Open,
         newest_first' = newest_first,
         \/ files_list' = WithPtr(fd, x) /\ outcome' = outcome
         \/ files_list' = files_list /\ fd \notin Listed
  PROVE  Inv'
<1>1. CASE files_list' = WithPtr(fd, x) /\ outcome' = outcome
  <2>1. IsList(files_list') /\ Distinct(files_list') /\ Listed' = Listed
    <3>1. IsList(files_list) /\ Distinct(files_list)
      BY DEF Inv
    <3>2. /\ IsList(WithPtr(fd, x)) /\ Distinct(WithPtr(fd, x))
          /\ FdsOf(WithPtr(fd, x)) = Listed
      BY <3>1, PointedList
    <3>3. Listed' = FdsOf(files_list')
      BY DEF Listed, FdsOf
    <3> QED BY <1>1, <3>2, <3>3
  <2> QED BY <1>1, <2>1 DEF Inv, Running, NewestFirstIsSafe, OpenAreListed, Distinct
<1>2. CASE files_list' = files_list /\ fd \notin Listed
  <2>1. ~newest_first
    BY <1>2 DEF Inv, NewestFirstIsSafe, OpenAreListed
  <2> QED BY <1>2, <2>1 DEF Inv, Running, Listed, Distinct, NewestFirstIsSafe
<1> QED BY <1>1, <1>2

(* open() gives a descriptor that is in no entry.                          *)
LEMMA OpenStep ==
  ASSUME Inv, NEW f, NEW mode, OpenFile(f, mode)
  PROVE  Inv'
<1>1. PICK fd \in Fds \ Open :
        /\ Open' = Open \cup {fd} /\ files_list' = Added(fd)
        /\ Running /\ outcome' = outcome /\ newest_first' = newest_first
  BY DEF OpenFile, Open
<1>2. IsList(files_list') /\ Distinct(files_list') /\ Listed' = Listed \cup {fd}
  BY <1>1, AddedList DEF Inv, FdsOf, Listed
<1> QED BY <1>1, <1>2 DEF Inv, Running, NewestFirstIsSafe, OpenAreListed, Distinct

(* CLOSE# of one channel.                                                  *)
LEMMA CloseStep ==
  ASSUME Inv, NEW fd, Close(fd)
  PROVE  Inv'
<1>1. /\ Open' = Open \ {fd} /\ files_list' = Removed(fd)
      /\ Running /\ outcome' = outcome /\ fd \in Open
      /\ newest_first' = (newest_first /\ (fd \in Listed => files_list[1].fd = fd))
  BY DEF Close, Open
<1>2. /\ IsList(files_list') /\ Distinct(files_list')
      /\ Listed' \subseteq Listed \ {fd}
      /\ fd \in Listed /\ files_list[1].fd = fd => Listed \ {fd} \subseteq Listed'
  <2>1. IsList(files_list) /\ Distinct(files_list)
    BY <1>1 DEF Inv
  <2>2. Listed' = FdsOf(Removed(fd))
    BY <1>1 DEF FdsOf, Listed
  <2> QED BY <1>1, <2>1, <2>2, RemovedList
<1>3. newest_first' => Open' \subseteq Listed'
  BY <1>1, <1>2 DEF Inv, NewestFirstIsSafe, OpenAreListed
<1>4. Running' /\ Listed' \subseteq Open'
  BY <1>1, <1>2 DEF Inv, Running
<1>5. NewestFirstIsSafe'
  BY <1>1, <1>3 DEF Inv, Running, NewestFirstIsSafe, OpenAreListed
<1> QED BY <1>2, <1>4, <1>5 DEF Inv

(* CLOSE#0 and the end of the program empty the list.                      *)
LEMMA CloseAllStep ==
  ASSUME Inv, CloseEvery \/ EndProgram
  PROVE  Inv'
<1>1. /\ Open' = Open \ Listed /\ files_list' = <<>>
      /\ Running /\ newest_first' = newest_first
      /\ outcome' \in {"running", "ended", "abort"}
      /\ Listed \subseteq Open => outcome' # "abort"
  BY DEF CloseEvery, EndProgram, CloseAll, Open
<1>2. IsList(files_list') /\ Distinct(files_list') /\ Listed' = {}
  BY <1>1, EmptyList DEF FdsOf, Listed
<1>3. newest_first' => Open' = {} /\ outcome' # "abort"
  BY <1>1 DEF Inv, NewestFirstIsSafe, OpenAreListed
<1> QED BY <1>1, <1>2, <1>3
        DEF Inv, Running, NewestFirstIsSafe, OpenAreListed, Distinct

(* PTR# = n on a channel with and without an entry.                        *)
LEMMA PtrStep ==
  ASSUME Inv, NEW fd, NEW want, SetPtr(fd, want) \/ SetPtrUnlisted(fd, want)
  PROVE  Inv'
<1>1. CASE SetPtr(fd, want)
  <2>1. /\ Running /\ fd \in Open /\ Open' = Open /\ outcome' = outcome
        /\ newest_first' = newest_first
        /\ \E x : files_list' = WithPtr(fd, x)
    BY <1>1 DEF SetPtr, Open
  <2> QED BY <2>1, PointerStep
<1>2. CASE SetPtrUnlisted(fd, want)
  <2>1. /\ Running /\ fd \in Open /\ fd \notin Listed /\ Open' = Open
        /\ files_list' = files_list /\ newest_first' = newest_first
    BY <1>2 DEF SetPtrUnlisted, Open
  <2> QED BY <2>1, PointerStep
<1> QED BY <1>1, <1>2

(* PRINT# and INPUT# count an item of a channel that is open.              *)
LEMMA CountStep ==
  ASSUME Inv, Running, NEW fd \in Open, CountItem(fd), Open' = Open,
         newest_first' = newest_first
  PROVE  Inv'
<1>1. \/ files_list' = WithPtr(fd, GetPtr(fd) + 1) /\ outcome' = outcome
      \/ files_list' = files_list /\ fd \notin Listed
  BY DEF CountItem
<1> QED BY <1>1, PointerStep

(* An item of PRINT#: the channel that is written to is open.              *)
LEMMA PrintStep ==
  ASSUME Inv, NEW v, PrintItem(v)
  PROVE  Inv'
<1>1. /\ Running /\ Current.fd \in Open /\ CountItem(Current.fd) /\ Open' = Open
      /\ newest_first' = newest_first
  BY DEF PrintItem, CanWrite, Write, Open
<1> QED BY <1>1, CountStep

(* An item of INPUT#: if it is read, the channel is open.                  *)
LEMMA InputStep ==
  ASSUME Inv, Running, NEW fd, NEW rest, NEW left, Input(fd, rest, left),
         newest_first' = newest_first
  PROVE  Inv'
<1>1. Open' = Open
  BY DEF Input, Open
<1>2. \/ CountItem(fd) /\ fd \in Open
      \/ files_list' = files_list /\ outcome' = outcome
  BY DEF Input, CanRead
<1> QED BY <1>1, <1>2, CountStep, StillInv

(* No file is open at the start.                                           *)
LEMMA InvInit == Init => Inv
<1> SUFFICES ASSUME Init PROVE Inv
  OBVIOUS
<1>1. files_list = <<>> /\ Open = {} /\ outcome = "running"
  BY DEF Init, Open
<1>2. IsList(files_list) /\ Distinct(files_list) /\ Listed = {}
  BY <1>1, EmptyList DEF FdsOf, Listed
<1> QED BY <1>1, <1>2 DEF Inv, NewestFirstIsSafe, OpenAreListed

(* Every step keeps the invariant.                                         *)
LEMMA InvNext == Inv /\ [Next]_vars => Inv'
<1> SUFFICES ASSUME Inv, [Next]_vars PROVE Inv'
  OBVIOUS
<1>1. CASE \E f \in Files, mode \in Modes : OpenFile(f, mode)
  BY <1>1, OpenStep
<1>2. CASE \E f \in Files, mode \in Modes : OpenFails(f, mode)
  BY <1>2, StillInv DEF OpenFails, Open
<1>3. CASE \E fd \in Fds : Close(fd)
  BY <1>3, CloseStep
<1>4. CASE \E fd \in Fds : BGet(fd)
  <2>1. files_list' = files_list /\ Open' = Open /\ outcome' = outcome
        /\ newest_first' = newest_first
    BY <1>4 DEF BGet, Open
  <2> QED BY <2>1, StillInv
<1>5. CASE \E fd \in Fds : \E b \in Bytes : BPut(fd, b)
  <2>1. files_list' = files_list /\ Open' = Open /\ outcome' = outcome
        /\ newest_first' = newest_first
    BY <1>5 DEF BPut, Write, Open
  <2> QED BY <2>1, StillInv
<1>6. CASE \E fd \in Fds, want \in Wanted :
             SetPtr(fd, want) \/ SetPtrUnlisted(fd, want)
  BY <1>6, PtrStep
<1>7. CASE \E fd \in Fds, n \in 1..MaxItems : PrintStart(fd, n)
  BY <1>7, StillInv DEF PrintStart, Open
<1>8. CASE \E fd \in Fds, n \in 1..MaxItems : InputStart(fd, n)
  BY <1>8, InputStep DEF InputStart
<1>9. CASE \E v \in Values : PrintItem(v)
  BY <1>9, PrintStep
<1>10. CASE CloseEvery \/ EndProgram
  BY <1>10, CloseAllStep
<1>11. CASE Refused \/ PrintFails \/ InputDone \/ OperandFails
  BY <1>11, StillInv DEF Refused, PrintFails, InputDone, OperandFails, Open
<1>12. CASE InputNext
  BY <1>12, InputStep DEF InputNext
<1>13. CASE Stopped \/ UNCHANGED vars
  BY <1>13, StillInv DEF Stopped, vars, Open
<1> QED BY <1>1, <1>2, <1>3, <1>4, <1>5, <1>6, <1>7, <1>8, <1>9, <1>10, <1>11,
           <1>12, <1>13 DEF Next

(* The invariant of all reachable states.                                  *)
LEMMA InvAlways == Spec => []Inv
<1> QED BY InvInit, InvNext, PTL DEF Spec

(* open_files_close_all() never finds an entry it cannot close: the list   *)
(* names open descriptors, each once, whatever is closed in what order.    *)
THEOREM EntriesCanBeClosed == Spec => []ListedAreOpen
<1>1. Inv => ListedAreOpen
  BY DEF Inv, ListedAreOpen, Distinct
<1> QED BY <1>1, InvAlways, PTL

(* Closing the newest channel first is enough: then the list names every   *)
(* open channel, and neither counting an item nor the end of the program   *)
(* aborts, also when the functions called between two items of PRINT# and  *)
(* INPUT# open and close channels.                                         *)
THEOREM NewestFirstLosesNothing == Spec => []NewestFirstIsSafe
<1>1. Inv => NewestFirstIsSafe
  BY DEF Inv
<1> QED BY <1>1, InvAlways, PTL

-----------------------------------------------------------------------------
(* Items of a file.                                                        *)

(* The bytes from one offset of a file to another.                         *)
LEMMA PieceIs ==
  ASSUME NEW bytes \in Seq(Byte), NEW p \in Nat, NEW q \in Nat, p <= q, q <= Len(bytes)
  PROVE  /\ SubSeq(bytes, p + 1, q) \in Seq(Byte)
         /\ Len(SubSeq(bytes, p + 1, q)) = q - p
         /\ \A i \in 1..(q - p) : SubSeq(bytes, p + 1, q)[i] = bytes[p + i]
<1>1. /\ p + 1 \in Int /\ q \in Int /\ p + 1 <= q + 1 /\ Len(bytes) \in Nat
      /\ \A i \in (p + 1)..q : bytes[i] \in Byte
  OBVIOUS
<1> QED BY <1>1, SubSeqProperties

(* The tag of an item says how long it is.                                 *)
LEMMA ItemIs ==
  ASSUME NEW s \in Seq(Byte), s # <<>>
  PROVE  IsItem(s) <=> \/ s[1] = 64 /\ Len(s) = 1 + IntSize
                       \/ s[1] = 255 /\ Len(s) = 1 + FloatSize
                       \/ s[1] = 0 /\ Len(s) > 1 /\ Len(s) = 2 + s[2]
<1>1. s[1] \in 0..255
  <2>1. Len(s) \in Nat \ {0}
    BY EmptySeq
  <2>2. s[1] \in Byte
    BY <2>1
  <2> QED BY <2>2 DEF Byte
<1>2. CASE s[1] = 64
  <2>1. s[1] # 255 /\ s[1] # 0
    BY <1>2
  <2> QED BY <1>2, <2>1 DEF IsItem
<1>3. CASE s[1] = 255
  <2>1. s[1] # 64 /\ s[1] # 0
    BY <1>3
  <2> QED BY <1>3, <2>1 DEF IsItem
<1>4. CASE s[1] = 0
  <2>1. s[1] # 255 /\ s[1] # 64
    BY <1>4
  <2> QED BY <1>4, <2>1 DEF IsItem
<1>5. CASE s[1] \notin {0, 64, 255}
  BY <1>5 DEF IsItem
<1> QED BY <1>2, <1>3, <1>4, <1>5

(* The size of an item by its tag.                                         *)
LEMMA ItemSizeIs ==
  ASSUME NEW bytes, NEW p
  PROVE  /\ bytes[p + 1] = 64 => ItemSize(bytes, p) = 1 + IntSize
         /\ bytes[p + 1] = 255 => ItemSize(bytes, p) = 1 + FloatSize
         /\ bytes[p + 1] = 0 => ItemSize(bytes, p) = 2 + bytes[p + 2]
<1>1. CASE bytes[p + 1] = 64
  <2>1. bytes[p + 1] # 255 /\ bytes[p + 1] # 0
    BY <1>1
  <2> QED BY <1>1, <2>1 DEF ItemSize
<1>2. CASE bytes[p + 1] = 255
  <2>1. bytes[p + 1] # 64 /\ bytes[p + 1] # 0
    BY <1>2
  <2> QED BY <1>2, <2>1 DEF ItemSize
<1>3. CASE bytes[p + 1] = 0
  <2>1. bytes[p + 1] # 64 /\ bytes[p + 1] # 255
    BY <1>3
  <2> QED BY <1>3, <2>1 DEF ItemSize
<1> QED BY <1>1, <1>2, <1>3

(* An item that is read lies within the file and is one.                   *)
LEMMA ReadItemIs ==
  ASSUME NEW bytes \in Seq(Byte), NEW p \in Nat,
         NEW r, r = ReadItem(bytes, p)
  PROVE  /\ r.pos \in Nat /\ r.ok \in BOOLEAN
         /\ r.ok => p < r.pos /\ r.pos <= Len(bytes) /\ IsItem(SubSeq(bytes, p + 1, r.pos))
<1> DEFINE left == Len(bytes) - p
           tag == bytes[p + 1]
           known == tag \in {64, 255} \/ (tag = 0 /\ left > 1)
           size == ItemSize(bytes, p)
<1>1. Len(bytes) \in Nat /\ left \in Int /\ \A i \in 1..Len(bytes) : bytes[i] \in Byte
  OBVIOUS
<1>2. CASE left <= 0
  BY <1>1, <1>2 DEF ReadItem
<1>3. CASE left > 0 /\ ~known
  BY <1>1, <1>3 DEF ReadItem
<1>4. CASE left > 0 /\ known
  <2>1. size \in Nat /\ size > 0
    <3>1. tag = 0 => bytes[p + 2] \in 0..255
      BY <1>1, <1>4 DEF Byte
    <3> HIDE DEF size
    <3>2. IntSize \in Nat /\ FloatSize \in Nat
      BY FilesAssumption
    <3>3. CASE tag = 64
      BY <3>2, <3>3, ItemSizeIs DEF size
    <3>4. CASE tag = 255
      BY <3>2, <3>4, ItemSizeIs DEF size
    <3>5. CASE tag = 0
      <4>1. size = 2 + bytes[p + 2]
        BY <3>5, ItemSizeIs, Zenon DEF size
      <4>2. bytes[p + 2] \in 0..255
        BY <3>1, <3>5
      <4> DEFINE x == bytes[p + 2]
      <4> HIDE DEF x
      <4>3. size \in 2..257
        <5>1. x \in 0..255 /\ size = 2 + x
          BY <4>1, <4>2 DEF x
        <5> QED BY <5>1
      <4> QED BY <4>3
    <3> QED BY <1>4, <3>3, <3>4, <3>5
  <2>2. CASE left < size
    <3>1. r = [ok |-> FALSE, pos |-> Len(bytes)]
      BY <1>1, <1>4, <2>1, <2>2 DEF ReadItem
    <3> QED BY <3>1, <1>1
  <2>3. CASE ~(left < size)
    <3>1. r = [ok |-> TRUE, pos |-> p + size]
      BY <1>1, <1>4, <2>1, <2>3 DEF ReadItem
    <3> DEFINE q == p + size
               s == SubSeq(bytes, p + 1, q)
    <3>2. q <= Len(bytes) /\ q \in Nat /\ p < q /\ p <= q /\ q - p = size
      BY <1>1, <2>1, <2>3
    <3>3. size > 1 => p + 2 \in 1..Len(bytes)
      BY <3>2, <2>1
    <3> HIDE DEF q
    <3>4. /\ s \in Seq(Byte) /\ Len(s) = size
          /\ \A i \in 1..size : s[i] = bytes[p + i]
      BY <3>2, PieceIs
    <3> HIDE DEF s, size
    <3>5. s # <<>> /\ s[1] = tag /\ (size > 1 => s[2] = bytes[p + 2])
      BY <3>4, <2>1
    <3>6. IsItem(s)
      <4>1. left > 1 /\ tag = 0 => bytes[p + 2] \in 0..255
        BY <1>1 DEF Byte
      <4>2. tag = 0 => size = 2 + bytes[p + 2]
        BY ItemSizeIs, Zenon DEF size
      <4>3. tag = 0 => size > 1
        <5> HIDE DEF tag, left
        <5> SUFFICES ASSUME tag = 0 PROVE size > 1
          OBVIOUS
        <5> DEFINE x == bytes[p + 2]
        <5>1. x \in 0..255 /\ size = 2 + x
          BY <1>4, <4>1, <4>2
        <5> HIDE DEF x
        <5> QED BY <5>1
      <4> QED BY <1>4, <3>4, <3>5, <4>3, ItemIs, ItemSizeIs DEF size
    <3> QED BY <3>1, <3>2, <3>6 DEF q, s, size
  <2> QED BY <2>2, <2>3
<1> QED BY <1>1, <1>2, <1>3, <1>4

(* An item that is there is read.                                          *)
LEMMA ItemIsRead ==
  ASSUME NEW bytes \in Seq(Byte), NEW p \in Nat, NEW q \in Nat, q <= Len(bytes),
         IsItem(SubSeq(bytes, p + 1, q))
  PROVE  p < q /\ ReadItem(bytes, p) = [ok |-> TRUE, pos |-> q]
<1> DEFINE s == SubSeq(bytes, p + 1, q)
           n == q - p
           size == ItemSize(bytes, p)
<1>1. Len(bytes) \in Nat /\ \A i \in 1..Len(bytes) : bytes[i] \in Byte
  OBVIOUS
<1>2. p < q
  <2>1. CASE q <= p
    <3>1. s = <<>>
      BY <2>1
    <3> QED BY <3>1 DEF IsItem
  <2> QED BY <2>1
<1>3. /\ s \in Seq(Byte) /\ Len(s) = n /\ \A i \in 1..n : s[i] = bytes[p + i]
      /\ n \in Nat \ {0}
  BY <1>2, PieceIs
<1> HIDE DEF s
<1>4. s # <<>> /\ s[1] = bytes[p + 1] /\ (n > 1 => s[2] = bytes[p + 2])
  BY <1>3
<1>5. /\ bytes[p + 1] = 64 => n = 1 + IntSize
      /\ bytes[p + 1] = 255 => n = 1 + FloatSize
      /\ bytes[p + 1] \in {0, 64, 255}
      /\ bytes[p + 1] = 0 => n > 1 /\ n = 2 + bytes[p + 2]
  <2>1. IsItem(s)
    BY DEF s
  <2> QED BY <1>3, <1>4, <2>1, ItemIs
<1>6. size = n
  <2> HIDE DEF size
  <2> QED BY <1>5, ItemSizeIs DEF size
<1>7. /\ p + n = q /\ Len(bytes) - p > 0 /\ ~(Len(bytes) - p <= 0) /\ ~(Len(bytes) - p < n)
      /\ (n > 1 => Len(bytes) - p > 1)
  BY <1>1, <1>3
<1> HIDE DEF n, size
<1> QED BY <1>2, <1>5, <1>6, <1>7 DEF ReadItem, size

-----------------------------------------------------------------------------
(* Files of items.                                                         *)

(* The offsets between n items that fill the first p bytes.                *)
Cuts(bytes, p, n, cuts) ==
  /\ cuts \subseteq 0..p /\ 0 \in cuts /\ p \in cuts
  /\ Cardinality(cuts) = n + 1
  /\ \A a \in cuts \ {p} : \E b \in cuts :
       /\ b > a /\ \A c \in cuts : c <= a \/ c >= b
       /\ IsItem(SubSeq(bytes, a + 1, b))

(* Items in terms of the set of all their ends.                             *)
LEMMA ItemsAreCut ==
  ASSUME NEW bytes, NEW p \in Nat, NEW n
  PROVE  Items(bytes, p, n) <=>
           n <= p /\ p <= Len(bytes) /\ \E cuts : Cuts(bytes, p, n, cuts)
<1> DEFINE Good(cuts) == /\ Cardinality(cuts) = n + 1
                         /\ \A a \in cuts \ {p} : \E b \in cuts :
                              /\ b > a /\ \A c \in cuts : c <= a \/ c >= b
                              /\ IsItem(SubSeq(bytes, a + 1, b))
<1>1. Items(bytes, p, n) <=>
        n <= p /\ p <= Len(bytes) /\ \E inner \in SUBSET (1..(p - 1)) : Good(inner \cup {0, p})
  BY Zenon DEF Items
<1>2. \A cuts : Cuts(bytes, p, n, cuts) <=>
                  cuts \subseteq 0..p /\ 0 \in cuts /\ p \in cuts /\ Good(cuts)
  BY Zenon DEF Cuts
<1> HIDE DEF Good
<1>3. ASSUME NEW inner \in SUBSET (1..(p - 1)), Good(inner \cup {0, p})
      PROVE  \E cuts : Cuts(bytes, p, n, cuts)
  <2> DEFINE cuts == inner \cup {0, p}
  <2>1. cuts \subseteq 0..p /\ 0 \in cuts /\ p \in cuts
    OBVIOUS
  <2> QED BY <1>2, <1>3, <2>1
<1>4. ASSUME NEW cuts, Cuts(bytes, p, n, cuts)
      PROVE  \E inner \in SUBSET (1..(p - 1)) : Good(inner \cup {0, p})
  <2> DEFINE inner == cuts \ {0, p}
  <2>1. cuts \subseteq 0..p /\ 0 \in cuts /\ p \in cuts /\ Good(cuts)
    BY <1>2, <1>4
  <2>2. inner \in SUBSET (1..(p - 1))
    BY <2>1
  <2>3. inner \cup {0, p} = cuts
    BY <2>1
  <2> HIDE DEF inner
  <2> QED BY <2>1, <2>2, <2>3
<1> QED BY <1>1, <1>3, <1>4

(* Cuts are finitely many.                                                 *)
LEMMA CutsAreFinite ==
  ASSUME NEW p \in Nat, NEW cuts, cuts \subseteq 0..p
  PROVE  IsFiniteSet(cuts) /\ Cardinality(cuts) \in Nat /\ Cardinality(cuts) <= p + 1
<1>1. IsFiniteSet(0..p) /\ Cardinality(0..p) = p + 1
  BY FS_Interval
<1>2. cuts \in SUBSET (0..p)
  OBVIOUS
<1>3. IsFiniteSet(cuts) /\ Cardinality(cuts) <= p + 1
  BY <1>1, <1>2, FS_Subset
<1> QED BY <1>3, FS_CardinalityType

(* No items before the first byte, and nowhere else.                       *)
LEMMA NoItems ==
  ASSUME NEW bytes \in Seq(Byte), NEW p \in Nat
  PROVE  Items(bytes, p, 0) <=> p = 0
<1>1. Cardinality({0}) = 1
  BY FS_Singleton
<1>2. Cuts(bytes, 0, 0, {0})
  BY <1>1 DEF Cuts
<1>3. Items(bytes, 0, 0)
  <2>1. Len(bytes) \in Nat /\ 0 <= 0
    OBVIOUS
  <2> QED BY <1>2, <2>1, ItemsAreCut
<1>4. ASSUME Items(bytes, p, 0) PROVE p = 0
  <2>1. PICK cuts : Cuts(bytes, p, 0, cuts)
    BY <1>4, ItemsAreCut
  <2>2. cuts \subseteq 0..p /\ Cardinality(cuts) = 0 + 1 /\ 0 \in cuts /\ p \in cuts
    BY <2>1 DEF Cuts
  <2>3. IsFiniteSet(cuts) /\ Cardinality(cuts) = 1
    <3>1. IsFiniteSet(cuts)
      BY <2>2, CutsAreFinite
    <3>2. Cardinality(cuts) = 1
      BY <2>2
    <3> QED BY <3>1, <3>2
  <2>4. PICK x : cuts = {x}
    BY <2>3, FS_Singleton
  <2> QED BY <2>2, <2>4
<1> QED BY <1>3, <1>4

(* One item more after n of them.                                          *)
LEMMA OneMoreItem ==
  ASSUME NEW bytes \in Seq(Byte), NEW p \in Nat, NEW n \in Nat, Items(bytes, p, n),
         NEW q \in Nat, p < q, q <= Len(bytes), IsItem(SubSeq(bytes, p + 1, q))
  PROVE  Items(bytes, q, n + 1)
<1>1. PICK cuts : Cuts(bytes, p, n, cuts)
  BY ItemsAreCut
<1> DEFINE more == cuts \cup {q}
<1>2. /\ cuts \subseteq 0..p /\ 0 \in cuts /\ p \in cuts /\ Cardinality(cuts) = n + 1
      /\ \A a \in cuts \ {p} : \E b \in cuts :
           /\ b > a /\ \A c \in cuts : c <= a \/ c >= b
           /\ IsItem(SubSeq(bytes, a + 1, b))
  BY <1>1 DEF Cuts
<1>3. more \subseteq 0..q /\ 0 \in more /\ q \in more /\ q \notin cuts
  BY <1>2
<1>4. Cardinality(more) = n + 2
  <2>1. IsFiniteSet(cuts)
    BY <1>2, CutsAreFinite
  <2>2. Cardinality(more) = Cardinality(cuts) + 1
    BY <1>3, <2>1, FS_AddElement
  <2> QED BY <1>2, <2>2
<1>5. ASSUME NEW a \in more \ {q}
      PROVE  \E b \in more : /\ b > a /\ \A c \in more : c <= a \/ c >= b
                             /\ IsItem(SubSeq(bytes, a + 1, b))
  <2>1. CASE a = p
    <3>1. \A c \in more : c <= p \/ c >= q
      BY <1>2
    <3> QED BY <2>1, <3>1
  <2>2. CASE a # p
    <3>1. PICK b \in cuts : /\ b > a /\ \A c \in cuts : c <= a \/ c >= b
                            /\ IsItem(SubSeq(bytes, a + 1, b))
      BY <1>2, <2>2
    <3>2. q >= b
      BY <1>2
    <3> QED BY <3>1, <3>2
  <2> QED BY <2>1, <2>2
<1> HIDE DEF more
<1>6. Cuts(bytes, q, n + 1, more)
  <2>1. Cardinality(more) = (n + 1) + 1
    BY <1>4
  <2> QED BY <1>3, <1>5, <2>1 DEF Cuts
<1>7. n + 1 <= q
  <2>1. n <= p
    BY ItemsAreCut
  <2> QED BY <2>1
<1> QED BY <1>6, <1>7, ItemsAreCut

(* The last of the items.                                                  *)
LEMMA LastItem ==
  ASSUME NEW bytes \in Seq(Byte), NEW p \in Nat, NEW n \in Nat \ {0}, Items(bytes, p, n)
  PROVE  \E q \in Nat : q < p /\ Items(bytes, q, n - 1) /\ IsItem(SubSeq(bytes, q + 1, p))
<1>1. PICK cuts : Cuts(bytes, p, n, cuts)
  BY ItemsAreCut
<1>2. /\ cuts \subseteq 0..p /\ 0 \in cuts /\ p \in cuts /\ Cardinality(cuts) = n + 1
      /\ \A a \in cuts \ {p} : \E b \in cuts :
           /\ b > a /\ \A c \in cuts : c <= a \/ c >= b
           /\ IsItem(SubSeq(bytes, a + 1, b))
  BY <1>1 DEF Cuts
<1>3. n <= p /\ p <= Len(bytes)
  BY ItemsAreCut
<1> DEFINE less == cuts \ {p}
<1>4. less \subseteq 0..p /\ 0 \in less /\ less # {}
  BY <1>2, <1>3
<1>5. PICK q \in less : \A y \in less : y <= q
  <2> HIDE DEF less
  <2> QED BY <1>4, GreatestOfNaturals
<1>6. q \in Nat /\ q < p
  BY <1>2, <1>5
<1>7. PICK b \in cuts : /\ b > q /\ \A c \in cuts : c <= q \/ c >= b
                        /\ IsItem(SubSeq(bytes, q + 1, b))
  BY <1>2
<1>8. b = p
  <2>1. CASE b # p
    <3>1. b \in less /\ b <= q /\ b \in Nat
      BY <2>1, <1>2, <1>5
    <3> QED BY <1>6, <1>7, <3>1
  <2> QED BY <2>1
<1>9. less \subseteq 0..q /\ q \in less
  BY <1>2, <1>5, <1>6
<1>10. Cardinality(less) = n
  <2>1. IsFiniteSet(cuts)
    BY <1>2, CutsAreFinite
  <2>2. Cardinality(less) = Cardinality(cuts) - 1
    BY <1>2, <2>1, FS_RemoveElement
  <2> QED BY <1>2, <2>2
<1>11. ASSUME NEW a \in less \ {q}
       PROVE  \E d \in less : /\ d > a /\ \A c \in less : c <= a \/ c >= d
                              /\ IsItem(SubSeq(bytes, a + 1, d))
  <2>1. PICK d \in cuts : /\ d > a /\ \A c \in cuts : c <= a \/ c >= d
                          /\ IsItem(SubSeq(bytes, a + 1, d))
    BY <1>2
  <2>2. a < q /\ a \in Nat
    BY <1>5, <1>9
  <2>3. q >= d
    BY <2>1, <2>2, <1>6
  <2>4. d # p
    BY <2>3, <1>6
  <2> QED BY <2>1, <2>4
<1> HIDE DEF less
<1>12. Cuts(bytes, q, n - 1, less)
  <2>1. Cardinality(less) = (n - 1) + 1
    BY <1>10
  <2> QED BY <1>4, <1>9, <1>11, <2>1 DEF Cuts
<1>13. n - 1 <= q /\ q <= Len(bytes)
  <2>1. Cardinality(less) <= q + 1
    BY <1>6, <1>9, CutsAreFinite
  <2> QED BY <2>1, <1>3, <1>6, <1>10
<1>14. Items(bytes, q, n - 1)
  BY <1>6, <1>12, <1>13, ItemsAreCut
<1> QED BY <1>6, <1>7, <1>8, <1>14

-----------------------------------------------------------------------------
(* PTR# = n goes over n items.                                             *)

Walked(bytes, n) ==
  CHOOSE walk : walk = [k \in 0..n |->
    IF k = 0 THEN [ok |-> TRUE, pos |-> 0, ptr |-> 0]
    ELSE LET w == walk[k - 1]
             r == ReadItem(bytes, w.pos)
         IN  IF ~w.ok THEN w
             ELSE [ok |-> r.ok, pos |-> r.pos,
                   ptr |-> IF r.ok THEN w.ptr + 1 ELSE w.ptr]]

Places == [ok : BOOLEAN, pos : Nat, ptr : Nat]
Start == [ok |-> TRUE, pos |-> 0, ptr |-> 0]
Onward(bytes, w) ==
  IF ~w.ok THEN w
  ELSE [ok |-> ReadItem(bytes, w.pos).ok, pos |-> ReadItem(bytes, w.pos).pos,
        ptr |-> IF ReadItem(bytes, w.pos).ok THEN w.ptr + 1 ELSE w.ptr]

(* The recursive function of Skip, unfolded once.                          *)
LEMMA WalkedIs ==
  ASSUME NEW bytes \in Seq(Byte), NEW n \in Nat
  PROVE  /\ Skip(bytes, n) = Walked(bytes, n)[n]
         /\ Walked(bytes, n)[0] = Start
         /\ \A k \in 1..n : Walked(bytes, n)[k] = Onward(bytes, Walked(bytes, n)[k - 1])
         /\ \A k \in 0..n : Walked(bytes, n)[k] \in Places
<1> DEFINE H == [k \in 1..n |-> [w \in Places |-> Onward(bytes, w)]]
           K(g) == [k \in 0..n |->
                      IF k = 0 THEN [ok |-> TRUE, pos |-> 0, ptr |-> 0]
                      ELSE LET w == g[k - 1]
                               r == ReadItem(bytes, w.pos)
                           IN  IF ~w.ok THEN w
                               ELSE [ok |-> r.ok, pos |-> r.pos,
                                     ptr |-> IF r.ok THEN w.ptr + 1 ELSE w.ptr]]
           L(g) == [k \in 0..n |-> IF k = 0 THEN Start ELSE Onward(bytes, g[k - 1])]
<1>1. Start \in Places
  BY DEF Start, Places
<1>2. ASSUME NEW w \in Places PROVE Onward(bytes, w) \in Places
  <2>1. w.pos \in Nat /\ w.ptr \in Nat
    BY DEF Places
  <2> DEFINE r == ReadItem(bytes, w.pos)
  <2>2. r.pos \in Nat /\ r.ok \in BOOLEAN
    BY <2>1, ReadItemIs
  <2> HIDE DEF r
  <2>3. [ok |-> r.ok, pos |-> r.pos, ptr |-> IF r.ok THEN w.ptr + 1 ELSE w.ptr] \in Places
    BY <2>1, <2>2 DEF Places
  <2>4. Onward(bytes, w) = IF ~w.ok THEN w ELSE
          [ok |-> r.ok, pos |-> r.pos, ptr |-> IF r.ok THEN w.ptr + 1 ELSE w.ptr]
    BY DEF Onward, r
  <2> QED BY <2>3, <2>4
<1>3. H \in [1..n -> [Places -> Places]]
  BY <1>2
<1>4. PICK g \in [0..n -> Places] : Iterates(g, n, Start, H)
  <2> HIDE DEF H
  <2> QED BY <1>1, <1>3, RecursionExists
<1>5. g = L(g)
  <2>1. ASSUME NEW k \in 1..n PROVE g[k] = Onward(bytes, g[k - 1])
    <3>1. g[k - 1] \in Places
      OBVIOUS
    <3> QED BY <1>4, <3>1 DEF Iterates
  <2>2. ASSUME NEW k \in 0..n PROVE g[k] = L(g)[k]
    <3>1. CASE k = 0
      BY <1>4, <3>1 DEF Iterates
    <3>2. CASE k # 0
      <4>1. k \in 1..n
        BY <3>2
      <4>2. L(g)[k] = Onward(bytes, g[k - 1])
        BY <3>2
      <4> QED BY <2>1, <4>1, <4>2
    <3> QED BY <3>1, <3>2
  <2> QED BY <2>2
<1>6. \A f : K(f) = L(f)
  BY Zenon DEF Start, Onward
<1> DEFINE W == Walked(bytes, n)
<1>7. W = K(W)
  <2>1. \E f : f = K(f)
    <3> HIDE DEF K, L
    <3> QED BY <1>5, <1>6
  <2> QED BY <2>1, Zenon DEF Walked
<1>8. Skip(bytes, n) = W[n]
  BY Zenon DEF Skip, Walked
<1> HIDE DEF W, K
<1>9. W = L(W)
  BY <1>6, <1>7
<1>10. \A k \in 0..n : W[k] = L(W)[k]
  BY <1>9, Zenon
<1>11. \A k \in 0..n : L(W)[k] = IF k = 0 THEN Start ELSE Onward(bytes, W[k - 1])
  OBVIOUS
<1> HIDE DEF L
<1>12. W[0] = Start
  BY <1>10, <1>11
<1>13. ASSUME NEW k \in 1..n PROVE W[k] = Onward(bytes, W[k - 1])
  <2>1. k \in 0..n /\ k # 0
    OBVIOUS
  <2> QED BY <2>1, <1>10, <1>11
<1>14. \A k \in 0..n : W[k] \in Places
  <2> DEFINE P == {k \in 0..n : W[k] \in Places}
  <2>1. 0 \in P
    BY <1>1, <1>12
  <2>2. ASSUME NEW k \in 1..n, k - 1 \in P PROVE k \in P
    BY <1>2, <1>13, <2>2
  <2> HIDE DEF P
  <2>3. \A k \in 0..n : k \in P
    BY <2>1, <2>2, InductionUpTo
  <2> QED BY <2>3 DEF P
<1> QED BY <1>8, <1>12, <1>13, <1>14 DEF W

(* What PTR# = n finds: as many items as the pointer says, if all is well. *)
LEMMA SkipFinds ==
  ASSUME NEW bytes \in Seq(Byte), NEW n \in Nat
  PROVE  /\ Skip(bytes, n) \in Places
         /\ Skip(bytes, n).ok => Items(bytes, Skip(bytes, n).pos, Skip(bytes, n).ptr)
<1> DEFINE W == Walked(bytes, n)
           Good(w) == w.ok => Items(bytes, w.pos, w.ptr)
           P == {k \in 0..n : Good(W[k])}
<1>1. /\ Skip(bytes, n) = W[n] /\ W[0] = Start
      /\ \A k \in 1..n : W[k] = Onward(bytes, W[k - 1])
      /\ \A k \in 0..n : W[k] \in Places
  BY WalkedIs
<1> HIDE DEF W
<1>2. 0 \in P
  BY <1>1, NoItems DEF Start
<1>3. ASSUME NEW k \in 1..n, k - 1 \in P PROVE k \in P
  <2> DEFINE w == W[k - 1]
             r == ReadItem(bytes, w.pos)
  <2>1. w \in Places /\ Good(w) /\ W[k] = Onward(bytes, w)
    BY <1>1, <1>3
  <2> HIDE DEF w
  <2>2. w.pos \in Nat /\ w.ptr \in Nat /\ w.ok \in BOOLEAN
    BY <2>1 DEF Places
  <2>3. /\ r.pos \in Nat
        /\ r.ok => w.pos < r.pos /\ r.pos <= Len(bytes)
                   /\ IsItem(SubSeq(bytes, w.pos + 1, r.pos))
    BY <2>2, ReadItemIs
  <2> HIDE DEF r
  <2>4. CASE w.ok /\ r.ok
    <3>1. Items(bytes, r.pos, w.ptr + 1)
      BY <2>1, <2>2, <2>3, <2>4, OneMoreItem
    <3>2. W[k].pos = r.pos /\ W[k].ptr = w.ptr + 1
      BY <2>1, <2>4 DEF Onward, r
    <3> QED BY <3>1, <3>2
  <2>5. CASE ~(w.ok /\ r.ok)
    <3>1. ~W[k].ok
      BY <2>1, <2>5 DEF Onward, r
    <3> QED BY <3>1
  <2> QED BY <2>4, <2>5
<1> HIDE DEF P
<1>4. \A k \in 0..n : k \in P
  BY <1>2, <1>3, InductionUpTo
<1> QED BY <1>1, <1>4 DEF P

(* PTR# = n finds n items that are there.                                  *)
LEMMA SkipSelects ==
  ASSUME NEW bytes \in Seq(Byte), NEW n \in Nat, NEW p \in Nat, Items(bytes, p, n)
  PROVE  Skip(bytes, n) = [ok |-> TRUE, pos |-> p, ptr |-> n]
<1> DEFINE W == Walked(bytes, n)
           Good(k) == \A q \in Nat : Items(bytes, q, k) =>
                        W[k] = [ok |-> TRUE, pos |-> q, ptr |-> k]
           P == {k \in 0..n : Good(k)}
<1>1. /\ Skip(bytes, n) = W[n] /\ W[0] = Start
      /\ \A k \in 1..n : W[k] = Onward(bytes, W[k - 1])
  BY WalkedIs
<1> HIDE DEF W
<1>2. 0 \in P
  <2>1. ASSUME NEW q \in Nat, Items(bytes, q, 0) PROVE W[0] = [ok |-> TRUE, pos |-> q, ptr |-> 0]
    <3>1. q = 0
      BY <2>1, NoItems
    <3> QED BY <1>1, <3>1 DEF Start
  <2> QED BY <2>1
<1>3. ASSUME NEW k \in 1..n, k - 1 \in P PROVE k \in P
  <2> SUFFICES ASSUME NEW q \in Nat, Items(bytes, q, k)
               PROVE  W[k] = [ok |-> TRUE, pos |-> q, ptr |-> k]
    OBVIOUS
  <2>1. PICK o \in Nat : o < q /\ Items(bytes, o, k - 1) /\ IsItem(SubSeq(bytes, o + 1, q))
    <3>1. k \in Nat \ {0}
      OBVIOUS
    <3> QED BY <3>1, LastItem
  <2>2. W[k - 1] = [ok |-> TRUE, pos |-> o, ptr |-> k - 1]
    BY <1>3, <2>1
  <2>3. q <= Len(bytes)
    BY ItemsAreCut
  <2>4. ReadItem(bytes, o) = [ok |-> TRUE, pos |-> q]
    BY <2>1, <2>3, ItemIsRead
  <2> DEFINE w == W[k - 1]
  <2>5. w.ok /\ w.pos = o /\ w.ptr = k - 1 /\ W[k] = Onward(bytes, w)
    BY <1>1, <2>2
  <2> HIDE DEF w
  <2>6. W[k] = [ok |-> TRUE, pos |-> q, ptr |-> w.ptr + 1]
    BY <2>4, <2>5 DEF Onward
  <2> QED BY <2>5, <2>6
<1> HIDE DEF P
<1>4. \A k \in 0..n : k \in P
  BY <1>2, <1>3, InductionUpTo
<1>5. n \in P
  BY <1>4
<1> QED BY <1>1, <1>5 DEF P

(* Items are where they are whatever comes behind them.                    *)
LEMMA SameItems ==
  ASSUME NEW old \in Seq(Byte), NEW new \in Seq(Byte), NEW p \in Nat, NEW n,
         Items(old, p, n), p <= Len(new), \A i \in 1..p : new[i] = old[i]
  PROVE  Items(new, p, n)
<1>1. PICK cuts : n <= p /\ p <= Len(old) /\ Cuts(old, p, n, cuts)
  BY ItemsAreCut
<1>2. /\ cuts \subseteq 0..p /\ 0 \in cuts /\ p \in cuts /\ Cardinality(cuts) = n + 1
      /\ \A a \in cuts \ {p} : \E b \in cuts :
           /\ b > a /\ \A c \in cuts : c <= a \/ c >= b
           /\ IsItem(SubSeq(old, a + 1, b))
  BY <1>1 DEF Cuts
<1>3. ASSUME NEW a \in cuts, NEW b \in cuts, b > a
      PROVE  SubSeq(new, a + 1, b) = SubSeq(old, a + 1, b)
  <2>1. a \in Nat /\ b \in Nat /\ a <= b /\ b <= p /\ b <= Len(new) /\ b <= Len(old)
    BY <1>1, <1>2, <1>3
  <2> DEFINE s == SubSeq(old, a + 1, b)
             t == SubSeq(new, a + 1, b)
  <2>2. /\ s \in Seq(Byte) /\ Len(s) = b - a /\ \A i \in 1..(b - a) : s[i] = old[a + i]
        /\ t \in Seq(Byte) /\ Len(t) = b - a /\ \A i \in 1..(b - a) : t[i] = new[a + i]
    BY <2>1, PieceIs
  <2>3. \A i \in 1..(b - a) : a + i \in 1..p
    BY <2>1
  <2> HIDE DEF s, t
  <2>4. \A i \in 1..Len(s) : s[i] = t[i]
    BY <2>2, <2>3
  <2> QED BY <2>2, <2>4, SeqEqual DEF s, t
<1>4. Cuts(new, p, n, cuts)
  <2>1. ASSUME NEW a \in cuts \ {p}
        PROVE  \E b \in cuts : /\ b > a /\ \A c \in cuts : c <= a \/ c >= b
                               /\ IsItem(SubSeq(new, a + 1, b))
    <3>1. PICK b \in cuts : /\ b > a /\ \A c \in cuts : c <= a \/ c >= b
                            /\ IsItem(SubSeq(old, a + 1, b))
      BY <1>2
    <3>2. SubSeq(new, a + 1, b) = SubSeq(old, a + 1, b)
      BY <1>3, <3>1
    <3> QED BY <3>1, <3>2
  <2> QED BY <1>2, <2>1 DEF Cuts
<1> QED BY <1>1, <1>4, ItemsAreCut

(* A value is written as an item.                                          *)
LEMMA EncodedIsItem ==
  ASSUME NEW v \in Values
  PROVE  Encode(v) \in Seq(Byte) /\ Len(Encode(v)) \in Nat \ {0} /\ IsItem(Encode(v))
<1> DEFINE b == v.bytes
           e == Encode(v)
           n == IF Len(b) > 255 THEN 255 ELSE Len(b)
<1>1. /\ v.type \in {"int", "float", "string"} /\ b \in Seq(Byte)
      /\ v.type = "int" => Len(b) = IntSize
      /\ v.type = "float" => Len(b) = FloatSize
      /\ IntSize \in Nat /\ FloatSize \in Nat
  BY FilesAssumption
<1>2. Len(b) \in Nat /\ n \in Nat /\ n <= Len(b) /\ n <= 255
  BY <1>1
<1>3. v.type = "int" => e = <<64>> \o b
  BY DEF Encode
<1>4. v.type = "float" => e = <<255>> \o b
  BY <1>1 DEF Encode
<1>5. v.type = "string" => e = <<0, n>> \o SubSeq(b, 1, n)
  BY <1>1 DEF Encode
<1> HIDE DEF b, e
<1>6. CASE v.type = "int"
  <2>1. <<64>> \in Seq(Byte) /\ Len(<<64>>) = 1 /\ <<64>>[1] = 64
    BY DEF Byte
  <2> DEFINE tag == <<64>>
  <2> HIDE DEF tag
  <2>2. /\ e \in Seq(Byte) /\ Len(e) = 1 + IntSize
        /\ e[1] = 64
    <3>1. /\ tag \o b \in Seq(Byte) /\ Len(tag \o b) = Len(tag) + Len(b)
          /\ \A i \in 1..(Len(tag) + Len(b)) :
               (tag \o b)[i] = IF i <= Len(tag) THEN tag[i] ELSE b[i - Len(tag)]
      BY <1>1, <2>1, ConcatProperties DEF tag
    <3>2. Len(tag) = 1 /\ tag[1] = 64 /\ e = tag \o b
      BY <1>3, <1>6, <2>1 DEF tag
    <3>3. 1 \in 1..(Len(tag) + Len(b))
      BY <1>2, <3>2
    <3> QED BY <1>1, <1>6, <3>1, <3>2, <3>3
  <2>3. e # <<>>
    BY <2>2, <1>1
  <2> QED BY <1>1, <2>2, <2>3, ItemIs DEF e
<1>7. CASE v.type = "float"
  <2>1. <<255>> \in Seq(Byte) /\ Len(<<255>>) = 1 /\ <<255>>[1] = 255
    BY DEF Byte
  <2> DEFINE tag == <<255>>
  <2> HIDE DEF tag
  <2>2. /\ e \in Seq(Byte) /\ Len(e) = 1 + FloatSize
        /\ e[1] = 255
    <3>1. /\ tag \o b \in Seq(Byte) /\ Len(tag \o b) = Len(tag) + Len(b)
          /\ \A i \in 1..(Len(tag) + Len(b)) :
               (tag \o b)[i] = IF i <= Len(tag) THEN tag[i] ELSE b[i - Len(tag)]
      BY <1>1, <2>1, ConcatProperties DEF tag
    <3>2. Len(tag) = 1 /\ tag[1] = 255 /\ e = tag \o b
      BY <1>4, <1>7, <2>1 DEF tag
    <3>3. 1 \in 1..(Len(tag) + Len(b))
      BY <1>2, <3>2
    <3> QED BY <1>1, <1>7, <3>1, <3>2, <3>3
  <2>3. e # <<>>
    BY <2>2, <1>1
  <2> QED BY <1>1, <2>2, <2>3, ItemIs DEF e
<1>8. CASE v.type = "string"
  <2> DEFINE tag == <<0, n>>
             s == SubSeq(b, 1, n)
  <2>1. tag \in Seq(Byte) /\ Len(tag) = 2 /\ tag[1] = 0 /\ tag[2] = n
    <3> HIDE DEF n
    <3>1. 0 \in Byte /\ n \in Byte
      BY <1>2 DEF Byte
    <3> QED BY <3>1
  <2>2. s \in Seq(Byte) /\ Len(s) = n
    <3>1. 0 \in Nat /\ n \in Nat /\ 0 <= n /\ n <= Len(b)
      BY <1>2
    <3> HIDE DEF n
    <3>2. SubSeq(b, 0 + 1, n) \in Seq(Byte) /\ Len(SubSeq(b, 0 + 1, n)) = n - 0
      BY <1>1, <3>1, PieceIs
    <3> QED BY <3>1, <3>2
  <2> HIDE DEF tag, s
  <2>3. /\ tag \o s \in Seq(Byte) /\ Len(tag \o s) = Len(tag) + Len(s)
        /\ \A i \in 1..(Len(tag) + Len(s)) :
             (tag \o s)[i] = IF i <= Len(tag) THEN tag[i] ELSE s[i - Len(tag)]
    <3>1. tag \in Seq(Byte) /\ s \in Seq(Byte)
      BY <2>1, <2>2
    <3> HIDE DEF n
    <3> QED BY <3>1, ConcatProperties
  <2>4. e = tag \o s
    BY <1>5, <1>8 DEF tag, s
  <2> HIDE DEF n
  <2>5. 1 \in 1..(Len(tag) + Len(s)) /\ 2 \in 1..(Len(tag) + Len(s))
    BY <1>2, <2>1, <2>2
  <2>6. /\ e \in Seq(Byte) /\ Len(e) = 2 + n /\ e[1] = 0 /\ e[2] = n
    BY <2>1, <2>2, <2>3, <2>4, <2>5
  <2>7. e # <<>> /\ Len(e) > 1
    BY <1>2, <2>6
  <2> QED BY <1>2, <2>6, <2>7, ItemIs DEF e
<1> QED BY <1>1, <1>6, <1>7, <1>8

(* write(): the bytes are at p, and those before it are what they were.    *)
LEMMA WrittenIs ==
  ASSUME NEW old \in Seq(Byte), NEW p \in Nat, NEW bytes \in Seq(Byte)
  PROVE  /\ Written(old, p, bytes) \in Seq(Byte)
         /\ p + Len(bytes) <= Len(Written(old, p, bytes))
         /\ p <= Len(old) => \A i \in 1..p : Written(old, p, bytes)[i] = old[i]
         /\ SubSeq(Written(old, p, bytes), p + 1, p + Len(bytes)) = bytes
<1> DEFINE end == p + Len(bytes)
           n == IF end > Len(old) THEN end ELSE Len(old)
           new == Written(old, p, bytes)
           At(i) == IF i > p /\ i <= end THEN bytes[i - p]
                    ELSE IF i <= Len(old) THEN old[i] ELSE 0
<1>1. Len(old) \in Nat /\ Len(bytes) \in Nat /\ end \in Nat /\ n \in Nat /\ end <= n
  OBVIOUS
<1>2. new = [i \in 1..n |-> At(i)]
  BY DEF Written
<1>3. ASSUME NEW i \in 1..n PROVE At(i) \in Byte
  <2>1. CASE i > p /\ i <= end
    <3>1. i - p \in 1..Len(bytes)
      BY <1>1, <2>1
    <3> QED BY <2>1, <3>1
  <2>2. CASE ~(i > p /\ i <= end)
    <3>1. 0 \in Byte
      BY DEF Byte
    <3>2. i <= Len(old) => old[i] \in Byte
      BY <1>1
    <3> QED BY <2>2, <3>1, <3>2
  <2> QED BY <2>1, <2>2
<1> HIDE DEF new, n
<1>4. new \in Seq(Byte) /\ Len(new) = n /\ \A i \in 1..n : new[i] = At(i)
  <2> HIDE DEF At
  <2>1. new \in [1..n -> Byte]
    BY <1>2, <1>3
  <2> QED BY <1>1, <1>2, <2>1
<1>5. p <= Len(old) => \A i \in 1..p : new[i] = old[i]
  <2> SUFFICES ASSUME p <= Len(old), NEW i \in 1..p PROVE new[i] = old[i]
    OBVIOUS
  <2>1. i \in 1..n
    BY <1>1
  <2>2. At(i) = old[i]
    BY <1>1
  <2> QED BY <1>4, <2>1, <2>2
<1>6. SubSeq(new, p + 1, end) = bytes
  <2> DEFINE s == SubSeq(new, p + 1, end)
  <2>1. p <= end /\ end <= Len(new) /\ end - p = Len(bytes)
    BY <1>1, <1>4
  <2>2. s \in Seq(Byte) /\ Len(s) = end - p /\ \A i \in 1..(end - p) : s[i] = new[p + i]
    <3> HIDE DEF end
    <3> QED BY <1>1, <1>4, <2>1, PieceIs
  <2>3. ASSUME NEW i \in 1..Len(bytes) PROVE new[p + i] = bytes[i]
    <3>1. p + i \in 1..n /\ p + i > p /\ p + i <= end /\ (p + i) - p = i
      BY <1>1
    <3>2. At(p + i) = bytes[i]
      BY <3>1
    <3> QED BY <1>4, <3>1, <3>2
  <2> HIDE DEF s
  <2>4. Len(s) = Len(bytes) /\ \A i \in 1..Len(s) : s[i] = bytes[i]
    BY <2>1, <2>2, <2>3
  <2> QED BY <2>2, <2>4, SeqEqual DEF s
<1> QED BY <1>1, <1>4, <1>5, <1>6 DEF new

-----------------------------------------------------------------------------
(* Types.                                                                  *)

DiskOK(d) == DOMAIN d \subseteq Files /\ d \in [DOMAIN d -> Seq(Byte)]
ChannelOn(d) == [file : DOMAIN d, mode : Modes, pos : Nat]
ChannelsOK(c, d) == DOMAIN c \subseteq Fds /\ c \in [DOMAIN c -> ChannelOn(d)]
Statement == [op : {"print", "input"}, fd : Fds, left : Nat \ {0}]
Typed(d, c, list, stmts) ==
  /\ DiskOK(d) /\ ChannelsOK(c, d)
  /\ list \in Seq(Entry(Nat)) /\ stmts \in Seq(Statement)

(* TypeOK by its parts.                                                    *)
LEMMA TypeParts ==
  TypeOK <=> /\ Typed(disk, channels, files_list, pending)
             /\ failed \in BOOLEAN /\ outcome \in {"running", "ended", "abort"}
             /\ newest_first \in BOOLEAN
BY Zenon DEF TypeOK, Typed, DiskOK, ChannelsOK, ChannelOn, Statement, Entry, Open

(* TypeOK in the next state, from its parts.                               *)
LEMMA TypeNext ==
  ASSUME Typed(disk', channels', files_list', pending'),
         failed' \in BOOLEAN, outcome' \in {"running", "ended", "abort"},
         newest_first' \in BOOLEAN
  PROVE  TypeOK'
BY Zenon DEF TypeOK, Typed, DiskOK, ChannelsOK, ChannelOn, Statement, Entry, Open

MovedTo(c, fd, p, e) == e = [c EXCEPT ![fd].pos = p]
OffsetIs(c, d, fd, p, e) ==
  /\ ChannelsOK(e, d) /\ DOMAIN e = DOMAIN c
  /\ e[fd].pos = p /\ e[fd].file = c[fd].file /\ e[fd].mode = c[fd].mode
  /\ \A g \in DOMAIN c : g # fd => e[g] = c[g]

(* Moving the offset of a channel.                                         *)
LEMMA OffsetMoved ==
  ASSUME NEW d, NEW c, ChannelsOK(c, d), NEW fd, fd \in DOMAIN c, NEW p, p \in Nat,
         NEW e, MovedTo(c, fd, p, e)
  PROVE  OffsetIs(c, d, fd, p, e)
<1> DEFINE new == [c[fd] EXCEPT !.pos = p]
<1>1. c[fd] \in ChannelOn(d)
  BY DEF ChannelsOK
<1>2. new \in ChannelOn(d) /\ new.pos = p /\ new.file = c[fd].file /\ new.mode = c[fd].mode
  BY <1>1 DEF ChannelOn
<1>3. e = [c EXCEPT ![fd] = new]
  BY DEF MovedTo
<1> HIDE DEF new
<1> QED BY <1>2, <1>3 DEF ChannelsOK, OffsetIs

(* Writing a file that is there.                                           *)
LEMMA DiskWritten ==
  ASSUME NEW d, DiskOK(d), NEW f \in DOMAIN d, NEW s \in Seq(Byte)
  PROVE  /\ DiskOK([d EXCEPT ![f] = s])
         /\ DOMAIN [d EXCEPT ![f] = s] = DOMAIN d
         /\ [d EXCEPT ![f] = s][f] = s
  BY DEF DiskOK

(* Channels stay channels when there are more files, or fewer channels.    *)
LEMMA MoreFiles ==
  ASSUME NEW c, NEW d, NEW e, ChannelsOK(c, d), DOMAIN d \subseteq DOMAIN e
  PROVE  ChannelsOK(c, e)
<1>1. ChannelOn(d) \subseteq ChannelOn(e)
  BY DEF ChannelOn
<1> QED BY <1>1 DEF ChannelsOK

(* Channels that are left are what they were.                               *)
LEMMA FewerChannels ==
  ASSUME NEW c, NEW d, ChannelsOK(c, d), NEW S, S \subseteq DOMAIN c
  PROVE  ChannelsOK([g \in S |-> c[g]], d)
  BY DEF ChannelsOK

(* What is left of a sequence of statements when the innermost ends.       *)
LEMMA OuterIs ==
  ASSUME pending \in Seq(Statement), pending # <<>>
  PROVE  /\ Outer \in Seq(Statement) /\ Current \in Statement
         /\ Current.fd \in Fds /\ Current.left \in Nat \ {0}
<1> DEFINE n == Len(pending)
<1>1. n \in Nat \ {0}
  BY EmptySeq
<1>2. pending[n] \in Statement
  BY <1>1
<1>3. SubSeq(pending, 1, n - 1) \in Seq(Statement)
  <2>1. 1 \in Int /\ n - 1 \in Int /\ \A i \in 1..(n - 1) : pending[i] \in Statement
    BY <1>1
  <2> HIDE DEF n
  <2> QED BY <2>1, SubSeqProperties
<1> QED BY <1>2, <1>3 DEF Outer, Current, Statement

(* The list of channels has pointers that count.                           *)
LEMMA ListTypes ==
  ASSUME files_list \in Seq(Entry(Nat)), Distinct(files_list), NEW fd
  PROVE  /\ fd \in Fds => Added(fd) \in Seq(Entry(Nat))
         /\ Removed(fd) \in Seq(Entry(Nat))
         /\ \A x \in Nat : WithPtr(fd, x) \in Seq(Entry(Nat))
         /\ fd \in Listed => GetPtr(fd) \in Nat
<1> DEFINE n == Len(files_list)
           h == Find(fd)
<1>1. n \in Nat /\ DOMAIN files_list = 1..n /\ \A i \in 1..n : files_list[i] \in Entry(Nat)
  OBVIOUS
<1>2. ASSUME fd \in Listed PROVE h \in 1..n /\ files_list[h].fd = fd
  <2>1. IsList(files_list)
    BY DEF IsList
  <2> QED BY <1>2, <2>1, FindFinds
<1>3. ASSUME fd \in Fds PROVE Added(fd) \in Seq(Entry(Nat))
  <2> DEFINE new == [fd |-> fd, ptr |-> 0]
  <2>1. new \in Entry(Nat)
    BY <1>3 DEF Entry
  <2> HIDE DEF new
  <2>2. <<new>> \o files_list \in Seq(Entry(Nat))
    BY <2>1
  <2> QED BY <2>2 DEF Added, new
<1>4. Removed(fd) \in Seq(Entry(Nat))
  <2>1. CASE fd \in Listed
    <3>1. h + 1 \in Int /\ n \in Int /\ \A i \in (h + 1)..n : files_list[i] \in Entry(Nat)
      BY <1>1, <1>2, <2>1
    <3> HIDE DEF h, n
    <3>2. SubSeq(files_list, h + 1, n) \in Seq(Entry(Nat))
      BY <3>1, SubSeqProperties
    <3> QED BY <2>1, <3>2 DEF Removed, h, n
  <2> QED BY <2>1 DEF Removed
<1>5. ASSUME NEW x \in Nat PROVE WithPtr(fd, x) \in Seq(Entry(Nat))
  <2>1. CASE fd \in Listed
    <3> DEFINE new == [files_list[h] EXCEPT !.ptr = x]
    <3>1. files_list[h] \in Entry(Nat)
      BY <1>1, <1>2, <2>1
    <3>2. new \in Entry(Nat)
      BY <3>1 DEF Entry
    <3>3. WithPtr(fd, x) = [files_list EXCEPT ![h] = new]
      BY <2>1 DEF WithPtr
    <3> HIDE DEF new, h
    <3> QED BY <1>2, <2>1, <3>2, <3>3, ExceptSeq
  <2> QED BY <2>1 DEF WithPtr
<1>6. ASSUME fd \in Listed PROVE GetPtr(fd) \in Nat
  <2>1. files_list[h] \in Entry(Nat) /\ GetPtr(fd) = files_list[h].ptr
    BY <1>1, <1>2, <1>6 DEF GetPtr
  <2> QED BY <2>1 DEF Entry
<1> QED BY <1>3, <1>4, <1>5, <1>6

(* A file is opened: it is there, and no channel loses its file.           *)
LEMMA OpenTyped ==
  ASSUME TypeOK, Inv, NEW f \in Files, NEW mode \in Modes, OpenFile(f, mode)
  PROVE  TypeOK'
<1>1. /\ DiskOK(disk) /\ ChannelsOK(channels, disk)
      /\ files_list \in Seq(Entry(Nat)) /\ pending \in Seq(Statement)
      /\ newest_first \in BOOLEAN
  BY TypeParts DEF Typed
<1>2. PICK fd \in Fds \ Open :
        /\ channels' = [g \in Open \cup {fd} |->
                          IF g = fd THEN [file |-> f, mode |-> mode, pos |-> 0]
                                    ELSE channels[g]]
        /\ files_list' = Added(fd)
  BY DEF OpenFile
<1>3. /\ mode = "out" \/ f \in DOMAIN disk
      /\ disk' = IF mode = "out"
                 THEN [g \in DOMAIN disk \cup {f} |-> IF g = f THEN <<>> ELSE disk[g]]
                 ELSE disk
      /\ Running /\ failed' = FALSE /\ UNCHANGED <<pending, outcome, newest_first>>
  BY DEF OpenFile, Ok
<1>4. DiskOK(disk') /\ DOMAIN disk' = DOMAIN disk \cup {f}
  <2>1. CASE mode = "out"
    <3>1. <<>> \in Seq(Byte)
      OBVIOUS
    <3> QED BY <1>1, <1>3, <2>1, <3>1 DEF DiskOK
  <2>2. CASE mode # "out"
    BY <1>1, <1>3, <2>2
  <2> QED BY <2>1, <2>2
<1>5. ChannelsOK(channels', disk')
  <2>1. ChannelsOK(channels, disk')
    BY <1>1, <1>4, MoreFiles
  <2> DEFINE c == [file |-> f, mode |-> mode, pos |-> 0]
  <2>2. c \in ChannelOn(disk')
    BY <1>4 DEF ChannelOn
  <2> HIDE DEF c
  <2>3. channels' = [g \in Open \cup {fd} |-> IF g = fd THEN c ELSE channels[g]]
    BY <1>2 DEF c
  <2> QED BY <2>1, <2>2, <2>3 DEF ChannelsOK, Open
<1>6. files_list' \in Seq(Entry(Nat))
  BY <1>1, <1>2, <1>3, ListTypes DEF Inv
<1> QED BY <1>1, <1>3, <1>4, <1>5, <1>6, TypeNext DEF Typed, Running

(* Channels are closed, one or all.                                        *)
LEMMA CloseTyped ==
  ASSUME TypeOK, Inv, CloseEvery \/ EndProgram \/ \E fd \in Fds : Close(fd)
  PROVE  TypeOK'
<1>1. /\ DiskOK(disk) /\ ChannelsOK(channels, disk)
      /\ files_list \in Seq(Entry(Nat)) /\ pending \in Seq(Statement)
      /\ newest_first \in BOOLEAN /\ Running
  BY TypeParts DEF Typed, CloseEvery, EndProgram, Close
<1>2. <<>> \in Seq(Entry(Nat)) /\ <<>> \in Seq(Statement)
  OBVIOUS
<1>3. CASE CloseEvery \/ EndProgram
  <2>1. /\ disk' = disk /\ newest_first' = newest_first
        /\ channels' = [fd \in Open \ Listed |-> channels[fd]]
        /\ files_list' = <<>> /\ failed' = FALSE
        /\ pending' \in {<<>>, pending}
        /\ outcome' \in {"running", "ended", "abort"}
    BY <1>3 DEF CloseEvery, EndProgram, CloseAll, Ok
  <2>2. ChannelsOK(channels', disk')
    BY <1>1, <2>1, FewerChannels DEF Open
  <2> QED BY <1>1, <1>2, <2>1, <2>2, TypeNext DEF Typed
<1>4. CASE \E fd \in Fds : Close(fd)
  <2>1. PICK fd \in Fds : Close(fd)
    BY <1>4
  <2>2. /\ UNCHANGED <<disk, pending, outcome>> /\ failed' = FALSE
        /\ channels' = [g \in Open \ {fd} |-> channels[g]]
        /\ files_list' = Removed(fd) /\ newest_first' \in BOOLEAN
    BY <1>1, <2>1 DEF Close, Ok
  <2>3. ChannelsOK(channels', disk')
    BY <1>1, <2>2, FewerChannels DEF Open
  <2>4. files_list' \in Seq(Entry(Nat))
    BY <1>1, <2>2, ListTypes DEF Inv
  <2> QED BY <1>1, <2>2, <2>3, <2>4, TypeNext DEF Typed, Running
<1> QED BY <1>3, <1>4

(* An item is counted, or the program aborts.                              *)
LEMMA CountTyped ==
  ASSUME TypeOK, Inv, Running, NEW fd, CountItem(fd)
  PROVE  /\ files_list' \in Seq(Entry(Nat)) /\ failed' \in BOOLEAN
         /\ outcome' \in {"running", "ended", "abort"}
<1>1. files_list \in Seq(Entry(Nat)) /\ failed \in BOOLEAN
  BY TypeParts DEF Typed
<1>2. CASE fd \in Listed
  <2>1. GetPtr(fd) + 1 \in Nat
    <3>1. GetPtr(fd) \in Nat
      BY <1>1, <1>2, ListTypes DEF Inv
    <3> QED BY <3>1
  <2>2. files_list' \in Seq(Entry(Nat))
    BY <1>1, <1>2, <2>1, ListTypes DEF Inv, CountItem
  <2> QED BY <1>2, <2>2 DEF CountItem, Ok, Running
<1>3. CASE fd \notin Listed
  BY <1>1, <1>3 DEF CountItem, Abort
<1> QED BY <1>2, <1>3

(* write() moves the offset behind what is written.                        *)
LEMMA WriteTyped ==
  ASSUME TypeOK, NEW fd \in Open, NEW bytes \in Seq(Byte), Write(fd, bytes)
  PROVE  /\ DiskOK(disk') /\ ChannelsOK(channels', disk')
         /\ DOMAIN channels' = Open
         /\ channels'[fd].file = channels[fd].file
         /\ channels'[fd].pos = channels[fd].pos + Len(bytes)
         /\ Content(fd)' = Written(Content(fd), channels[fd].pos, bytes)
         /\ Content(fd) \in Seq(Byte) /\ channels[fd].pos \in Nat
         /\ \A g \in Open : g # fd => channels'[g] = channels[g]
<1> DEFINE p == channels[fd].pos
           f == channels[fd].file
           new == Written(disk[f], p, bytes)
           q == p + Len(bytes)
<1>1. DiskOK(disk) /\ ChannelsOK(channels, disk)
  BY TypeParts DEF Typed
<1>2. channels[fd] \in ChannelOn(disk)
  BY <1>1 DEF ChannelsOK, Open
<1>3. f \in DOMAIN disk /\ p \in Nat
  BY <1>2 DEF ChannelOn
<1>4. disk[f] \in Seq(Byte)
  BY <1>1, <1>3 DEF DiskOK
<1>5. new \in Seq(Byte) /\ q \in Nat
  <2>1. Len(bytes) \in Nat
    OBVIOUS
  <2>2. q \in Nat
    BY <1>3, <2>1
  <2> HIDE DEF p, f, q
  <2> QED BY <1>3, <1>4, <2>2, WrittenIs
<1>6. disk' = [disk EXCEPT ![f] = new] /\ channels' = [channels EXCEPT ![fd].pos = q]
  BY DEF Write
<1> HIDE DEF new, q, p, f
<1>7. DiskOK(disk') /\ DOMAIN disk' = DOMAIN disk /\ disk'[f] = new
  BY <1>1, <1>3, <1>5, <1>6, DiskWritten
<1>8. ChannelsOK(channels, disk')
  BY <1>1, <1>7, MoreFiles
<1>9. /\ ChannelsOK(channels', disk') /\ DOMAIN channels' = DOMAIN channels
      /\ channels'[fd].pos = q /\ channels'[fd].file = channels[fd].file
      /\ \A g \in DOMAIN channels : g # fd => channels'[g] = channels[g]
  <2>1. fd \in DOMAIN channels /\ q \in Nat
    BY <1>5 DEF Open
  <2>2. MovedTo(channels, fd, q, channels')
    BY <1>6, Zenon DEF MovedTo
  <2>3. fd \in DOMAIN channels
    BY <2>1
  <2>4. q \in Nat
    BY <2>1
  <2>5. OffsetIs(channels, disk', fd, q, channels')
    BY <1>8, <2>2, <2>3, <2>4, OffsetMoved, Zenon
  <2> QED BY <2>5 DEF OffsetIs
<1> QED BY <1>3, <1>4, <1>7, <1>9 DEF Open, Content, new, q, p, f

(* What a channel is, and the file it is on.                               *)
LEMMA ChannelIs ==
  ASSUME TypeOK, NEW fd \in Open
  PROVE  /\ fd \in Fds /\ fd \in DOMAIN channels
         /\ DiskOK(disk) /\ ChannelsOK(channels, disk)
         /\ channels[fd].pos \in Nat /\ channels[fd].file \in DOMAIN disk
         /\ Content(fd) \in Seq(Byte)
<1>1. DiskOK(disk) /\ ChannelsOK(channels, disk)
  BY TypeParts DEF Typed
<1>2. fd \in Fds /\ fd \in DOMAIN channels /\ channels[fd] \in ChannelOn(disk)
  BY <1>1 DEF ChannelsOK, Open
<1> QED BY <1>1, <1>2 DEF ChannelOn, DiskOK, Content

(* A step that moves the offset of one channel.                            *)
LEMMA OffsetStep ==
  ASSUME TypeOK, NEW fd \in Open, NEW p \in Nat, channels' = [channels EXCEPT ![fd].pos = p]
  PROVE  OffsetIs(channels, disk, fd, p, channels')
<1>1. fd \in DOMAIN channels /\ ChannelsOK(channels, disk)
  BY ChannelIs
<1>2. MovedTo(channels, fd, p, channels')
  BY Zenon DEF MovedTo
<1> QED BY <1>1, <1>2, OffsetMoved, Zenon

(* Bytes.                                                                  *)
LEMMA BytesTyped ==
  ASSUME TypeOK, NEW fd \in Fds, BGet(fd) \/ \E b \in Bytes : BPut(fd, b)
  PROVE  TypeOK'
<1>1. /\ DiskOK(disk) /\ ChannelsOK(channels, disk)
      /\ files_list \in Seq(Entry(Nat)) /\ pending \in Seq(Statement)
      /\ newest_first \in BOOLEAN /\ outcome \in {"running", "ended", "abort"}
  BY TypeParts DEF Typed
<1>2. CASE BGet(fd)
  <2>1. /\ UNCHANGED <<disk, files_list, pending, outcome, newest_first>>
        /\ failed' \in BOOLEAN /\ fd \in Open
        /\ \/ channels' = [channels EXCEPT ![fd].pos = @ + 1]
           \/ channels' = channels
    BY <1>2 DEF BGet, CanRead, Ok, Fail
  <2>2. ChannelsOK(channels', disk)
    <3>1. CASE channels' = [channels EXCEPT ![fd].pos = @ + 1]
      <4> DEFINE p == channels[fd].pos + 1
      <4>1. p \in Nat
        BY <2>1, ChannelIs
      <4>2. channels' = [channels EXCEPT ![fd].pos = p]
        BY <3>1
      <4> HIDE DEF p
      <4> QED BY <2>1, <4>1, <4>2, OffsetStep DEF OffsetIs
    <3> QED BY <1>1, <2>1, <3>1
  <2> QED BY <1>1, <2>1, <2>2, TypeNext DEF Typed
<1>3. CASE \E b \in Bytes : BPut(fd, b)
  <2>1. PICK b \in Bytes : BPut(fd, b)
    BY <1>3
  <2>2. /\ UNCHANGED <<files_list, pending, outcome, newest_first>>
        /\ failed' \in BOOLEAN /\ fd \in Open /\ Write(fd, <<b>>)
    BY <2>1 DEF BPut, CanWrite, Ok
  <2>3. <<b>> \in Seq(Byte)
    <3>1. b \in Byte
      BY FilesAssumption
    <3> QED BY <3>1
  <2> DEFINE bytes == <<b>>
  <2> HIDE DEF bytes
  <2>4. DiskOK(disk') /\ ChannelsOK(channels', disk')
    <3>1. bytes \in Seq(Byte) /\ Write(fd, bytes)
      BY <2>2, <2>3 DEF bytes
    <3> QED BY <2>2, <3>1, WriteTyped
  <2> QED BY <1>1, <2>2, <2>4, TypeNext DEF Typed
<1> QED BY <1>2, <1>3

(* Where PTR# = n puts the offset and the pointer.                         *)
LEMMA SetPtrFinds ==
  ASSUME TypeOK, NEW fd \in Open, NEW want \in Int,
         NEW n, n = IF want > 0 THEN want ELSE 0,
         NEW w, w = IF CanRead(fd) THEN Skip(Content(fd), n)
                    ELSE [ok |-> n = 0, pos |-> 0, ptr |-> 0]
  PROVE  w \in Places /\ (w.ok => Items(Content(fd), w.pos, w.ptr))
<1>1. Content(fd) \in Seq(Byte) /\ n \in Nat
  BY ChannelIs
<1>2. CASE CanRead(fd)
  BY <1>1, <1>2, SkipFinds
<1>3. CASE ~CanRead(fd)
  <2>1. w.pos = 0 /\ w.ptr = 0 /\ w \in Places
    BY <1>3 DEF Places
  <2>2. Items(Content(fd), 0, 0)
    BY <1>1, NoItems
  <2> QED BY <2>1, <2>2
<1> QED BY <1>2, <1>3

(* PTR# =.                                                                 *)
LEMMA PtrTyped ==
  ASSUME TypeOK, Inv, NEW fd \in Fds, NEW want \in Wanted,
         SetPtr(fd, want) \/ SetPtrUnlisted(fd, want)
  PROVE  TypeOK'
<1>1. /\ DiskOK(disk) /\ ChannelsOK(channels, disk)
      /\ files_list \in Seq(Entry(Nat)) /\ pending \in Seq(Statement)
      /\ newest_first \in BOOLEAN /\ failed \in BOOLEAN
      /\ outcome \in {"running", "ended", "abort"}
  BY TypeParts DEF Typed
<1>2. CASE SetPtr(fd, want)
  <2> DEFINE n == IF want > 0 THEN want ELSE 0
             w == IF CanRead(fd) THEN Skip(Content(fd), n)
                  ELSE [ok |-> n = 0, pos |-> 0, ptr |-> 0]
  <2>1. /\ Running /\ fd \in Open
        /\ channels' = [channels EXCEPT ![fd].pos = w.pos]
        /\ files_list' = WithPtr(fd, w.ptr)
        /\ failed' \in BOOLEAN
        /\ UNCHANGED <<disk, pending, outcome, newest_first>>
    BY <1>2 DEF SetPtr, Ok, Fail
  <2>2. w.pos \in Nat /\ w.ptr \in Nat
    <3>1. want \in Int
      BY FilesAssumption
    <3>2. w \in Places
      BY <2>1, <3>1, SetPtrFinds
    <3> HIDE DEF w
    <3> QED BY <3>2 DEF Places
  <2> HIDE DEF w
  <2>3. ChannelsOK(channels', disk)
    BY <2>1, <2>2, OffsetStep DEF OffsetIs
  <2>4. files_list' \in Seq(Entry(Nat))
    BY <1>1, <2>1, <2>2, ListTypes DEF Inv
  <2> QED BY <1>1, <2>1, <2>3, <2>4, TypeNext DEF Typed
<1>3. CASE SetPtrUnlisted(fd, want)
  <2> DEFINE r == IF CanRead(fd) THEN ReadItem(Content(fd), 0)
                  ELSE [ok |-> FALSE, pos |-> 0]
             p == IF want <= STATUS_ERROR THEN 0 ELSE r.pos
  <2>1. /\ fd \in Open /\ channels' = [channels EXCEPT ![fd].pos = p]
        /\ failed' \in BOOLEAN /\ outcome' \in {"running", "ended", "abort"}
        /\ UNCHANGED <<disk, files_list, pending, newest_first>>
    BY <1>1, <1>3 DEF SetPtrUnlisted, Abort, Fail
  <2>2. p \in Nat
    <3>1. Content(fd) \in Seq(Byte)
      BY <2>1, ChannelIs
    <3>2. ReadItem(Content(fd), 0).pos \in Nat
      BY <3>1, ReadItemIs
    <3> QED BY <3>2
  <2> HIDE DEF p
  <2>3. ChannelsOK(channels', disk)
    BY <2>1, <2>2, OffsetStep DEF OffsetIs
  <2> QED BY <1>1, <2>1, <2>3, TypeNext DEF Typed
<1> QED BY <1>2, <1>3

(* Statements in progress.                                                 *)
LEMMA StatementAdded ==
  ASSUME NEW stmts \in Seq(Statement), NEW op \in {"print", "input"}, NEW fd \in Fds,
         NEW left \in Nat \ {0}
  PROVE  Append(stmts, [op |-> op, fd |-> fd, left |-> left]) \in Seq(Statement)
<1> DEFINE new == [op |-> op, fd |-> fd, left |-> left]
<1>1. new \in Statement
  BY DEF Statement
<1> HIDE DEF new
<1>2. Append(stmts, new) \in Seq(Statement)
  BY <1>1
<1> QED BY <1>2 DEF new

(* An item of INPUT# is read, or none is.                                  *)
LEMMA InputTyped ==
  ASSUME TypeOK, Inv, Running, NEW fd \in Fds, NEW rest \in Seq(Statement),
         NEW left \in Nat \ {0}, Input(fd, rest, left), UNCHANGED <<disk, newest_first>>
  PROVE  TypeOK'
<1> DEFINE r == IF CanRead(fd) THEN ReadItem(Content(fd), channels[fd].pos)
                ELSE [ok |-> FALSE, pos |-> 0]
<1>1. /\ DiskOK(disk) /\ ChannelsOK(channels, disk)
      /\ files_list \in Seq(Entry(Nat)) /\ pending \in Seq(Statement)
      /\ newest_first \in BOOLEAN /\ outcome \in {"running", "ended", "abort"}
  BY TypeParts DEF Typed
<1>2. /\ channels' = IF CanRead(fd) THEN [channels EXCEPT ![fd].pos = r.pos] ELSE channels
      /\ IF r.ok THEN /\ pending' = Append(rest, [op |-> "input", fd |-> fd, left |-> left])
                      /\ CountItem(fd)
                 ELSE /\ pending' = rest /\ Fail
                      /\ UNCHANGED <<files_list, outcome>>
  BY Zenon DEF Input
<1>3. ChannelsOK(channels', disk)
  <2>1. CASE CanRead(fd)
    <3>1. fd \in Open /\ r = ReadItem(Content(fd), channels[fd].pos)
      BY <2>1 DEF CanRead
    <3>2. Content(fd) \in Seq(Byte) /\ channels[fd].pos \in Nat
      BY <3>1, ChannelIs
    <3> HIDE DEF r
    <3>3. r.pos \in Nat
      BY <3>1, <3>2, ReadItemIs
    <3> QED BY <1>2, <2>1, <3>1, <3>3, OffsetStep DEF OffsetIs
  <2>2. CASE ~CanRead(fd)
    BY <1>1, <1>2, <2>2
  <2> QED BY <2>1, <2>2
<1> HIDE DEF r
<1>4. /\ pending' \in Seq(Statement) /\ files_list' \in Seq(Entry(Nat))
      /\ failed' \in BOOLEAN /\ outcome' \in {"running", "ended", "abort"}
  <2>1. CASE r.ok
    <3>1. CountItem(fd)
      BY <1>2, <2>1
    <3>2. pending' \in Seq(Statement)
      BY <1>2, <2>1, StatementAdded
    <3> QED BY <3>1, <3>2, CountTyped
  <2>2. CASE ~r.ok
    BY <1>1, <1>2, <2>2 DEF Fail
  <2> QED BY <2>1, <2>2
<1> QED BY <1>1, <1>3, <1>4, TypeNext DEF Typed

(* The items of PRINT# and INPUT#.                                         *)
LEMMA ItemsTyped ==
  ASSUME TypeOK, Inv,
         \/ \E fd \in Fds, n \in 1..MaxItems : PrintStart(fd, n) \/ InputStart(fd, n)
         \/ \E v \in Values : PrintItem(v)
         \/ PrintFails \/ InputNext \/ InputDone \/ OperandFails
  PROVE  TypeOK'
<1>1. /\ DiskOK(disk) /\ ChannelsOK(channels, disk)
      /\ files_list \in Seq(Entry(Nat)) /\ pending \in Seq(Statement)
      /\ newest_first \in BOOLEAN /\ outcome \in {"running", "ended", "abort"}
      /\ failed \in BOOLEAN
  BY TypeParts DEF Typed
<1>2. CASE \E fd \in Fds, n \in 1..MaxItems : PrintStart(fd, n)
  <2>1. PICK fd \in Fds, n \in 1..MaxItems : PrintStart(fd, n)
    BY <1>2
  <2>2. /\ pending' = Append(pending, [op |-> "print", fd |-> fd, left |-> n])
        /\ UNCHANGED <<disk, channels, files_list, failed, outcome, newest_first>>
    BY <2>1 DEF PrintStart
  <2>3. n \in Nat \ {0}
    BY FilesAssumption
  <2>4. pending' \in Seq(Statement)
    BY <1>1, <2>2, <2>3, StatementAdded
  <2> QED BY <1>1, <2>2, <2>4, TypeNext DEF Typed
<1>3. CASE \E fd \in Fds, n \in 1..MaxItems : InputStart(fd, n)
  <2>1. PICK fd \in Fds, n \in 1..MaxItems : InputStart(fd, n)
    BY <1>3
  <2>2. n \in Nat \ {0}
    BY FilesAssumption
  <2> QED BY <1>1, <2>1, <2>2, InputTyped DEF InputStart
<1>4. CASE \E v \in Values : PrintItem(v)
  <2>1. PICK v \in Values : PrintItem(v)
    BY <1>4
  <2> DEFINE left == Current.left - 1
  <2>2. /\ Running /\ pending # <<>> /\ Current.fd \in Open
        /\ Write(Current.fd, Encode(v)) /\ CountItem(Current.fd)
        /\ pending' = InProgress("print", Current.fd, left)
        /\ UNCHANGED newest_first
    BY <2>1 DEF PrintItem, CanWrite
  <2>3. /\ Outer \in Seq(Statement) /\ Current.fd \in Fds /\ Current.left \in Nat \ {0}
    BY <1>1, <2>2, OuterIs
  <2>4. left \in Nat
    BY <2>3
  <2> HIDE DEF left
  <2>5. pending' \in Seq(Statement)
    <3>1. CASE left = 0
      BY <2>2, <2>3, <3>1 DEF InProgress
    <3>2. CASE left # 0
      <4>1. left \in Nat \ {0}
        BY <2>4, <3>2
      <4>2. pending' = Append(Outer, [op |-> "print", fd |-> Current.fd, left |-> left])
        BY <2>2, <3>2 DEF InProgress
      <4> QED BY <2>3, <4>1, <4>2, StatementAdded
    <3> QED BY <3>1, <3>2
  <2>6. DiskOK(disk') /\ ChannelsOK(channels', disk')
    <3>1. Encode(v) \in Seq(Byte)
      BY EncodedIsItem
    <3> QED BY <2>2, <3>1, WriteTyped
  <2>7. /\ files_list' \in Seq(Entry(Nat)) /\ failed' \in BOOLEAN
        /\ outcome' \in {"running", "ended", "abort"}
    BY <2>2, CountTyped
  <2> QED BY <1>1, <2>2, <2>5, <2>6, <2>7, TypeNext DEF Typed
<1>5. CASE PrintFails \/ InputDone \/ OperandFails
  <2>1. /\ pending # <<>> /\ pending' = Outer /\ failed' \in BOOLEAN
        /\ UNCHANGED <<disk, channels, files_list, outcome, newest_first>>
    BY <1>5 DEF PrintFails, InputDone, OperandFails, Ok, Fail
  <2>2. pending' \in Seq(Statement)
    BY <1>1, <2>1, OuterIs
  <2> QED BY <1>1, <2>1, <2>2, TypeNext DEF Typed
<1>6. CASE InputNext
  <2> DEFINE left == Current.left - 1
  <2>1. /\ Running /\ pending # <<>> /\ Current.left > 1
        /\ Input(Current.fd, Outer, left)
        /\ UNCHANGED <<disk, newest_first>>
    BY <1>6 DEF InputNext
  <2>2. Outer \in Seq(Statement) /\ Current.fd \in Fds /\ Current.left \in Nat \ {0}
    BY <1>1, <2>1, OuterIs
  <2>3. left \in Nat \ {0}
    BY <2>1, <2>2
  <2> HIDE DEF left
  <2> QED BY <2>1, <2>2, <2>3, InputTyped
<1> QED BY <1>2, <1>3, <1>4, <1>5, <1>6

(* The files at the start, and no channels.                                *)
LEMMA TypeInit == Init => TypeOK
<1> SUFFICES ASSUME Init PROVE TypeOK
  OBVIOUS
<1>1. /\ disk \in Disks /\ channels = <<>> /\ files_list = <<>> /\ pending = <<>>
      /\ failed = FALSE /\ outcome = "running" /\ newest_first = TRUE
  BY DEF Init
<1>2. DiskOK(disk)
  BY <1>1, FilesAssumption DEF DiskOK
<1>3. DOMAIN channels = {}
  BY <1>1
<1>4. ChannelsOK(channels, disk)
  <2>1. channels = [g \in {} |-> channels[g]]
    BY <1>1
  <2> QED BY <1>3, <2>1 DEF ChannelsOK
<1>5. files_list \in Seq(Entry(Nat)) /\ pending \in Seq(Statement)
  BY <1>1
<1> QED BY <1>1, <1>2, <1>4, <1>5, TypeParts DEF Typed

(* Every step keeps the types.                                             *)
LEMMA TypeKept == TypeOK /\ Inv /\ [Next]_vars => TypeOK'
<1> SUFFICES ASSUME TypeOK, Inv, [Next]_vars PROVE TypeOK'
  OBVIOUS
<1>1. CASE \E f \in Files, mode \in Modes : OpenFile(f, mode)
  BY <1>1, OpenTyped
<1>2. CASE CloseEvery \/ EndProgram \/ \E fd \in Fds : Close(fd)
  BY <1>2, CloseTyped
<1>3. CASE \E fd \in Fds : BGet(fd) \/ \E b \in Bytes : BPut(fd, b)
  BY <1>3, BytesTyped
<1>4. CASE \E fd \in Fds, want \in Wanted : SetPtr(fd, want) \/ SetPtrUnlisted(fd, want)
  BY <1>4, PtrTyped
<1>5. CASE \/ \E fd \in Fds, n \in 1..MaxItems : PrintStart(fd, n) \/ InputStart(fd, n)
           \/ \E v \in Values : PrintItem(v)
           \/ PrintFails \/ InputNext \/ InputDone \/ OperandFails
  BY <1>5, ItemsTyped
<1>6. CASE \/ \E f \in Files, mode \in Modes : OpenFails(f, mode)
           \/ Refused \/ Stopped \/ UNCHANGED vars
  <2>1. /\ UNCHANGED <<disk, channels, files_list, pending, outcome, newest_first>>
        /\ failed' \in BOOLEAN
    BY <1>6, TypeParts DEF OpenFails, Refused, Stopped, vars, Ok, Fail
  <2>2. Typed(disk', channels', files_list', pending')
    BY <2>1, TypeParts
  <2> QED BY <2>1, <2>2, TypeParts, TypeNext
<1> QED BY <1>1, <1>2, <1>3, <1>4, <1>5, <1>6 DEF Next

(* Files, channels, the list and the statements in progress are what the   *)
(* other modules of the runtime take them for: an entry of the list is a   *)
(* descriptor and a count, a channel is on a file that is there, and a     *)
(* statement in progress has items left (file_set, open_files).            *)
THEOREM ChannelsAreWellTyped == Spec => []TypeOK
<1>1. TypeOK /\ Inv /\ [Next]_vars => TypeOK'
  BY TypeKept
<1> QED BY TypeInit, <1>1, InvAlways, PTL DEF Spec

-----------------------------------------------------------------------------
(* The pointer counts items.                                               *)

(* The pointer of a descriptor in a list.                                  *)
FirstOf(list, fd) == CHOOSE i \in DOMAIN list :
                       /\ list[i].fd = fd
                       /\ \A j \in 1..(i - 1) : list[j].fd # fd
PtrIn(list, fd) ==
  IF fd \in FdsOf(list) THEN list[FirstOf(list, fd)].ptr ELSE STATUS_ERROR

(* GetPtr looks the pointer up in the list.                                 *)
LEMMA PtrIsIn ==
  \A fd : GetPtr(fd) = PtrIn(files_list, fd) /\ GetPtr(fd)' = PtrIn(files_list', fd)
BY DEF GetPtr, PtrIn, FirstOf, Find, Listed, FdsOf

(* Each descriptor has one entry, and the pointer is in it.                *)
LEMMA PtrOfEntry ==
  ASSUME NEW list \in Seq(Entry(Nat)), Distinct(list), NEW i \in DOMAIN list
  PROVE  PtrIn(list, list[i].fd) = list[i].ptr
<1> DEFINE fd == list[i].fd
           h == FirstOf(list, fd)
<1>1. Len(list) \in Nat /\ DOMAIN list = 1..Len(list)
  OBVIOUS
<1>2. fd \in FdsOf(list)
  BY DEF FdsOf
<1>3. \A j \in 1..(i - 1) : list[j].fd # fd
  <2>1. \A j \in 1..(i - 1) : j \in DOMAIN list /\ j # i
    BY <1>1
  <2> QED BY <2>1 DEF Distinct
<1>4. h \in DOMAIN list /\ list[h].fd = fd
  <2> HIDE DEF fd
  <2>1. \E k \in DOMAIN list : list[k].fd = fd /\ \A j \in 1..(k - 1) : list[j].fd # fd
    BY <1>3 DEF fd
  <2> QED BY <2>1 DEF FirstOf
<1>5. h = i
  BY <1>4 DEF Distinct
<1> QED BY <1>2, <1>5 DEF PtrIn

(* Entries that are kept keep their pointers.                              *)
LEMMA PtrKept ==
  ASSUME NEW old \in Seq(Entry(Nat)), Distinct(old), NEW new \in Seq(Entry(Nat)), Distinct(new),
         NEW fd \in FdsOf(new),
         \A j \in DOMAIN new : new[j].fd = fd => \E i \in DOMAIN old : old[i] = new[j]
  PROVE  PtrIn(new, fd) = PtrIn(old, fd)
<1>1. PICK j \in DOMAIN new : new[j].fd = fd
  BY DEF FdsOf
<1>2. PICK i \in DOMAIN old : old[i] = new[j]
  BY <1>1
<1>3. PtrIn(new, new[j].fd) = new[j].ptr /\ PtrIn(old, old[i].fd) = old[i].ptr
  BY PtrOfEntry
<1> QED BY <1>1, <1>2, <1>3

(* Opening and closing channels keeps the pointers of the others.          *)
LEMMA PtrsAfterOpenAndClose ==
  ASSUME files_list \in Seq(Entry(Nat)), Distinct(files_list), NEW fd, NEW g
  PROVE  /\ g # fd => \A j \in DOMAIN Added(fd) :
              Added(fd)[j].fd = g => \E i \in DOMAIN files_list : files_list[i] = Added(fd)[j]
         /\ \A j \in DOMAIN Removed(fd) :
              \E i \in DOMAIN files_list : files_list[i] = Removed(fd)[j]
<1> DEFINE n == Len(files_list)
           h == Find(fd)
<1>1. n \in Nat /\ DOMAIN files_list = 1..n /\ \A i \in 1..n : files_list[i] \in Entry(Nat)
  OBVIOUS
<1>2. ASSUME g # fd, NEW j \in DOMAIN Added(fd), Added(fd)[j].fd = g
      PROVE  \E i \in DOMAIN files_list : files_list[i] = Added(fd)[j]
  <2> DEFINE new == [fd |-> fd, ptr |-> 0]
             all == <<new>> \o files_list
  <2>1. new.fd = fd /\ Added(fd) = all
    BY DEF Added
  <2> HIDE DEF new
  <2>2. Len(all) = n + 1 /\ DOMAIN all = 1..(n + 1) /\ all[1] = new
        /\ \A i \in 1..n : all[i + 1] = files_list[i]
    OBVIOUS
  <2> HIDE DEF all, n
  <2>3. j # 1 /\ j \in 1..(n + 1)
    BY <1>2, <2>1, <2>2
  <2>4. j - 1 \in 1..n /\ (j - 1) + 1 = j
    BY <1>1, <2>3
  <2>5. all[j] = files_list[j - 1]
    BY <2>2, <2>4
  <2> QED BY <1>1, <2>1, <2>4, <2>5
<1>3. ASSUME NEW j \in DOMAIN Removed(fd)
      PROVE  \E i \in DOMAIN files_list : files_list[i] = Removed(fd)[j]
  <2>1. CASE fd \in Listed
    <3>1. h \in 1..n
      <4>1. IsList(files_list)
        BY DEF IsList
      <4> QED BY <2>1, <4>1, FindFinds
    <3>2. h + 1 \in Int /\ n \in Int /\ \A i \in (h + 1)..n : files_list[i] \in Entry(Nat)
      BY <1>1, <3>1
    <3> HIDE DEF h, n
    <3> DEFINE s == SubSeq(files_list, h + 1, n)
    <3>3. /\ s \in Seq(Entry(Nat)) /\ Len(s) = IF h + 1 <= n THEN n - (h + 1) + 1 ELSE 0
          /\ \A i \in 1..(n - (h + 1) + 1) : s[i] = files_list[h + 1 + i - 1]
      BY <3>2, SubSeqProperties
    <3>4. Removed(fd) = s
      BY <2>1 DEF Removed, h, n
    <3> HIDE DEF s
    <3>5. j \in 1..Len(s)
      BY <3>3, <3>4
    <3>6. h + 1 <= n /\ j \in 1..(n - (h + 1) + 1) /\ h + 1 + j - 1 \in 1..n
      BY <1>1, <3>1, <3>3, <3>5
    <3> QED BY <1>1, <3>3, <3>4, <3>6
  <2>2. CASE fd \notin Listed
    BY <2>2 DEF Removed
  <2> QED BY <2>1, <2>2
<1> QED BY <1>2, <1>3

(* Setting the pointer of one descriptor.                                  *)
LEMMA PtrsAfterSet ==
  ASSUME files_list \in Seq(Entry(Nat)), Distinct(files_list), NEW fd \in Listed, NEW x \in Nat,
         NEW g
  PROVE  /\ PtrIn(WithPtr(fd, x), fd) = x
         /\ g # fd /\ g \in Listed => PtrIn(WithPtr(fd, x), g) = PtrIn(files_list, g)
<1> DEFINE n == Len(files_list)
           h == Find(fd)
           list == WithPtr(fd, x)
           new == [files_list[h] EXCEPT !.ptr = x]
<1>1. IsList(files_list)
  BY DEF IsList
<1>2. h \in 1..n /\ files_list[h].fd = fd
  BY <1>1, FindFinds
<1>3. list \in Seq(Entry(Nat)) /\ Distinct(list) /\ FdsOf(list) = Listed
  BY <1>1, ListTypes, PointedList
<1>4. n \in Nat /\ DOMAIN files_list = 1..n /\ files_list[h] \in Entry(Nat)
  BY <1>2
<1>5. new.fd = fd /\ new.ptr = x
  BY <1>2, <1>4 DEF Entry
<1>6. list = [files_list EXCEPT ![h] = new]
  BY DEF WithPtr
<1> HIDE DEF list, new, h
<1>7. /\ DOMAIN list = 1..n /\ list[h] = new
      /\ \A i \in 1..n : i # h => list[i] = files_list[i]
  BY <1>2, <1>4, <1>6
<1>8. PtrIn(list, fd) = x
  <2>1. PtrIn(list, list[h].fd) = list[h].ptr
    BY <1>2, <1>3, <1>7, PtrOfEntry
  <2> QED BY <1>5, <1>7, <2>1
<1>9. ASSUME g # fd, g \in Listed PROVE PtrIn(list, g) = PtrIn(files_list, g)
  <2>1. \A j \in DOMAIN list : list[j].fd = g =>
          \E i \in DOMAIN files_list : files_list[i] = list[j]
    BY <1>4, <1>5, <1>7, <1>9
  <2> QED BY <1>3, <1>9, <2>1, PtrKept
<1> QED BY <1>8, <1>9 DEF list

(* What PtrCountsItems says of one channel.                                *)
Counts(fd) ==
  /\ Moved(fd) /\ Undisturbed(fd) /\ ~BGet(fd)
  /\ \A b \in Bytes : ~BPut(fd, b)
  /\ AtItem(fd)
  => AtItem(fd)'

(* A channel whose offset and pointer stay has not moved.                  *)
LEMMA StillCounts ==
  ASSUME NEW fd, channels'[fd] = channels[fd],
         PtrIn(files_list', fd) = PtrIn(files_list, fd)
  PROVE  Counts(fd)
<1>1. ~Moved(fd)
  BY PtrIsIn DEF Moved
<1> QED BY <1>1 DEF Counts

(* A channel that is at an item after the step.                            *)
LEMMA AtItemNext ==
  ASSUME NEW fd, NEW bytes, NEW p, NEW n, Content(fd)' = bytes, channels'[fd].pos = p,
         PtrIn(files_list', fd) = n, Items(bytes, p, n)
  PROVE  AtItem(fd)'
<1>1. AtItem(fd)' <=> Items(Content(fd)', channels'[fd].pos, GetPtr(fd)')
  BY Zenon DEF AtItem, Items, IsItem
<1> QED BY <1>1, PtrIsIn

(* What a channel that is in the list has.                                 *)
LEMMA ListIs ==
  ASSUME TypeOK, Inv, Running
  PROVE  /\ files_list \in Seq(Entry(Nat)) /\ Distinct(files_list)
         /\ Listed = FdsOf(files_list) /\ Listed' = FdsOf(files_list')
         /\ \A fd \in Listed : PtrIn(files_list, fd) \in Nat
<1>1. files_list \in Seq(Entry(Nat)) /\ Distinct(files_list)
  BY TypeParts DEF Typed, Inv
<1> QED BY <1>1, ListTypes, PtrIsIn DEF Listed, FdsOf

(* Counting an item of one channel.                                        *)
LEMMA ItemCounted ==
  ASSUME TypeOK, Inv, Running, NEW g, CountItem(g), outcome' = "running"
  PROVE  /\ g \in Listed
         /\ PtrIn(files_list', g) = PtrIn(files_list, g) + 1
         /\ \A fd \in Listed : fd # g => PtrIn(files_list', fd) = PtrIn(files_list, fd)
<1>1. g \in Listed
  BY DEF CountItem, Abort
<1>2. files_list' = WithPtr(g, GetPtr(g) + 1)
  BY <1>1 DEF CountItem
<1> DEFINE x == PtrIn(files_list, g) + 1
<1>3. x \in Nat /\ GetPtr(g) + 1 = x
  <2>1. PtrIn(files_list, g) \in Nat
    BY <1>1, ListIs
  <2> QED BY <2>1, PtrIsIn
<1>4. files_list' = WithPtr(g, x)
  BY <1>2, <1>3
<1> HIDE DEF x
<1>5. /\ PtrIn(WithPtr(g, x), g) = x
      /\ \A fd \in Listed : fd # g => PtrIn(WithPtr(g, x), fd) = PtrIn(files_list, fd)
  BY <1>1, <1>3, ListIs, PtrsAfterSet
<1> QED BY <1>1, <1>4, <1>5 DEF x

(* PRINT# of an item.                                                      *)
LEMMA PrintCounts ==
  ASSUME TypeOK, Inv, NEW v \in Values, PrintItem(v), outcome' = "running",
         NEW fd \in Open, fd \in Listed
  PROVE  Counts(fd)
<1> DEFINE bytes == Encode(v)
<1>g. PICK g : g = Current.fd
  OBVIOUS
<1>1. /\ Running /\ g \in Open /\ Write(g, bytes) /\ CountItem(g)
  BY <1>g DEF PrintItem, CanWrite
<1>2. bytes \in Seq(Byte) /\ Len(bytes) \in Nat \ {0} /\ IsItem(bytes)
  BY EncodedIsItem
<1> HIDE DEF bytes
<1>3. /\ channels'[g].pos = channels[g].pos + Len(bytes)
      /\ Content(g)' = Written(Content(g), channels[g].pos, bytes)
      /\ Content(g) \in Seq(Byte) /\ channels[g].pos \in Nat
      /\ fd # g => channels'[fd] = channels[fd]
  BY <1>1, <1>2, WriteTyped
<1>4. /\ g \in Listed /\ PtrIn(files_list', g) = PtrIn(files_list, g) + 1
      /\ fd # g => PtrIn(files_list', fd) = PtrIn(files_list, fd)
  BY <1>1, ItemCounted
<1>5. CASE fd # g
  BY <1>3, <1>4, <1>5, StillCounts
<1>6. CASE fd = g
  <2> SUFFICES ASSUME AtItem(g) PROVE AtItem(g)'
    BY <1>6 DEF Counts
  <2> DEFINE old == Content(g)
             p == channels[g].pos
             n == PtrIn(files_list, g)
             new == Written(old, p, bytes)
             q == p + Len(bytes)
  <2>1. Items(old, p, n) /\ n \in Nat /\ p <= Len(old)
    <3>1. Items(old, p, n)
      BY PtrIsIn DEF AtItem
    <3>2. n \in Nat
      BY <1>1, <1>4, ListIs
    <3> HIDE DEF old, p, n
    <3> QED BY <3>1, <3>2 DEF Items
  <2>2. /\ new \in Seq(Byte) /\ q <= Len(new)
        /\ \A i \in 1..p : new[i] = old[i]
        /\ SubSeq(new, p + 1, q) = bytes
    BY <1>2, <1>3, <2>1, WrittenIs
  <2>3. old \in Seq(Byte) /\ p \in Nat /\ q \in Nat /\ p < q /\ p <= Len(new)
    <3>1. new \in Seq(Byte) /\ q <= Len(new)
      BY <2>2
    <3> HIDE DEF new
    <3> QED BY <1>2, <1>3, <3>1
  <2>4. Content(g)' = new /\ channels'[g].pos = q /\ PtrIn(files_list', g) = n + 1
    BY <1>3, <1>4
  <2> HIDE DEF old, p, n, new, q
  <2>5. Items(new, p, n)
    BY <2>1, <2>2, <2>3, SameItems
  <2>6. Items(new, q, n + 1)
    BY <1>2, <2>1, <2>2, <2>3, <2>5, OneMoreItem
  <2> QED BY <2>4, <2>6, AtItemNext
<1> QED BY <1>5, <1>6

(* INPUT# of an item.                                                      *)
LEMMA InputCounts ==
  ASSUME TypeOK, Inv, Running, NEW g, NEW rest, NEW left, Input(g, rest, left),
         UNCHANGED disk, outcome' = "running", ~failed',
         NEW fd \in Open, fd \in Listed
  PROVE  Counts(fd)
<1> DEFINE r == IF CanRead(g) THEN ReadItem(Content(g), channels[g].pos)
                ELSE [ok |-> FALSE, pos |-> 0]
<1>1. /\ channels' = IF CanRead(g) THEN [channels EXCEPT ![g].pos = r.pos] ELSE channels
      /\ IF r.ok THEN CountItem(g) ELSE Fail
  BY Zenon DEF Input
<1>2. r.ok /\ CountItem(g)
  BY <1>1 DEF Fail
<1>3. CanRead(g)
  BY <1>2
<1>4. r = ReadItem(Content(g), channels[g].pos) /\ g \in Open
      /\ channels' = [channels EXCEPT ![g].pos = r.pos]
  BY <1>1, <1>3 DEF CanRead
<1> HIDE DEF r
<1>5. /\ Content(g) \in Seq(Byte) /\ channels[g].pos \in Nat
      /\ channels[g].file \in DOMAIN disk
  BY <1>4, ChannelIs
<1>6. /\ r.pos \in Nat /\ channels[g].pos < r.pos /\ r.pos <= Len(Content(g))
      /\ IsItem(SubSeq(Content(g), channels[g].pos + 1, r.pos))
  BY <1>2, <1>4, <1>5, ReadItemIs
<1>7. OffsetIs(channels, disk, g, r.pos, channels')
  BY <1>4, <1>6, OffsetStep
<1>8. /\ g \in Listed /\ PtrIn(files_list', g) = PtrIn(files_list, g) + 1
      /\ fd # g => PtrIn(files_list', fd) = PtrIn(files_list, fd)
  BY <1>2, ItemCounted
<1>9. CASE fd # g
  <2>1. channels'[fd] = channels[fd]
    BY <1>7, <1>9 DEF OffsetIs, Open
  <2> QED BY <1>8, <1>9, <2>1, StillCounts
<1>10. CASE fd = g
  <2> SUFFICES ASSUME AtItem(g) PROVE AtItem(g)'
    BY <1>10 DEF Counts
  <2> DEFINE old == Content(g)
             p == channels[g].pos
             n == PtrIn(files_list, g)
             q == r.pos
  <2>1. Items(old, p, n)
    BY PtrIsIn DEF AtItem
  <2>2. n \in Nat
    BY <1>8, ListIs
  <2>3. Content(g)' = old /\ channels'[g].pos = q
    BY <1>7 DEF OffsetIs, Content
  <2> HIDE DEF old, p, n, q
  <2>4. Items(old, q, n + 1)
    BY <1>5, <1>6, <2>1, <2>2, OneMoreItem DEF old, p, q
  <2>5. PtrIn(files_list', g) = n + 1
    BY <1>8 DEF n
  <2> QED BY <2>3, <2>4, <2>5, AtItemNext
<1> QED BY <1>9, <1>10

(* PTR# = n.                                                               *)
LEMMA SetPtrCounts ==
  ASSUME TypeOK, Inv, NEW g \in Fds, NEW want \in Wanted,
         SetPtr(g, want) \/ SetPtrUnlisted(g, want), outcome' = "running", ~failed',
         NEW fd \in Open, fd \in Listed
  PROVE  Counts(fd)
<1>1. CASE SetPtrUnlisted(g, want)
  BY <1>1 DEF SetPtrUnlisted, Abort, Fail
<1>2. CASE SetPtr(g, want)
  <2> DEFINE n == IF want > 0 THEN want ELSE 0
             w == IF CanRead(g) THEN Skip(Content(g), n)
                  ELSE [ok |-> n = 0, pos |-> 0, ptr |-> 0]
  <2>1. /\ Running /\ g \in Open /\ g \in Listed
        /\ channels' = [channels EXCEPT ![g].pos = w.pos]
        /\ files_list' = WithPtr(g, w.ptr)
        /\ IF w.ok THEN Ok ELSE Fail
        /\ UNCHANGED disk
    BY <1>2, Zenon DEF SetPtr
  <2>2. w \in Places /\ (w.ok => Items(Content(g), w.pos, w.ptr))
    <3>1. want \in Int
      BY FilesAssumption
    <3> QED BY <2>1, <3>1, SetPtrFinds
  <2> HIDE DEF w, n
  <2>3. w.ok /\ w.pos \in Nat /\ w.ptr \in Nat
    BY <2>1, <2>2 DEF Fail, Places
  <2>4. OffsetIs(channels, disk, g, w.pos, channels')
    BY <2>1, <2>3, OffsetStep
  <2>5. /\ PtrIn(files_list', g) = w.ptr
        /\ fd # g => PtrIn(files_list', fd) = PtrIn(files_list, fd)
    <3>1. files_list \in Seq(Entry(Nat)) /\ Distinct(files_list)
      BY <2>1, ListIs
    <3>2. /\ PtrIn(WithPtr(g, w.ptr), g) = w.ptr
          /\ fd # g => PtrIn(WithPtr(g, w.ptr), fd) = PtrIn(files_list, fd)
      BY <2>1, <2>3, <3>1, PtrsAfterSet
    <3> QED BY <2>1, <3>2
  <2>6. CASE fd # g
    <3>1. channels'[fd] = channels[fd]
      BY <2>4, <2>6 DEF OffsetIs, Open
    <3> QED BY <2>5, <2>6, <3>1, StillCounts
  <2>7. CASE fd = g
    <3>1. Content(g)' = Content(g) /\ channels'[g].pos = w.pos
      BY <2>1, <2>4 DEF OffsetIs, Content
    <3>2. AtItem(g)'
      BY <2>2, <2>3, <2>5, <3>1, AtItemNext
    <3> QED BY <2>7, <3>2 DEF Counts
  <2> QED BY <2>6, <2>7
<1> QED BY <1>1, <1>2

(* Opening and closing moves no channel that stays.                        *)
LEMMA OpenAndCloseCount ==
  ASSUME TypeOK, Inv, TypeOK', Inv', outcome' = "running", NEW fd \in Open,
         fd \in Listed, fd \in Listed', fd \in Open',
         \/ \E f \in Files, mode \in Modes : OpenFile(f, mode)
         \/ \E g \in Fds : Close(g)
  PROVE  Counts(fd)
<1>1. /\ files_list \in Seq(Entry(Nat)) /\ Distinct(files_list) /\ Running
      /\ files_list' \in Seq(Entry(Nat)) /\ Distinct(files_list')
      /\ fd \in FdsOf(files_list')
  <2>1. Running
    BY DEF OpenFile, Close
  <2>2. files_list' \in Seq(Entry(Nat)) /\ Running'
    BY DEF TypeOK, Entry, Running
  <2>3. Distinct(files_list')
    BY <2>2, Zenon DEF Inv, Distinct
  <2> QED BY <2>1, <2>2, <2>3, ListIs
<1>2. CASE \E f \in Files, mode \in Modes : OpenFile(f, mode)
  <2>1. PICK g \in Fds \ Open :
          /\ channels'[fd] = channels[fd] /\ files_list' = Added(g)
    BY <1>2 DEF OpenFile
  <2>2. \A j \in DOMAIN Added(g) : Added(g)[j].fd = fd =>
          \E i \in DOMAIN files_list : files_list[i] = Added(g)[j]
    BY <1>1, PtrsAfterOpenAndClose
  <2>3. PtrIn(files_list', fd) = PtrIn(files_list, fd)
    BY <1>1, <2>1, <2>2, PtrKept
  <2> QED BY <2>1, <2>3, StillCounts
<1>3. CASE \E g \in Fds : Close(g)
  <2>1. PICK g \in Fds : Close(g)
    BY <1>3
  <2>2. /\ channels' = [c \in Open \ {g} |-> channels[c]]
        /\ files_list' = Removed(g)
    BY <2>1 DEF Close
  <2>3. channels'[fd] = channels[fd]
    BY <2>2 DEF Open
  <2>4. \A j \in DOMAIN Removed(g) : Removed(g)[j].fd = fd =>
          \E i \in DOMAIN files_list : files_list[i] = Removed(g)[j]
    BY <1>1, PtrsAfterOpenAndClose
  <2>5. PtrIn(files_list', fd) = PtrIn(files_list, fd)
    BY <1>1, <2>2, <2>4, PtrKept
  <2> QED BY <2>3, <2>5, StillCounts
<1> QED BY <1>2, <1>3

(* Reading and writing bytes moves one channel only.                       *)
LEMMA BytesCount ==
  ASSUME TypeOK, NEW g \in Fds, BGet(g) \/ \E b \in Bytes : BPut(g, b), NEW fd \in Open
  PROVE  Counts(fd)
<1>1. CASE fd = g
  BY <1>1 DEF Counts
<1>2. CASE fd # g
  <2>1. files_list' = files_list /\ channels'[fd] = channels[fd]
    <3>1. CASE BGet(g)
      BY <1>2, <3>1 DEF BGet, Open
    <3>2. CASE \E b \in Bytes : BPut(g, b)
      BY <1>2, <3>2 DEF BPut, Write, Open
    <3> QED BY <3>1, <3>2
  <2> QED BY <2>1, StillCounts
<1> QED BY <1>1, <1>2

(* Every step keeps the count of every channel that stays.                 *)
LEMMA EveryStepCounts ==
  ASSUME TypeOK, Inv, TypeOK', Inv', Next, outcome' = "running", ~failed',
         NEW fd \in Open, fd \in Open', fd \in Listed, fd \in Listed'
  PROVE  Counts(fd)
<1>1. CASE \/ \E f \in Files, mode \in Modes : OpenFile(f, mode)
           \/ \E g \in Fds : Close(g)
  BY <1>1, OpenAndCloseCount
<1>2. CASE CloseEvery \/ EndProgram
  <2>1. files_list' = <<>>
    BY <1>2 DEF CloseEvery, EndProgram, CloseAll
  <2> QED BY <2>1 DEF Listed
<1>3. CASE \E g \in Fds : BGet(g) \/ \E b \in Bytes : BPut(g, b)
  BY <1>3, BytesCount
<1>4. CASE \E g \in Fds, want \in Wanted : SetPtr(g, want) \/ SetPtrUnlisted(g, want)
  BY <1>4, SetPtrCounts
<1>5. CASE \E v \in Values : PrintItem(v)
  BY <1>5, PrintCounts
<1>6. CASE \E g \in Fds, n \in 1..MaxItems : InputStart(g, n)
  <2>1. PICK g \in Fds, n \in 1..MaxItems : InputStart(g, n)
    BY <1>6
  <2>2. Running /\ Input(g, pending, n) /\ UNCHANGED disk
    BY <2>1 DEF InputStart
  <2> QED BY <2>2, InputCounts
<1>7. CASE InputNext
  <2>1. PICK g, rest, left : g = Current.fd /\ rest = Outer /\ left = Current.left - 1
    OBVIOUS
  <2>2. Running /\ Input(g, rest, left) /\ UNCHANGED disk
    BY <1>7, <2>1 DEF InputNext
  <2> QED BY <2>2, InputCounts
<1>8. CASE \/ \E f \in Files, mode \in Modes : OpenFails(f, mode)
           \/ \E g \in Fds, n \in 1..MaxItems : PrintStart(g, n)
           \/ Refused \/ PrintFails \/ InputDone \/ OperandFails \/ Stopped
  <2>1. UNCHANGED <<channels, files_list>>
    BY <1>8 DEF OpenFails, PrintStart, Refused, PrintFails, InputDone, OperandFails, Stopped, vars
  <2> QED BY <2>1, StillCounts
<1> QED BY <1>1, <1>2, <1>3, <1>4, <1>5, <1>6, <1>7, <1>8 DEF Next

(* PRINT#, INPUT# and PTR# keep the item pointer of a channel at the number*)
(* of items before its offset, whatever the functions called between two   *)
(* items do to this or another channel, and whatever opens and closes.     *)
THEOREM PointerCountsItems == Spec => PtrCountsItems
<1>1. TypeOK /\ Inv /\ TypeOK' /\ Inv' /\ Next =>
        (outcome' = "running" /\ ~failed' =>
           \A fd \in Open \cap Open' \cap Listed \cap Listed' :
             /\ Moved(fd) /\ Undisturbed(fd) /\ ~BGet(fd)
             /\ \A b \in Bytes : ~BPut(fd, b)
             /\ AtItem(fd)
             => AtItem(fd)')
  BY EveryStepCounts DEF Counts
<1>2. TypeOK /\ Inv /\ TypeOK' /\ Inv' /\ [Next]_vars =>
        [outcome' = "running" /\ ~failed' =>
           \A fd \in Open \cap Open' \cap Listed \cap Listed' :
             /\ Moved(fd) /\ Undisturbed(fd) /\ ~BGet(fd)
             /\ \A b \in Bytes : ~BPut(fd, b)
             /\ AtItem(fd)
             => AtItem(fd)']_vars
  BY <1>1
<1> QED BY <1>2, ChannelsAreWellTyped, InvAlways, PTL DEF Spec, PtrCountsItems

(* PTR# = n on a file that starts with n items finds the end of the n-th,  *)
(* whatever bytes look like tags (open_file_set_ptr).                      *)
THEOREM PointerSelectsItem == Spec => []PtrSelectsItem
<1>1. TypeOK => PtrSelectsItem
  <2> SUFFICES ASSUME TypeOK, NEW f \in DOMAIN disk, NEW n \in Wanted \cap Nat,
                      NEW p \in 0..Len(disk[f]), Items(disk[f], p, n)
               PROVE  Skip(disk[f], n) = [ok |-> TRUE, pos |-> p, ptr |-> n]
    BY DEF PtrSelectsItem
  <2>1. disk[f] \in Seq(Byte)
    BY TypeParts DEF Typed, DiskOK
  <2>2. n \in Nat /\ p \in Nat
    BY <2>1
  <2> QED BY <2>1, <2>2, SkipSelects
<1> QED BY <1>1, ChannelsAreWellTyped, PTL
==============================================================================
