---------------------------- MODULE StagingProofs ----------------------------
(***************************************************************************)
(* Theorems of Staging, for any number of calls, any names and archives.   *)
(*                                                                         *)
(* The inductive invariant says that an inode is only ever reached under   *)
(* one name, so that a call alone on its name owns the file it has open,   *)
(* and that the file holds the blocks the call has received.               *)
(***************************************************************************)
EXTENDS Staging, TLAPS

\* What the call has received of its archive.
Prefix(c) == [i \in 1 .. received[c] |-> Body[c][i]]

\* Every handle is on an inode of the call's name.
FileInv == \A c \in Calls : handle[c] \in {NoFile} \cup InodesOf(Name[c])

\* What is so of a call nobody shares a name with.
OwnInv(c) ==
    /\ pc[c] = "stream" =>
        /\ dir[Name[c]] = handle[c]
        /\ handle[c] # NoFile
        /\ data[handle[c]] = Prefix(c)
    /\ answer[c] = "downloaded" => Holds(Name[c], Body[c])
    /\ answer[c] = "failed" /\ handle[c] # NoFile
         => \/ dir[Name[c]] = NoFile
            \/ c \in unremoved /\ data[dir[Name[c]]] = Prefix(c)

LinkInv(c) == pc[c] \in {"status", "reading"} \/ answer[c] = "not_ready" => ~readyThen[c]

IInv ==
    /\ TypeOK
    /\ FileInv
    /\ \A c \in Calls : LinkInv(c) /\ (Alone(c) => OwnInv(c))

-----------------------------------------------------------------------------
(***************************************************************************)
(* Files.                                                                  *)
(***************************************************************************)

\* Inodes of different names are different, and none is "no file".
LEMMA InodesApart ==
    /\ \A n, m : n # m => InodesOf(n) \cap InodesOf(m) = {}
    /\ \A n : NoFile \notin InodesOf(n)
    /\ \A c \in Calls : InodesOf(Name[c]) \subseteq Inodes
    /\ \A c \in Calls : Old(Name[c]) \in InodesOf(Name[c])
    /\ \A c \in Calls : New(c) \in InodesOf(Name[c])
  <1>1. \A n, m : Old(n) = Old(m) => n = m
    BY DEF Old
  <1>2. \A c, d : New(c) = New(d) => c = d
    BY DEF New
  <1>3. \A n, c : Old(n) # New(c)
    BY DEF Old, New
  <1>4. \A n : Old(n) # NoFile /\ New(n) # NoFile
    BY DEF Old, New, NoFile
  <1>5. QED
    BY <1>1, <1>2, <1>3, <1>4 DEF InodesOf, Inodes, Names

\* The blocks of an archive are blocks.
LEMMA BodyBlocks ==
    ASSUME NEW c \in Calls
    PROVE  /\ Body[c] \in Seq(STRING)
           /\ Len(Body[c]) \in Nat
           /\ \A i \in 1 .. Len(Body[c]) : Body[c][i] \in Blocks
  <1>1. Body[c] \in Seq(STRING)
    BY StagingAssumption
  <1>2. \A i \in 1 .. Len(Body[c]) : Body[c][i] \in ToSet(Body[c])
    BY <1>1 DEF ToSet
  <1>3. QED
    BY <1>1, <1>2 DEF Blocks

\* A block written into a file leaves a file.
LEMMA PutFile ==
    ASSUME NEW f \in Seq(Blocks), NEW p \in Nat \ {0}, NEW b \in Blocks
    PROVE  Put(f, p, b) \in Seq(Blocks)
  <1>1. Hole \in Blocks
    BY DEF Blocks
  <1>2. Len(f) \in Nat /\ \A i \in 1 .. Len(f) : f[i] \in Blocks
    OBVIOUS
  <1>3. CASE p > Len(f)
    BY <1>1, <1>2, <1>3 DEF Put
  <1>4. CASE p <= Len(f)
    BY <1>1, <1>2, <1>4 DEF Put
  <1>5. QED
    BY <1>2, <1>3, <1>4

\* A block written right behind the blocks received makes one block more.
LEMMA PutNext ==
    ASSUME NEW c \in Calls, NEW n \in Nat, NEW f,
           f = [i \in 1 .. n |-> Body[c][i]]
    PROVE  Put(f, n + 1, Body[c][n + 1]) = [i \in 1 .. n + 1 |-> Body[c][i]]
  <1>1. Len(f) = n
    OBVIOUS
  <1>2. QED
    BY <1>1 DEF Put

-----------------------------------------------------------------------------
(***************************************************************************)
(* The invariant.                                                          *)
(***************************************************************************)

\* What a former process left, and nothing else, is there at the start.
LEMMA InitInvariant == Init => IInv
  <1> SUFFICES ASSUME Init PROVE IInv
    OBVIOUS
  <1>1. OldData \in Seq(Blocks) /\ <<>> \in Seq(Blocks)
    BY DEF OldData, Blocks
  <1>2. data \in [Inodes -> Seq(Blocks)]
    BY <1>1 DEF Init
  <1>4. \A n \in Names : Old(n) \in Inodes
    BY DEF Inodes
  <1>5. /\ dir \in [Names -> Inodes \cup {NoFile}]
        /\ \A n \in Names : dir[n] \in {NoFile} \cup InodesOf(n)
    BY <1>4 DEF Init, InodesOf
  <1>6. \A c \in Calls :
          /\ pc[c] = "start" /\ answer[c] = "none"
          /\ handle[c] = NoFile /\ received[c] = 0
    BY DEF Init
  <1>7. TypeOK
    <2>1. \A c \in Calls : received[c] \in 0 .. Len(Body[c])
      BY <1>6, BodyBlocks
    <2>2. QED
      BY <1>2, <1>5, <1>6, <2>1 DEF Init, TypeOK, PC, Early
  <1>8. QED
    BY <1>6, <1>7 DEF IInv, FileInv, LinkInv, OwnInv

\* Opening takes the inode under the name, or a new one.
LEMMA OpenFile ==
    ASSUME IInv, NEW c \in Calls, Open(c)
    PROVE  \E i \in InodesOf(Name[c]) :
             /\ i \in Inodes
             /\ dir[Name[c]] # NoFile => i = dir[Name[c]]
             /\ dir' = [dir EXCEPT ![Name[c]] = i]
             /\ data' = [data EXCEPT ![i] = <<>>]
             /\ handle' = [handle EXCEPT ![c] = i]
  <1> DEFINE i == IF dir[Name[c]] = NoFile THEN New(c) ELSE dir[Name[c]]
  <1>1. Name[c] \in Names
    BY DEF Names
  <1>2. dir[Name[c]] \in {NoFile} \cup InodesOf(Name[c])
    BY <1>1 DEF IInv, TypeOK
  <1>3. i \in InodesOf(Name[c]) /\ i \in Inodes
    BY <1>2, InodesApart
  <1>4. /\ dir' = [dir EXCEPT ![Name[c]] = i]
        /\ data' = [data EXCEPT ![i] = <<>>]
        /\ handle' = [handle EXCEPT ![c] = i]
    BY DEF Open
  <1> HIDE DEF i
  <1>5. dir[Name[c]] # NoFile => i = dir[Name[c]]
    BY DEF i
  <1>6. QED
    BY <1>3, <1>4, <1>5

\* Writing appends a block of the archive to an inode of the name.
LEMMA WriteFile ==
    ASSUME IInv, NEW c \in Calls, WriteBlock(c)
    PROVE  /\ handle[c] \in InodesOf(Name[c]) \cap Inodes
           /\ received[c] \in Nat
           /\ received[c] + 1 \in 0 .. Len(Body[c])
           /\ received' = [received EXCEPT ![c] = received[c] + 1]
           /\ data' = [data EXCEPT ![handle[c]] =
                          Put(data[handle[c]], received[c] + 1,
                              Body[c][received[c] + 1])]
           /\ data'[handle[c]] = Put(data[handle[c]], received[c] + 1,
                                     Body[c][received[c] + 1])
           /\ data'[handle[c]] \in Seq(Blocks)
  <1>1. /\ pc[c] = "stream"
        /\ received[c] < Len(Body[c])
        /\ received' = [received EXCEPT ![c] = received[c] + 1]
        /\ data' = [data EXCEPT ![handle[c]] =
                       Put(data[handle[c]], received[c] + 1,
                           Body[c][received[c] + 1])]
    BY DEF WriteBlock
  <1>2. /\ handle[c] \in Inodes /\ handle[c] # NoFile
        /\ received[c] \in 0 .. Len(Body[c])
    BY <1>1 DEF IInv, TypeOK
  <1>4. handle[c] \in InodesOf(Name[c])
    BY <1>2 DEF IInv, FileInv
  <1>5. /\ received[c] \in Nat
        /\ received[c] + 1 \in 1 .. Len(Body[c])
    BY <1>1, <1>2, BodyBlocks
  <1>6. data \in [Inodes -> Seq(Blocks)]
    BY DEF IInv, TypeOK
  <1>7. Put(data[handle[c]], received[c] + 1, Body[c][received[c] + 1])
          \in Seq(Blocks)
    BY <1>2, <1>5, <1>6, BodyBlocks, PutFile
  <1>8. QED
    BY <1>1, <1>2, <1>4, <1>5, <1>6, <1>7

\* Every step keeps the files and what the calls know of them well typed.
LEMMA StepFiles == IInv /\ [Next]_vars => TypeOK' /\ FileInv'
  <1> SUFFICES ASSUME IInv, [Next]_vars PROVE TypeOK' /\ FileInv'
    OBVIOUS
  <1>1. TypeOK /\ FileInv
    BY DEF IInv
  <1> USE DEF service, files, MayEndSession, PC, Early
  <1>2. ASSUME NEW n \in Packages, FinishPackage(n) PROVE TypeOK' /\ FileInv'
    BY <1>1, <1>2 DEF FinishPackage, TypeOK, FileInv
  <1>3. ASSUME NEW c \in Calls,
               \/ Ask(c) \/ AskFails(c)
               \/ LinkFound(c) \/ LinkMissing(c) \/ LinkFails(c)
        PROVE  TypeOK' /\ FileInv'
    <2>a. CASE Ask(c)
      BY <1>1, <2>a DEF Ask, Go, TypeOK, FileInv
    <2>b. CASE AskFails(c)
      BY <1>1, <2>b DEF AskFails, Go, Finish, TypeOK, FileInv
    <2>1. CASE LinkFound(c)
      BY <1>1, <2>1 DEF LinkFound, Go, TypeOK, FileInv
    <2>2. CASE LinkMissing(c)
      BY <1>1, <2>2 DEF LinkMissing, Go, TypeOK, FileInv
    <2>3. CASE LinkFails(c)
      <3>1. /\ pc[c] = "link"
            /\ pc' = [pc EXCEPT ![c] = "done"]
            /\ answer' = [answer EXCEPT ![c] = "failed"]
            /\ UNCHANGED <<ready, files, handle, received>>
        BY <2>3 DEF LinkFails, Go, Finish
      <3>2. /\ reauth' \in BOOLEAN
            /\ readyThen' \in [Calls -> BOOLEAN]
        <4>1. reauth' \in {reauth, TRUE}
          BY <2>3 DEF LinkFails
        <4>2. readyThen' = [readyThen EXCEPT ![c] = (Name[c] \in ready)]
          BY <2>3 DEF LinkFails
        <4>3. reauth \in BOOLEAN /\ readyThen \in [Calls -> BOOLEAN]
          BY <1>1 DEF TypeOK
        <4>4. readyThen' \in [Calls -> BOOLEAN]
          BY <4>2, <4>3
        <4>5. QED
          BY <4>1, <4>3, <4>4
      <3>3. QED
        BY <1>1, <3>1, <3>2 DEF TypeOK, FileInv
    <2>4. QED
      BY <1>3, <2>a, <2>b, <2>1, <2>2, <2>3
  <1>4. ASSUME NEW c \in Calls,
               StatusRead(c) \/ RequestFails(c) \/ Report(c)
        PROVE  TypeOK' /\ FileInv'
    <2>1. CASE StatusRead(c)
      <3>1. \E says \in {"not_ready", "failed"} : Finish(c, says)
        BY <2>1 DEF StatusRead
      <3>2. /\ reauth' \in BOOLEAN /\ pc[c] = "reading"
            /\ UNCHANGED <<service, files, handle, received>>
        BY <1>1, <2>1 DEF StatusRead, TypeOK
      <3>3. QED
        BY <1>1, <3>1, <3>2 DEF Go, Finish, TypeOK, FileInv
    <2>2. CASE RequestFails(c)
      BY <1>1, <2>2 DEF RequestFails, Go, Finish, TypeOK, FileInv
    <2>3. CASE Report(c)
      BY <1>1, <2>3 DEF Report, Go, Finish, TypeOK, FileInv
    <2>4. QED
      BY <1>4, <2>1, <2>2, <2>3
  <1>5. ASSUME NEW c \in Calls, Open(c) PROVE TypeOK' /\ FileInv'
    <2>1. PICK i \in InodesOf(Name[c]) :
             /\ i \in Inodes
             /\ dir' = [dir EXCEPT ![Name[c]] = i]
             /\ data' = [data EXCEPT ![i] = <<>>]
             /\ handle' = [handle EXCEPT ![c] = i]
      BY <1>5, OpenFile
    <2>2. <<>> \in Seq(Blocks)
      OBVIOUS
    <2>3. FileInv'
      BY <1>1, <2>1 DEF TypeOK, FileInv
    <2>4. data' \in [Inodes -> Seq(Blocks)]
      BY <1>1, <2>1, <2>2 DEF TypeOK
    <2>5. /\ dir' \in [Names -> Inodes \cup {NoFile}]
          /\ \A n \in Names :
                dir'[n] \in {NoFile} \cup InodesOf(n)
      <3>1. dir \in [Names -> Inodes \cup {NoFile}]
        BY <1>1 DEF TypeOK
      <3>2. \A n \in Names : dir[n] \in {NoFile} \cup InodesOf(n)
        BY <1>1 DEF TypeOK
      <3>3. QED
        BY <2>1, <3>1, <3>2
    <2>6. i # NoFile
      BY <2>1, InodesApart
    <2>7. /\ pc' = [pc EXCEPT ![c] = "stream"]
          /\ UNCHANGED <<ready, readyThen, reauth, answer, received, unremoved>>
          /\ pc[c] = "open"
      BY <1>5 DEF Open, Go
    <2>8. \A d \in Calls :
            /\ pc'[d] \in Early => handle'[d] = NoFile
            /\ pc'[d] = "stream" => handle'[d] # NoFile
            /\ handle'[d] = NoFile => received'[d] = 0
            /\ received'[d] \in 0 .. Len(Body[d])
            /\ answer'[d] # "none" <=> pc'[d] = "done"
      <3>1. ASSUME NEW d \in Calls, d # c
            PROVE  /\ pc'[d] = pc[d] /\ handle'[d] = handle[d]
                   /\ received'[d] = received[d] /\ answer'[d] = answer[d]
        BY <1>1, <2>1, <2>7, <3>1 DEF TypeOK
      <3>2. /\ pc'[c] = "stream" /\ received'[c] = received[c]
            /\ answer'[c] = answer[c]
        BY <1>1, <2>7 DEF TypeOK
      <3>3. handle'[c] = i
        BY <1>1, <2>1 DEF TypeOK
      <3>4. QED
        BY <1>1, <2>1, <2>6, <2>7, <3>1, <3>2, <3>3 DEF TypeOK
    <2>9. QED
      <3>1. /\ pc' \in [Calls -> PC]
            /\ handle' \in [Calls -> Inodes \cup {NoFile}]
        BY <1>1, <2>1, <2>7 DEF TypeOK
      <3>2. QED
        BY <1>1, <2>3, <2>4, <2>5, <2>7, <2>8, <3>1 DEF TypeOK
  <1>6. ASSUME NEW c \in Calls, WriteBlock(c) PROVE TypeOK' /\ FileInv'
    <2>1. /\ handle[c] \in Inodes
          /\ received[c] + 1 \in 0 .. Len(Body[c])
          /\ received' = [received EXCEPT ![c] = received[c] + 1]
          /\ data' = [data EXCEPT ![handle[c]] = data'[handle[c]]]
          /\ data'[handle[c]] \in Seq(Blocks)
      BY <1>6, WriteFile
    <2>2. UNCHANGED <<ready, readyThen, reauth, pc, answer, dir, handle,
                      unremoved>>
      BY <1>6 DEF WriteBlock
    <2>3. FileInv'
      BY <1>1, <2>2 DEF FileInv
    <2>4. data' \in [Inodes -> Seq(Blocks)]
      BY <1>1, <2>1 DEF TypeOK
    <2>5. handle[c] # NoFile
      BY <1>6, <1>1, WriteFile, InodesApart
    <2>6. QED
      BY <1>1, <2>1, <2>2, <2>3, <2>4, <2>5 DEF TypeOK
  <1>7. ASSUME NEW c \in Calls, StreamFails(c) PROVE TypeOK' /\ FileInv'
    BY <1>1, <1>7 DEF StreamFails, RemovePartial, Go, Finish, TypeOK, FileInv
  <1>8. CASE Stop
    BY <1>1, <1>8 DEF Stop, TypeOK, FileInv
  <1>9. CASE UNCHANGED vars
    BY <1>1, <1>9 DEF vars, TypeOK, FileInv
  <1>10. QED
    BY <1>2, <1>3, <1>4, <1>5, <1>6, <1>7, <1>8, <1>9 DEF Next, Step

\* Every step keeps what is known of links and of packages not ready.
LEMMA StepLinks ==
    ASSUME IInv, [Next]_vars, NEW c \in Calls
    PROVE  LinkInv(c)'
  <1>1. TypeOK /\ LinkInv(c)
    BY DEF IInv
  <1> USE <1>1 DEF TypeOK, LinkInv, service, files
  <1>2. ASSUME NEW d \in Calls,
               \/ Ask(d) \/ AskFails(d)
               \/ LinkFound(d) \/ LinkMissing(d) \/ LinkFails(d)
        PROVE  LinkInv(c)'
    BY <1>2 DEF Ask, AskFails, LinkFound, LinkMissing, LinkFails, Go, Finish
  <1>3. ASSUME NEW d \in Calls,
               \/ StatusRead(d) \/ RequestFails(d) \/ Report(d)
               \/ StreamFails(d)
        PROVE  LinkInv(c)'
    BY <1>3 DEF StatusRead, RequestFails, Report, StreamFails, Go, Finish
  <1>4. ASSUME NEW d \in Calls, Open(d) \/ WriteBlock(d) PROVE LinkInv(c)'
    BY <1>4 DEF Open, WriteBlock, Go
  <1>5. CASE \/ \E n \in Packages : FinishPackage(n)
             \/ Stop \/ UNCHANGED vars
    BY <1>5 DEF FinishPackage, Stop, vars
  <1>6. QED
    BY <1>2, <1>3, <1>4, <1>5 DEF Next, Step

-----------------------------------------------------------------------------
(***************************************************************************)
(* A call alone on its name.                                               *)
(***************************************************************************)

\* What OwnInv of a call is about stays as it is.
Untouched(c) ==
    /\ pc'[c] = pc[c]
    /\ answer'[c] = answer[c]
    /\ handle'[c] = handle[c]
    /\ received'[c] = received[c]
    /\ dir'[Name[c]] = dir[Name[c]]
    /\ c \in unremoved => c \in unremoved'
    /\ \A i \in InodesOf(Name[c]) : data'[i] = data[i]

\* A step that leaves a call and the files under its name alone.
LEMMA UntouchedKeeps ==
    ASSUME IInv, NEW c \in Calls, OwnInv(c), Untouched(c)
    PROVE  OwnInv(c)'
  <1>1. dir[Name[c]] \in {NoFile} \cup InodesOf(Name[c])
    BY DEF IInv, TypeOK, Names
  <1>2. handle[c] \in {NoFile} \cup InodesOf(Name[c])
    BY DEF IInv, FileInv
  <1>3. Prefix(c)' = Prefix(c)
    BY DEF Prefix, Untouched
  <1>4. QED
    BY <1>1, <1>2, <1>3 DEF Untouched, OwnInv, Holds

\* Another call has another name, and touches only files under that.
LEMMA OthersKeep ==
    ASSUME IInv, NEW c \in Calls, NEW d \in Calls, d # c, Alone(c), Step(d)
    PROVE  Untouched(c)
  <1>1. TypeOK /\ FileInv
    BY DEF IInv
  <1>2. Name[d] # Name[c] /\ Name[c] \in Names /\ Name[d] \in Names
    BY DEF Alone, Names
  <1>3. /\ InodesOf(Name[d]) \cap InodesOf(Name[c]) = {}
        /\ InodesOf(Name[c]) \subseteq Inodes
    BY <1>2, InodesApart
  <1> USE DEF service, files
  <1>a. CASE Ask(d) \/ AskFails(d)
    BY <1>1, <1>a DEF Ask, AskFails, Finish, Go, TypeOK, Untouched
  <1>4. CASE LinkFound(d)
    BY <1>1, <1>4 DEF LinkFound, Go, TypeOK, Untouched
  <1>5. CASE LinkMissing(d)
    BY <1>1, <1>5 DEF LinkMissing, Go, TypeOK, Untouched
  <1>6. CASE LinkFails(d) \/ StatusRead(d) \/ RequestFails(d) \/ Report(d)
    BY <1>1, <1>6
       DEF LinkFails, StatusRead, RequestFails, Report, Finish, Go, TypeOK,
           Untouched
  <1>7. CASE Open(d)
    <2>1. PICK i \in InodesOf(Name[d]) :
             /\ dir' = [dir EXCEPT ![Name[d]] = i]
             /\ data' = [data EXCEPT ![i] = <<>>]
             /\ handle' = [handle EXCEPT ![d] = i]
      BY <1>7, OpenFile
    <2>2. /\ pc' = [pc EXCEPT ![d] = "stream"]
          /\ UNCHANGED <<answer, received, unremoved>>
      BY <1>7 DEF Open, Go
    <2>3. \A j \in InodesOf(Name[c]) : data'[j] = data[j]
      BY <1>1, <1>3, <2>1 DEF TypeOK
    <2>4. dir'[Name[c]] = dir[Name[c]] /\ handle'[c] = handle[c]
      BY <1>1, <1>2, <2>1 DEF TypeOK
    <2>5. QED
      BY <1>1, <2>2, <2>3, <2>4 DEF TypeOK, Untouched
  <1>8. CASE WriteBlock(d)
    <2>1. /\ handle[d] \in InodesOf(Name[d])
          /\ received' = [received EXCEPT ![d] = received[d] + 1]
          /\ data' = [data EXCEPT ![handle[d]] = data'[handle[d]]]
      BY <1>8, <1>1, WriteFile DEF TypeOK
    <2>2. UNCHANGED <<pc, answer, dir, handle, unremoved>>
      BY <1>8 DEF WriteBlock
    <2>3. \A j \in InodesOf(Name[c]) : data'[j] = data[j]
      BY <1>1, <1>3, <2>1 DEF TypeOK
    <2>4. QED
      BY <1>1, <2>1, <2>2, <2>3 DEF TypeOK, Untouched
  <1>9. CASE StreamFails(d)
    BY <1>1, <1>2, <1>9
       DEF StreamFails, RemovePartial, Finish, Go, TypeOK, Untouched
  <1>10. QED
    BY <1>a, <1>4, <1>5, <1>6, <1>7, <1>8, <1>9 DEF Step

\* The call's own steps: what it writes is what it has received.
LEMMA OwnKeeps ==
    ASSUME IInv, NEW c \in Calls, OwnInv(c), Step(c)
    PROVE  OwnInv(c)'
  <1>1. TypeOK /\ FileInv
    BY DEF IInv
  <1>2. Name[c] \in Names
    BY DEF Names
  <1> USE DEF service, files
  <1>3. CASE Ask(c) \/ LinkFound(c) \/ LinkMissing(c)
    BY <1>1, <1>3 DEF Ask, Early, LinkFound, LinkMissing, Go, TypeOK, OwnInv
  <1>4. CASE \/ AskFails(c) \/ LinkFails(c) \/ StatusRead(c)
             \/ RequestFails(c)
    BY <1>1, <1>4
       DEF AskFails, LinkFails, StatusRead, RequestFails, Finish, Go, TypeOK,
           Early, OwnInv
  <1>5. CASE Open(c)
    <2>1. PICK i \in InodesOf(Name[c]) :
             /\ i \in Inodes
             /\ dir' = [dir EXCEPT ![Name[c]] = i]
             /\ data' = [data EXCEPT ![i] = <<>>]
             /\ handle' = [handle EXCEPT ![c] = i]
      BY <1>5, OpenFile
    <2>2. /\ pc[c] = "open"
          /\ pc' = [pc EXCEPT ![c] = "stream"]
          /\ UNCHANGED <<answer, received>>
      BY <1>5 DEF Open, Go
    <2>3. received[c] = 0 /\ answer[c] = "none"
      BY <1>1, <2>2 DEF TypeOK, Early
    <2>4. i # NoFile
      BY <2>1, InodesApart
    <2>5. data'[i] = <<>> /\ dir'[Name[c]] = i /\ handle'[c] = i
      BY <1>1, <1>2, <2>1 DEF TypeOK
    <2>6. Prefix(c)' = <<>>
      BY <2>2, <2>3 DEF Prefix
    <2>7. QED
      BY <2>2, <2>3, <2>4, <2>5, <2>6 DEF OwnInv
  <1>6. CASE WriteBlock(c)
    <2>1. /\ pc[c] = "stream"
          /\ UNCHANGED <<pc, answer, dir, handle>>
      BY <1>6 DEF WriteBlock
    <2>2. answer[c] = "none"
      BY <1>1, <2>1 DEF TypeOK
    <2>3. /\ dir[Name[c]] = handle[c] /\ handle[c] # NoFile
          /\ data[handle[c]] = Prefix(c)
      BY <2>1 DEF OwnInv
    <2>4. /\ received[c] \in Nat
          /\ received'[c] = received[c] + 1
          /\ data'[handle[c]] = Put(data[handle[c]], received[c] + 1,
                                    Body[c][received[c] + 1])
      BY <1>1, <1>6, WriteFile DEF TypeOK
    <2>5. data'[handle[c]] = [j \in 1 .. received[c] + 1 |-> Body[c][j]]
      BY <2>3, <2>4, PutNext DEF Prefix
    <2>6. data'[handle[c]] = Prefix(c)'
      BY <2>4, <2>5 DEF Prefix
    <2>7. QED
      BY <2>1, <2>2, <2>3, <2>6 DEF OwnInv
  <1>7. CASE Report(c)
    <2>1. /\ pc[c] = "stream" /\ received[c] = Len(Body[c])
          /\ pc'[c] = "done" /\ answer'[c] = "downloaded"
          /\ UNCHANGED <<dir, data, handle, received>>
      BY <1>1, <1>7 DEF Report, Finish, Go, TypeOK
    <2>2. /\ dir[Name[c]] = handle[c] /\ handle[c] # NoFile
          /\ data[handle[c]] = Prefix(c)
      BY <2>1 DEF OwnInv
    <2>3. Prefix(c) = Body[c]
      BY <2>1, BodyBlocks DEF Prefix
    <2>4. QED
      BY <2>1, <2>2, <2>3 DEF OwnInv, Holds
  <1>8. CASE StreamFails(c)
    <2>1. /\ pc[c] = "stream"
          /\ pc'[c] = "done" /\ answer'[c] = "failed"
          /\ UNCHANGED <<data, handle, received>>
      BY <1>1, <1>8 DEF StreamFails, Finish, Go, TypeOK
    <2>2. dir[Name[c]] = handle[c] /\ data[handle[c]] = Prefix(c)
      BY <2>1 DEF OwnInv
    <2>3. Prefix(c)' = Prefix(c)
      BY <2>1 DEF Prefix
    <2>4. \/ dir'[Name[c]] = NoFile
          \/ c \in unremoved' /\ dir' = dir
      BY <1>1, <1>2, <1>8 DEF StreamFails, RemovePartial, TypeOK
    <2>5. QED
      BY <2>1, <2>2, <2>3, <2>4 DEF OwnInv
  <1>9. QED
    BY <1>3, <1>4, <1>5, <1>6, <1>7, <1>8 DEF Step

\* Every step keeps what is so of a call alone on its name.
LEMMA StepOwn ==
    ASSUME IInv, [Next]_vars, NEW c \in Calls, Alone(c)
    PROVE  OwnInv(c)'
  <1>1. TypeOK /\ OwnInv(c)
    BY DEF IInv
  <1>2. ASSUME NEW d \in Calls, Step(d) PROVE OwnInv(c)'
    <2>1. CASE d = c
      BY <1>1, <1>2, <2>1, OwnKeeps
    <2>2. CASE d # c
      BY <1>1, <1>2, <2>2, OthersKeep, UntouchedKeeps
    <2>3. QED
      BY <2>1, <2>2
  <1>3. CASE Stop
    BY <1>1, <1>3 DEF Stop, files, TypeOK, OwnInv, Prefix, Holds
  <1>4. CASE (\E n \in Packages : FinishPackage(n)) \/ UNCHANGED vars
    <2>1. Untouched(c)
      BY <1>4 DEF FinishPackage, vars, files, Untouched
    <2>2. QED
      BY <1>1, <2>1, UntouchedKeeps
  <1>5. QED
    BY <1>2, <1>3, <1>4 DEF Next

-----------------------------------------------------------------------------
(***************************************************************************)
(* The theorems.                                                           *)
(***************************************************************************)

\* The invariant holds of every reachable state.
LEMMA Invariance == Spec => []IInv
  <1>1. IInv /\ [Next]_vars => IInv'
    <2> SUFFICES ASSUME IInv, [Next]_vars PROVE IInv'
      OBVIOUS
    <2>1. TypeOK' /\ FileInv'
      BY StepFiles
    <2>2. ASSUME NEW c \in Calls PROVE LinkInv(c)'
      BY StepLinks
    <2>3. ASSUME NEW c \in Calls, Alone(c) PROVE OwnInv(c)'
      BY <2>3, StepOwn
    <2>4. QED
      BY <2>1, <2>2, <2>3 DEF IInv, Alone
  <1>2. QED
    BY <1>1, InitInvariant, PTL DEF Spec

\* The state is always well typed: in particular a call answers exactly when
\* it is done, and a name leads only to files made under it.
THEOREM TypeCorrect == Spec => []TypeOK
  <1>1. IInv => TypeOK
    BY DEF IInv
  <1>2. QED
    BY <1>1, Invariance, PTL

\* However many downloads run at once, an artifact reported by a call that
\* shares its name with no other is in its file, whole and alone, from then on.
THEOREM ReportsAreStaged == Spec => []ReportedIsStaged
  <1>1. IInv => ReportedIsStaged
    BY DEF IInv, OwnInv, ReportedIsStaged
  <1>2. QED
    BY <1>1, Invariance, PTL

\* However many downloads run at once, one that failed after it began to write
\* leaves no file under a name that is its own, or, where it could not be
\* removed, a beginning of its archive and not a block of the file it found.
THEOREM FailuresLeaveNoMore == Spec => []FailureLeavesNoMore
  <1>1. ASSUME IInv, NEW c \in Calls PROVE IsPrefix(Prefix(c), Body[c])
    <2>1. received[c] \in 0 .. Len(Body[c]) /\ Body[c] \in Seq(STRING)
      BY <1>1, BodyBlocks DEF IInv, TypeOK
    <2>2. Prefix(c) = SubSeq(Body[c], 1, received[c])
      BY <2>1 DEF Prefix
    <2>3. Len(Prefix(c)) = received[c]
      BY <2>1 DEF Prefix
    <2>4. SubSeq(Prefix(c), 1, received[c]) = Prefix(c)
      BY <2>1 DEF Prefix
    <2>5. QED
      BY <2>1, <2>2, <2>3, <2>4 DEF IsPrefix
  <1>2. IInv => FailureLeavesNoMore
    BY <1>1 DEF IInv, OwnInv, FailureLeavesNoMore
  <1>3. QED
    BY <1>2, Invariance, PTL

\* "Not ready" is only said of a package that was not when it was asked for.
THEOREM NotReadyIsTrue == Spec => []NotReadyWasNotReady
  <1>1. IInv => NotReadyWasNotReady
    BY DEF IInv, LinkInv, NotReadyWasNotReady
  <1>2. QED
    BY <1>1, Invariance, PTL
====
