----------------------------- MODULE Signer_proofs -----------------------------
(***************************************************************************)
(* The signer hands out what it should, for every number of handlers,       *)
(* requests and crashes, as long as nextSerial is not entered twice at once. *)
(***************************************************************************)
EXTENDS Signer, TLAPS

\* Serials stay below the number of requests, whoever reads what.
Bounds ==
    /\ serialFile.n <= requests
    /\ \A h \in Handlers :
          /\ pc[h] # "idle" => req[h] \in 1..requests
          /\ pc[h] \in Allocating => ser[h] < requests
          /\ pc[h] \in WithSerial => ser[h] \in 1..requests

SignerTypes == TypeOK /\ Bounds

FileContents == [state : {"absent", "empty", "full"}, n : 0..MaxRequests]

LEMMA FileShapes ==
    ASSUME TypeOK
    PROVE  serialFile \in FileContents
  <1>1. CASE serialFile = Absent
    BY <1>1, MaxRequestsAssumption DEF FileContents, Absent
  <1>2. CASE serialFile = Empty
    BY <1>2, MaxRequestsAssumption DEF FileContents, Empty
  <1>3. ASSUME NEW n \in 0..MaxRequests, serialFile = Full(n) PROVE serialFile \in FileContents
    BY <1>3 DEF FileContents, Full
  <1> QED
    BY <1>1, <1>2, <1>3 DEF TypeOK

\* The files of a request that has a serial have names.
LEMMA SerialInRange ==
    ASSUME SignerTypes, NEW h \in Handlers, pc[h] \in WithSerial
    PROVE  ser[h] \in Serials
  BY MaxRequestsAssumption DEF SignerTypes, TypeOK, Bounds, Serials

LEMMA SignerInitTypes == Init => SignerTypes
  <1> SUFFICES ASSUME Init PROVE SignerTypes
    OBVIOUS
  <1> USE MaxRequestsAssumption
  <1>1. serialFile \in {Absent, Empty} \cup {Full(n) : n \in 0..MaxRequests} /\ serialFile.n = 0
    <2>1. serialFile = Absent \/ serialFile = Full(0)
      BY DEF Init
    <2>2. 0 \in 0..MaxRequests
      OBVIOUS
    <2>3. serialFile \in {Absent, Empty} \cup {Full(n) : n \in 0..MaxRequests}
      BY <2>1, <2>2
    <2>4. serialFile.n = 0
      BY <2>1 DEF Absent, Full
    <2> QED
      BY <2>3, <2>4
  <1>2. TypeOK
    <2>1. /\ serialFile \in {Absent, Empty} \cup {Full(n) : n \in 0..MaxRequests}
          /\ "idle" \in Points
      BY <1>1 DEF Points
    <2>2. /\ pc \in [Handlers -> Points]
          /\ ser \in [Handlers -> 0..MaxRequests]
          /\ req \in [Handlers -> 0..MaxRequests]
          /\ keyRead \in [Handlers -> 0..MaxRequests]
          /\ certRead \in [Handlers -> 0..MaxRequests]
      BY <2>1 DEF Init, NoFile
    <2>3. /\ keyFile \in [Serials -> 0..MaxRequests]
          /\ pubFile \in [Serials -> 0..MaxRequests]
          /\ certFile \in [Serials -> 0..MaxRequests]
      BY DEF Init, NoFile
    <2>4. /\ requests \in 0..MaxRequests
          /\ crashes \in Nat /\ exits \in Nat
      BY DEF Init
    <2>5. /\ overlapped \in BOOLEAN
          /\ issued \subseteq [req : Requests, serial : Serials, key : Requests, cert : Requests]
      BY Zenon DEF Init
    <2> QED
      BY <2>1, <2>2, <2>3, <2>4, <2>5, Zenon DEF TypeOK
  <1>3. Bounds
    BY <1>1 DEF Init, Bounds, WithSerial, Points, HoldingPub, HoldingCert, HoldingKey, Allocating
  <1> QED
    BY <1>2, <1>3 DEF SignerTypes

\* The end of the server.
LEMMA ExitTypes ==
    ASSUME SignerTypes, Exit, crashes' \in Nat
    PROVE  SignerTypes'
  BY MaxRequestsAssumption
  DEF SignerTypes, Exit, TypeOK, Bounds, Points, HoldingPub, HoldingCert, HoldingKey, Allocating,
      WithSerial, NoFile, tmp

LEMMA SignerTypeStep == SignerTypes /\ [Next]_vars => SignerTypes'
  <1> SUFFICES ASSUME SignerTypes, [Next]_vars PROVE SignerTypes'
    OBVIOUS
  <1> USE MaxRequestsAssumption
  <1>f. serialFile \in FileContents
    BY FileShapes DEF SignerTypes
  <1>1. ASSUME NEW h \in Handlers, ReadSerial(h) PROVE SignerTypes'
    BY <1>1, <1>f
    DEF ReadSerial, Goto, SignerTypes, TypeOK, Bounds, FileContents, tmp, Points, HoldingPub,
        HoldingCert, HoldingKey, Allocating, WithSerial
  <1>2. ASSUME NEW h \in Handlers, Truncate(h) PROVE SignerTypes'
    BY <1>2, <1>f
    DEF Truncate, Goto, SignerTypes, TypeOK, Bounds, FileContents, tmp, history, Empty, Points,
        HoldingPub, HoldingCert, HoldingKey, Allocating, WithSerial
  <1>3. ASSUME NEW h \in Handlers, WriteSerial(h) PROVE SignerTypes'
    BY <1>3, <1>f
    DEF WriteSerial, Goto, SignerTypes, TypeOK, Bounds, FileContents, tmp, history, Full, Points,
        HoldingPub, HoldingCert, HoldingKey, Allocating, WithSerial
  <1>4. ASSUME NEW h \in Handlers, KeygenStat(h) PROVE SignerTypes'
    <2>1. CASE Exit /\ UNCHANGED crashes
      BY <2>1, ExitTypes DEF SignerTypes, TypeOK
    <2>2. CASE /\ pc[h] = "stat" /\ Goto(h, "gen")
               /\ UNCHANGED <<ser, req, keyRead, certRead, serialFile, tmp, history>>
      BY <2>2 DEF Goto, SignerTypes, TypeOK, Bounds, tmp, history, Points, HoldingPub, HoldingCert, HoldingKey, Allocating, WithSerial
    <2> QED
      BY <1>4, <2>1, <2>2 DEF KeygenStat
  <1>5. ASSUME NEW h \in Handlers, KeygenSave(h) PROVE SignerTypes'
    BY <1>5 DEF KeygenSave, Goto, SignerTypes, TypeOK, Bounds, history, Serials, Points, HoldingPub, HoldingCert, HoldingKey, Allocating, WithSerial
  <1>6. ASSUME NEW h \in Handlers, SignPub(h) PROVE SignerTypes'
    <2>1. CASE Exit /\ UNCHANGED crashes
      BY <2>1, ExitTypes DEF SignerTypes, TypeOK
    <2>2. CASE /\ pc[h] = "sign" /\ Goto(h, "readkey")
               /\ certFile' = [certFile EXCEPT ![ser[h]] = pubFile[ser[h]]]
               /\ UNCHANGED <<ser, req, keyRead, certRead, serialFile, keyFile, pubFile, history>>
      <3>1. pubFile[ser[h]] \in 0..MaxRequests
        BY <2>2, SerialInRange DEF SignerTypes, TypeOK, Points, HoldingPub, HoldingCert, HoldingKey, Allocating, WithSerial
      <3> QED
        BY <2>2, <3>1 DEF Goto, SignerTypes, TypeOK, Bounds, history, Points, HoldingPub, HoldingCert, HoldingKey, Allocating, WithSerial
    <2> QED
      BY <1>6, <2>1, <2>2 DEF SignPub
  <1>7. ASSUME NEW h \in Handlers, ReadKey(h) PROVE SignerTypes'
    <2>1. keyFile[ser[h]] \in 0..MaxRequests
      BY <1>7, SerialInRange DEF ReadKey, SignerTypes, TypeOK, Points, HoldingPub, HoldingCert, HoldingKey, Allocating, WithSerial
    <2> QED
      BY <1>7, <2>1 DEF ReadKey, Goto, SignerTypes, TypeOK, Bounds, tmp, history, Points, HoldingPub, HoldingCert, HoldingKey, Allocating, WithSerial
  <1>8. ASSUME NEW h \in Handlers, ReadCert(h) PROVE SignerTypes'
    <2>1. certFile[ser[h]] \in 0..MaxRequests
      BY <1>8, SerialInRange DEF ReadCert, SignerTypes, TypeOK, Points, HoldingPub, HoldingCert, HoldingKey, Allocating, WithSerial
    <2> QED
      BY <1>8, <2>1 DEF ReadCert, Goto, SignerTypes, TypeOK, Bounds, tmp, history, Points, HoldingPub, HoldingCert, HoldingKey, Allocating, WithSerial
  <1>9. ASSUME NEW h \in Handlers, RemoveFiles(h) PROVE SignerTypes'
    <2>1. /\ keyFile' \in [Serials -> 0..MaxRequests]
          /\ pubFile' \in [Serials -> 0..MaxRequests]
          /\ certFile' \in [Serials -> 0..MaxRequests]
      BY <1>9 DEF RemoveFiles, SignerTypes, TypeOK, NoFile
    <2>2. PICK next \in {"rmpub", "rmcert", "reply"} : Goto(h, next)
      BY <1>9 DEF RemoveFiles
    <2>3. pc[h] \in {"rmkey", "rmpub", "rmcert"}
      BY <1>9 DEF RemoveFiles
    <2>4. UNCHANGED <<ser, req, keyRead, certRead, serialFile, history>>
      BY <1>9 DEF RemoveFiles
    <2> QED
      BY <2>1, <2>2, <2>3, <2>4 DEF Goto, SignerTypes, TypeOK, Bounds, history, Points, HoldingPub, HoldingCert, HoldingKey, Allocating, WithSerial
  <1>10. ASSUME NEW h \in Handlers, Reply(h) PROVE SignerTypes'
    <2>1. issued' \subseteq [req : Requests, serial : Serials, key : Requests, cert : Requests]
      <3>1. ser[h] \in Serials
        BY <1>10, SerialInRange DEF Reply, Points, HoldingPub, HoldingCert, HoldingKey, Allocating, WithSerial
      <3>2. /\ req[h] \in Requests
            /\ keyRead[h] # NoFile => keyRead[h] \in Requests
            /\ certRead[h] # NoFile => certRead[h] \in Requests
        BY <1>10 DEF Reply, SignerTypes, TypeOK, Bounds, NoFile, Requests
      <3> QED
        BY <1>10, <3>1, <3>2 DEF Reply, SignerTypes, TypeOK
    <2> QED
      BY <1>10, <2>1 DEF Reply, Goto, SignerTypes, TypeOK, Bounds, tmp, NoFile, Points, HoldingPub, HoldingCert, HoldingKey, Allocating, WithSerial
  <1>11. ASSUME Crash PROVE SignerTypes'
    <2>1. crashes' \in Nat /\ Exit
      BY <1>11 DEF Crash, SignerTypes, TypeOK
    <2> QED
      BY <2>1, ExitTypes
  <1>12. CASE UNCHANGED vars
    BY <1>12
    DEF vars, locals, tmp, history, SignerTypes, TypeOK, Bounds
  <1> QED
    BY <1>1, <1>2, <1>3, <1>4, <1>5, <1>6, <1>7, <1>8, <1>9, <1>10, <1>11, <1>12 DEF Next, Step

-----------------------------------------------------------------------------

\* UnreadableOnlyDuringWrite and TempFilesOwned are inductive, given the types.
LEMMA UnreadableStep ==
    SignerTypes /\ UnreadableOnlyDuringWrite /\ [Next]_vars => UnreadableOnlyDuringWrite'
  <1> SUFFICES ASSUME SignerTypes, UnreadableOnlyDuringWrite, [Next]_vars
               PROVE  UnreadableOnlyDuringWrite'
    OBVIOUS
  <1> USE DEF UnreadableOnlyDuringWrite
  <1>e. ASSUME Exit PROVE UnreadableOnlyDuringWrite'
    BY <1>e DEF Exit, SignerTypes, TypeOK
  <1>1. ASSUME NEW h \in Handlers, ReadSerial(h) PROVE UnreadableOnlyDuringWrite'
    BY <1>1 DEF ReadSerial, Goto
  <1>2. ASSUME NEW h \in Handlers, Truncate(h) PROVE UnreadableOnlyDuringWrite'
    BY <1>2 DEF Truncate, Goto, SignerTypes, TypeOK
  <1>3. ASSUME NEW h \in Handlers, WriteSerial(h) PROVE UnreadableOnlyDuringWrite'
    BY <1>3 DEF WriteSerial, Empty, Full
  <1>4. ASSUME NEW h \in Handlers, pc[h] # "write", pc' = [pc EXCEPT ![h] = pc'[h]],
               UNCHANGED <<serialFile, exits>>
        PROVE  UnreadableOnlyDuringWrite'
    BY <1>4 DEF SignerTypes, TypeOK
  <1>5. ASSUME NEW h \in Handlers,
               KeygenStat(h) \/ KeygenSave(h) \/ SignPub(h) \/ ReadKey(h) \/ ReadCert(h)
                 \/ RemoveFiles(h) \/ Reply(h)
        PROVE  UnreadableOnlyDuringWrite'
    <2>1. CASE Exit
      BY <2>1, <1>e
    <2>2. CASE ~Exit
      BY <1>5, <2>2, <1>4
      DEF KeygenStat, KeygenSave, SignPub, ReadKey, ReadCert, RemoveFiles, Reply, Goto, history,
          SignerTypes, TypeOK
    <2> QED
      BY <2>1, <2>2
  <1>6. ASSUME Crash PROVE UnreadableOnlyDuringWrite'
    BY <1>6, <1>e DEF Crash
  <1>7. CASE UNCHANGED vars
    BY <1>7 DEF vars, locals, history
  <1> QED
    BY <1>1, <1>2, <1>3, <1>5, <1>6, <1>7 DEF Next, Step

LEMMA TempFilesStep == SignerTypes /\ TempFilesOwned /\ [Next]_vars => TempFilesOwned'
  <1> SUFFICES ASSUME SignerTypes, TempFilesOwned, [Next]_vars, exits' = 0, NEW s \in Serials
               PROVE  LET Served(points) == \E h \in Handlers : pc'[h] \in points /\ ser'[h] = s
                      IN  /\ keyFile'[s] # NoFile => Served(HoldingKey)
                          /\ pubFile'[s] # NoFile => Served(HoldingPub)
                          /\ certFile'[s] # NoFile => Served(HoldingCert)
    BY DEF TempFilesOwned
  <1> DEFINE Served(points) == \E h \in Handlers : pc[h] \in points /\ ser[h] = s
             Kept(points) == \E h \in Handlers : pc'[h] \in points /\ ser'[h] = s
             Goal == /\ keyFile'[s] # NoFile => Kept(HoldingKey)
                     /\ pubFile'[s] # NoFile => Kept(HoldingPub)
                     /\ certFile'[s] # NoFile => Kept(HoldingCert)
  <1>x. ~Exit
    BY DEF Exit, SignerTypes, TypeOK
  <1>o. exits = 0
    BY <1>x DEF Next, Step, ReadSerial, Truncate, WriteSerial, KeygenStat, KeygenSave, SignPub,
                ReadKey, ReadCert, RemoveFiles, Reply, Crash, history, vars
  <1>h. /\ keyFile[s] # NoFile => Served(HoldingKey)
        /\ pubFile[s] # NoFile => Served(HoldingPub)
        /\ certFile[s] # NoFile => Served(HoldingCert)
    BY <1>o DEF TempFilesOwned
  <1> USE <1>h, <1>x DEF SignerTypes, TypeOK, HoldingKey, HoldingPub, HoldingCert
  <1>1. ASSUME NEW h \in Handlers, ReadSerial(h) \/ Truncate(h) \/ WriteSerial(h) PROVE Goal
    BY <1>1 DEF ReadSerial, Truncate, WriteSerial, Goto, tmp
  <1>2. ASSUME NEW h \in Handlers, KeygenStat(h) PROVE Goal
    BY <1>2 DEF KeygenStat, Goto, tmp
  <1>3. ASSUME NEW h \in Handlers, KeygenSave(h) PROVE Goal
    BY <1>3 DEF KeygenSave, Goto
  <1>4. ASSUME NEW h \in Handlers, SignPub(h) PROVE Goal
    BY <1>4 DEF SignPub, Goto
  <1>5. ASSUME NEW h \in Handlers, ReadKey(h) \/ ReadCert(h) PROVE Goal
    BY <1>5 DEF ReadKey, ReadCert, Goto, tmp
  <1>6. ASSUME NEW h \in Handlers, RemoveFiles(h) PROVE Goal
    BY <1>6 DEF RemoveFiles, Goto
  <1>7. ASSUME NEW h \in Handlers, Reply(h) PROVE Goal
    BY <1>7 DEF Reply, Goto, tmp
  <1>8. ASSUME Crash PROVE Goal
    BY <1>8 DEF Crash
  <1>9. CASE UNCHANGED vars
    BY <1>9 DEF vars, locals, tmp
  <1> QED
    BY <1>1, <1>2, <1>3, <1>4, <1>5, <1>6, <1>7, <1>8, <1>9 DEF Next, Step

-----------------------------------------------------------------------------
(* The certificates.  The invariant follows a serial number from the file     *)
(* through the request that took it to the certificate it is printed on.      *)

OneAllocates ==
    \A g, h \in Handlers : pc[g] \in Allocating /\ pc[h] \in Allocating => g = h

\* The allocating request knows what serial.txt says, or said before it was
\* truncated.
AllocatesFromFile ==
    \A h \in Handlers :
        /\ pc[h] = "truncate" => serialFile # Empty /\ serialFile.n = ser[h]
        /\ pc[h] = "write" => serialFile = Empty

\* Every serial in use, printed or left in a file name is at most n.
InUseUpTo(n) ==
    /\ \A h \in Handlers : pc[h] \in WithSerial => ser[h] <= n
    /\ \A c \in issued : c.serial <= n
    /\ \A s \in Serials : keyFile[s] # NoFile => s <= n

FileCoversUse ==
    /\ serialFile # Empty => InUseUpTo(serialFile.n)
    /\ \A h \in Handlers : pc[h] = "write" => InUseUpTo(ser[h])

SerialsApart ==
    \A h \in Handlers :
        pc[h] \in WithSerial =>
            /\ \A g \in Handlers : pc[g] \in WithSerial /\ ser[g] = ser[h] => g = h
            /\ \A c \in issued : c.serial # ser[h]

\* What a request finds in the files of its serial is its own.
OwnFiles ==
    \A h \in Handlers :
        /\ pc[h] \in {"stat", "gen"} => keyFile[ser[h]] = NoFile
        /\ pc[h] \in {"sign", "readkey"} => keyFile[ser[h]] = req[h]
        /\ pc[h] = "sign" => pubFile[ser[h]] = req[h]
        /\ pc[h] \in {"readkey", "readcert"} => certFile[ser[h]] = req[h]

Reads ==
    \A h \in Handlers :
        /\ pc[h] \in {"readcert", "rmkey", "rmpub", "rmcert", "reply"} => keyRead[h] = req[h]
        /\ pc[h] \in {"rmkey", "rmpub", "rmcert", "reply"} => certRead[h] = req[h]

Issues ==
    /\ \A a, b \in issued : a.serial = b.serial => a = b
    /\ \A a \in issued : a.key = a.req /\ a.cert = a.req
    /\ exits = crashes

Undisturbed ==
    OneAllocates /\ AllocatesFromFile /\ FileCoversUse /\ SerialsApart /\ OwnFiles /\ Reads /\ Issues

SignerSafety == SignerTypes /\ (~overlapped => Undisturbed)

\* The end of the server, when a crash accounts for it.
LEMMA ExitUndisturbed ==
    ASSUME SignerTypes, Undisturbed, Exit, crashes' = crashes + 1
    PROVE  Undisturbed'
  BY DEF Exit, SignerTypes, TypeOK, tmp, Undisturbed, OneAllocates, AllocatesFromFile, FileCoversUse,
         InUseUpTo, SerialsApart, OwnFiles, Reads, Issues, WithSerial, Points, HoldingPub,
         HoldingCert, HoldingKey, Allocating

LEMMA UndisturbedStep ==
    ASSUME SignerTypes, SignerTypes', Undisturbed, Next, ~overlapped'
    PROVE  Undisturbed'
  <1>n. requests \in Nat /\ \A h \in Handlers : pc[h] \in WithSerial => req[h] # NoFile
    BY DEF SignerTypes, TypeOK, Bounds, NoFile, WithSerial, Points
  <1>s. \A h \in Handlers : pc[h] \in WithSerial => ser[h] \in Serials
    BY SerialInRange
  <1>c. \A h \in Handlers : ser[h] \in Int
    BY DEF SignerTypes, TypeOK
  <1>i. \A c \in issued : c.serial \in Int
    BY DEF SignerTypes, TypeOK, Serials
  <1> USE DEF Undisturbed, OneAllocates, AllocatesFromFile, FileCoversUse, SerialsApart, OwnFiles,
              Reads, Issues, Goto, WithSerial, Points, HoldingPub, HoldingCert, HoldingKey,
              Allocating, tmp, history
  <1>1. ASSUME NEW h \in Handlers, ReadSerial(h) PROVE Undisturbed'
    <2>1. /\ pc[h] = "idle" /\ serialFile # Empty
          /\ pc' = [pc EXCEPT ![h] = "truncate"]
          /\ ser' = [ser EXCEPT ![h] = serialFile.n]
          /\ req' = [req EXCEPT ![h] = requests + 1]
          /\ \A g \in Handlers : pc[g] \notin Allocating
          /\ UNCHANGED <<keyRead, certRead, serialFile, tmp, crashes, exits, issued>>
      BY <1>1 DEF ReadSerial
    <2>2. OneAllocates' /\ AllocatesFromFile'
      BY <2>1 DEF SignerTypes, TypeOK
    <2>3. FileCoversUse'
      BY <2>1 DEF InUseUpTo, SignerTypes, TypeOK
    <2>4. SerialsApart'
      BY <2>1 DEF SignerTypes, TypeOK
    <2>5. OwnFiles' /\ Reads'
      BY <2>1 DEF SignerTypes, TypeOK
    <2>6. Issues'
      BY <2>1
    <2> QED
      BY <2>2, <2>3, <2>4, <2>5, <2>6
  <1>2. ASSUME NEW h \in Handlers, Truncate(h) PROVE Undisturbed'
    BY <1>2 DEF Truncate, InUseUpTo, SignerTypes, TypeOK
  <1>3. ASSUME NEW h \in Handlers, WriteSerial(h) PROVE Undisturbed'
    <2>1. /\ pc[h] = "write"
          /\ pc' = [pc EXCEPT ![h] = "stat"]
          /\ ser' = [ser EXCEPT ![h] = ser[h] + 1]
          /\ UNCHANGED <<req, keyRead, certRead, tmp, history>>
      BY <1>3 DEF WriteSerial
    <2>2. serialFile'.n = ser[h] + 1 /\ serialFile' # Empty
      BY <1>3 DEF WriteSerial, Full, Empty
    <2>3. ser[h] \in Int /\ InUseUpTo(ser[h])
      BY <2>1, <1>c
    <2>4. \A g \in Handlers : pc'[g] \notin Allocating
      BY <2>1 DEF SignerTypes, TypeOK
    <2>5. OneAllocates' /\ AllocatesFromFile'
      BY <2>4
    <2>6. FileCoversUse'
      <3>1. \A g \in Handlers : pc'[g] \in WithSerial => ser'[g] <= ser[h] + 1
        BY <1>c, <2>1, <2>3 DEF InUseUpTo, SignerTypes, TypeOK
      <3>2. \A c \in issued : c.serial <= ser[h] + 1
        BY <1>i, <2>3 DEF InUseUpTo
      <3>3. \A s \in Serials : keyFile[s] # NoFile => s <= ser[h] + 1
        BY <2>3 DEF InUseUpTo, Serials
      <3>4. InUseUpTo(serialFile.n)'
        BY <2>1, <2>2, <3>1, <3>2, <3>3 DEF InUseUpTo
      <3> QED
        BY <2>2, <2>4, <3>4
    <2>7. SerialsApart'
      BY <1>c, <2>1, <2>3 DEF InUseUpTo, SignerTypes, TypeOK
    <2>8. OwnFiles'
      <3>1. ser[h] + 1 \in Serials
        BY <2>1, MaxRequestsAssumption DEF SignerTypes, TypeOK, Bounds, Serials
      <3>2. keyFile[ser[h] + 1] = NoFile
        BY <2>3, <3>1 DEF InUseUpTo
      <3> QED
        BY <2>1, <3>2 DEF SignerTypes, TypeOK
    <2>9. Reads' /\ Issues'
      BY <2>1 DEF SignerTypes, TypeOK
    <2> QED
      BY <2>5, <2>6, <2>7, <2>8, <2>9
  <1>4. ASSUME NEW h \in Handlers, KeygenStat(h) PROVE Undisturbed'
    BY <1>4 DEF KeygenStat, InUseUpTo, SignerTypes, TypeOK
  <1>5. ASSUME NEW h \in Handlers, KeygenSave(h) PROVE Undisturbed'
    BY <1>5, <1>s DEF KeygenSave, InUseUpTo, SignerTypes, TypeOK
  <1>6. ASSUME NEW h \in Handlers, SignPub(h) PROVE Undisturbed'
    BY <1>6, <1>n, <1>s DEF SignPub, InUseUpTo, SignerTypes, TypeOK
  <1>7. ASSUME NEW h \in Handlers, ReadKey(h) PROVE Undisturbed'
    BY <1>7, <1>n DEF ReadKey, InUseUpTo, SignerTypes, TypeOK
  <1>8. ASSUME NEW h \in Handlers, ReadCert(h) PROVE Undisturbed'
    BY <1>8 DEF ReadCert, InUseUpTo, SignerTypes, TypeOK
  <1>9. ASSUME NEW h \in Handlers, RemoveFiles(h) PROVE Undisturbed'
    BY <1>9, <1>s DEF RemoveFiles, InUseUpTo, SignerTypes, TypeOK
  <1>10. ASSUME NEW h \in Handlers, Reply(h) PROVE Undisturbed'
    BY <1>10 DEF Reply, InUseUpTo, SignerTypes, TypeOK
  <1>11. ASSUME Crash PROVE Undisturbed'
    BY <1>11, ExitUndisturbed DEF Crash
  <1> QED
    BY <1>1, <1>2, <1>3, <1>4, <1>5, <1>6, <1>7, <1>8, <1>9, <1>10, <1>11 DEF Next, Step

LEMMA SignerInitSafe == Init => SignerSafety /\ TempFilesOwned /\ UnreadableOnlyDuringWrite
  <1> SUFFICES ASSUME Init
               PROVE  SignerSafety /\ TempFilesOwned /\ UnreadableOnlyDuringWrite
    OBVIOUS
  <1>1. /\ \A h \in Handlers : pc[h] = "idle"
        /\ \A s \in Serials : keyFile[s] = NoFile /\ pubFile[s] = NoFile /\ certFile[s] = NoFile
        /\ issued = {} /\ exits = crashes
    BY DEF Init
  <1>2. serialFile # Empty
    BY DEF Init, Absent, Full, Empty
  <1>3. Undisturbed
    BY <1>1
    DEF Undisturbed, OneAllocates, AllocatesFromFile, FileCoversUse, InUseUpTo, SerialsApart,
        OwnFiles, Reads, Issues, WithSerial, Points, HoldingPub, HoldingCert, HoldingKey, Allocating
  <1>4. TempFilesOwned /\ UnreadableOnlyDuringWrite
    BY <1>1, <1>2 DEF TempFilesOwned, UnreadableOnlyDuringWrite
  <1> QED
    BY <1>3, <1>4, SignerInitTypes DEF SignerSafety

\* Requests that overlapped once did so for ever.
LEMMA SignerSafetyStep == SignerSafety /\ [Next]_vars => SignerSafety'
  <1> SUFFICES ASSUME SignerSafety, [Next]_vars PROVE SignerSafety'
    OBVIOUS
  <1>1. SignerTypes /\ SignerTypes'
    BY SignerTypeStep DEF SignerSafety
  <1>2. ASSUME ~overlapped' PROVE Undisturbed'
    <2>1. CASE UNCHANGED vars
      BY <1>2, <2>1
      DEF SignerSafety, Undisturbed, OneAllocates, AllocatesFromFile, FileCoversUse, InUseUpTo,
          SerialsApart, OwnFiles, Reads, Issues, vars, locals, tmp, history
    <2>2. CASE Next
      <3>1. ~overlapped
        BY <1>2, <2>2
        DEF Next, Step, ReadSerial, Truncate, WriteSerial, KeygenStat, KeygenSave, SignPub,
            ReadKey, ReadCert, RemoveFiles, Reply, Crash, Exit, history
      <3> QED
        BY <1>1, <1>2, <2>2, <3>1, UndisturbedStep DEF SignerSafety
    <2> QED
      BY <2>1, <2>2
  <1> QED
    BY <1>1, <1>2 DEF SignerSafety

LEMMA SignerInvariant ==
    Spec => [](SignerSafety /\ TempFilesOwned /\ UnreadableOnlyDuringWrite)
  <1>1. /\ SignerSafety /\ TempFilesOwned /\ UnreadableOnlyDuringWrite
        /\ [Next]_vars
        => (SignerSafety /\ TempFilesOwned /\ UnreadableOnlyDuringWrite)'
    BY SignerSafetyStep, TempFilesStep, UnreadableStep DEF SignerSafety
  <1> QED
    BY SignerInitSafe, <1>1, PTL DEF Spec

\* cert.go keeps its variables and files in their ranges; above all no serial
\* number and no file name exceeds the number of requests.
THEOREM SignerTypeOK == Spec => []TypeOK
  <1>1. SignerSafety => TypeOK
    BY DEF SignerSafety, SignerTypes
  <1> QED
    BY SignerInvariant, <1>1, PTL

\* While no two requests are inside nextSerial at once, serials are unique and
\* every client gets its own key with the certificate of that key; ssh-keygen
\* never fails over a leftover or a missing file (cert.go, nextSerial and
\* SignWithValidity), however many requests run and whenever the server dies.
THEOREM SignerIsSafe == Spec => []SafeUnlessOverlapped
  <1>1. SignerSafety => SafeUnlessOverlapped
    BY DEF SignerSafety, Undisturbed, Issues, SafeUnlessOverlapped
  <1> QED
    BY SignerInvariant, <1>1, PTL

\* The deferred removals of cert.go leave no private key behind while the server
\* has not died: every temporary file has a live request that will remove it.
THEOREM TempFilesAreOwned == Spec => []TempFilesOwned
  <1> QED
    BY SignerInvariant, PTL

\* serial.txt is unreadable only inside os.WriteFile, or for ever after the
\* server died there.
THEOREM SerialFileReadable == Spec => []UnreadableOnlyDuringWrite
  <1> QED
    BY SignerInvariant, PTL
=============================================================================
