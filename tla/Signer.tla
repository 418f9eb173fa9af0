-------------------------------- MODULE Signer --------------------------------
(***************************************************************************)
(* Certificate signing of one group (cert.go), as the get-cert and         *)
(* get-scheduled-cert handlers call it from concurrent goroutines.         *)
(*                                                                         *)
(* The serial number is a read-modify-write of serial.txt without a lock,   *)
(* and os.WriteFile truncates the file before it writes.  The temporary     *)
(* key pair and certificate are files named after the serial.  ssh-keygen   *)
(* is an external program: it refuses a key file that exists when it looks, *)
(* saves the pair afterwards, and signs whatever public key is in the file. *)
(* A failing ssh-keygen makes run() call os.Exit: the whole server ends and *)
(* no deferred cleanup runs; systemd starts it again.                       *)
(*                                                                         *)
(* A key pair is identified by the request it was generated for, a          *)
(* certificate by the pair it certifies.                                    *)
(***************************************************************************)
EXTENDS Integers, FiniteSets

CONSTANTS
    Handlers,      \* goroutines that serve requests
    MaxRequests,   \* bound on the number of requests
    MaxCrashes     \* bound on crashes other than os.Exit in run()

ASSUME MaxRequestsAssumption == MaxRequests \in Nat

VARIABLES
    pc,          \* control point of each handler
    ser,         \* ser[h]: the serial as read, then the serial h was given
    req,         \* req[h]: the request h serves
    keyRead,     \* keyRead[h]: the private key h read back, 0 if none
    certRead,    \* certRead[h]: the certificate h read back, 0 if none
    serialFile,  \* serial.txt
    keyFile,     \* keyFile[s]: the pair in .tmp_s, 0 if there is no such file
    pubFile,     \* the same for .tmp_s.pub
    certFile,    \* the same for .tmp_s-cert.pub
    requests,    \* number of requests so far
    crashes,     \* number of crashes so far
    exits,       \* history: number of times the server ended, for any reason
    overlapped,  \* history: two requests were between reading and writing
                 \* serial.txt at the same time
    issued       \* history: the certificates handed to clients

locals == <<pc, ser, req, keyRead, certRead>>
tmp == <<keyFile, pubFile, certFile>>
history == <<requests, crashes, exits, overlapped, issued>>
vars == <<locals, serialFile, tmp, history>>

Requests == 1..MaxRequests
Serials == 1..MaxRequests
NoFile == 0

Absent == [state |-> "absent", n |-> 0]
Empty == [state |-> "empty", n |-> 0]
Full(n) == [state |-> "full", n |-> n]

Allocating == {"truncate", "write"}
HoldingKey == {"sign", "readkey", "readcert", "rmkey"}
HoldingPub == HoldingKey \cup {"rmpub"}
HoldingCert == (HoldingPub \cup {"rmcert"}) \ {"sign"}
Points == {"idle", "stat", "gen", "reply"} \cup Allocating \cup HoldingPub \cup HoldingCert
WithSerial == Points \ ({"idle"} \cup Allocating)

Init ==
    /\ pc = [h \in Handlers |-> "idle"]
    /\ ser = [h \in Handlers |-> 0]
    /\ req = [h \in Handlers |-> 0]
    /\ keyRead = [h \in Handlers |-> NoFile]
    /\ certRead = [h \in Handlers |-> NoFile]
    /\ serialFile \in {Absent, Full(0)}
    /\ keyFile = [s \in Serials |-> NoFile]
    /\ pubFile = [s \in Serials |-> NoFile]
    /\ certFile = [s \in Serials |-> NoFile]
    /\ requests = 0 /\ crashes = 0 /\ exits = 0
    /\ overlapped = FALSE
    /\ issued = {}

Goto(h, point) == pc' = [pc EXCEPT ![h] = point]

\* The process ends: every goroutine is gone, the files stay as they are.
Exit ==
    /\ pc' = [h \in Handlers |-> "idle"]
    /\ ser' = [h \in Handlers |-> 0]
    /\ req' = [h \in Handlers |-> 0]
    /\ keyRead' = [h \in Handlers |-> NoFile]
    /\ certRead' = [h \in Handlers |-> NoFile]
    /\ exits' = exits + 1
    /\ UNCHANGED <<serialFile, tmp, requests, overlapped, issued>>

-----------------------------------------------------------------------------
(* nextSerial *)

\* readSerial: a missing file counts as 0.  An empty one is an error of Atoi;
\* the request is answered with 500 and leaves no trace.
ReadSerial(h) ==
    /\ pc[h] = "idle"
    /\ requests < MaxRequests
    /\ serialFile # Empty
    /\ Goto(h, "truncate")
    /\ ser' = [ser EXCEPT ![h] = serialFile.n]
    /\ req' = [req EXCEPT ![h] = requests + 1]
    /\ requests' = requests + 1
    /\ overlapped' = (overlapped \/ \E g \in Handlers : pc[g] \in Allocating)
    /\ UNCHANGED <<keyRead, certRead, serialFile, tmp, crashes, exits, issued>>

\* writeSerial, first half: os.WriteFile opens with O_TRUNC.
Truncate(h) ==
    /\ pc[h] = "truncate"
    /\ Goto(h, "write")
    /\ serialFile' = Empty
    /\ UNCHANGED <<ser, req, keyRead, certRead, tmp, history>>

SameSerial(h) ==
    /\ pc[h] = "write"
    /\ Goto(h, "stat")
    /\ serialFile' = Full(ser[h])
    /\ ser' = [ser EXCEPT ![h] = ser[h] + 1]
    /\ UNCHANGED <<req, keyRead, certRead, tmp, history>>

NothingWritten(h) ==
    /\ pc[h] = "write"
    /\ Goto(h, "stat")
    /\ ser' = [ser EXCEPT ![h] = ser[h] + 1]
    /\ UNCHANGED <<serialFile, req, keyRead, certRead, tmp, history>>

SkipsSerial(h) ==
    /\ pc[h] = "write"
    /\ Goto(h, "stat")
    /\ serialFile' = Full(ser[h] + 2)
    /\ ser' = [ser EXCEPT ![h] = ser[h] + 1]
    /\ UNCHANGED <<req, keyRead, certRead, tmp, history>>

\* writeSerial, second half: the incremented number.
WriteSerial(h) ==
    /\ pc[h] = "write"
    /\ Goto(h, "stat")
    /\ serialFile' = Full(ser[h] + 1)
    /\ ser' = [ser EXCEPT ![h] = ser[h] + 1]
    /\ UNCHANGED <<req, keyRead, certRead, tmp, history>>

-----------------------------------------------------------------------------
(* SignWithValidity *)

\* ssh-keygen -t: an existing key file makes it ask and, without a terminal,
\* fail.
KeygenStat(h) ==
    /\ pc[h] = "stat"
    /\ \/ /\ keyFile[ser[h]] = NoFile
          /\ Goto(h, "gen")
          /\ UNCHANGED <<ser, req, keyRead, certRead, serialFile, tmp, history>>
       \/ /\ keyFile[ser[h]] # NoFile
          /\ Exit
          /\ UNCHANGED crashes

\* ssh-keygen -t saves the pair, over whatever came there in the meantime.
KeygenSave(h) ==
    /\ pc[h] = "gen"
    /\ Goto(h, "sign")
    /\ keyFile' = [keyFile EXCEPT ![ser[h]] = req[h]]
    /\ pubFile' = [pubFile EXCEPT ![ser[h]] = req[h]]
    /\ UNCHANGED <<ser, req, keyRead, certRead, serialFile, certFile, history>>

SignPubWaits(h) ==
    /\ pc[h] = "sign"
    /\ pubFile[ser[h]] # NoFile
    /\ Goto(h, "readkey")
    /\ certFile' = [certFile EXCEPT ![ser[h]] = pubFile[ser[h]]]
    /\ UNCHANGED <<ser, req, keyRead, certRead, serialFile, keyFile, pubFile, history>>

\* ssh-keygen -s: certifies the public key it finds; without one it fails.
SignPub(h) ==
    /\ pc[h] = "sign"
    /\ \/ /\ pubFile[ser[h]] # NoFile
          /\ Goto(h, "readkey")
          /\ certFile' = [certFile EXCEPT ![ser[h]] = pubFile[ser[h]]]
          /\ UNCHANGED <<ser, req, keyRead, certRead, serialFile, keyFile, pubFile,
                         history>>
       \/ /\ pubFile[ser[h]] = NoFile
          /\ Exit
          /\ UNCHANGED crashes

\* os.ReadFile(tmpKey): a missing file is an error and goes to the cleanup.
ReadKey(h) ==
    /\ pc[h] = "readkey"
    /\ keyRead' = [keyRead EXCEPT ![h] = keyFile[ser[h]]]
    /\ Goto(h, IF keyFile[ser[h]] = NoFile THEN "rmkey" ELSE "readcert")
    /\ UNCHANGED <<ser, req, certRead, serialFile, tmp, history>>

\* os.ReadFile(certPath): with or without an error the cleanup is next.
ReadCert(h) ==
    /\ pc[h] = "readcert"
    /\ certRead' = [certRead EXCEPT ![h] = certFile[ser[h]]]
    /\ Goto(h, "rmkey")
    /\ UNCHANGED <<ser, req, keyRead, serialFile, tmp, history>>

RemoveForgetsCert(h) ==
    /\ \/ /\ pc[h] = "rmkey"
          /\ Goto(h, "rmpub")
          /\ keyFile' = [keyFile EXCEPT ![ser[h]] = NoFile]
          /\ UNCHANGED pubFile
       \/ /\ pc[h] = "rmpub"
          /\ Goto(h, "reply")
          /\ pubFile' = [pubFile EXCEPT ![ser[h]] = NoFile]
          /\ UNCHANGED keyFile
    /\ UNCHANGED <<ser, req, keyRead, certRead, serialFile, certFile, history>>

\* The deferred removal of the three files, whoever created them.
RemoveFiles(h) ==
    /\ \/ /\ pc[h] = "rmkey"
          /\ Goto(h, "rmpub")
          /\ keyFile' = [keyFile EXCEPT ![ser[h]] = NoFile]
          /\ UNCHANGED <<pubFile, certFile>>
       \/ /\ pc[h] = "rmpub"
          /\ Goto(h, "rmcert")
          /\ pubFile' = [pubFile EXCEPT ![ser[h]] = NoFile]
          /\ UNCHANGED <<keyFile, certFile>>
       \/ /\ pc[h] = "rmcert"
          /\ Goto(h, "reply")
          /\ certFile' = [certFile EXCEPT ![ser[h]] = NoFile]
          /\ UNCHANGED <<keyFile, pubFile>>
    /\ UNCHANGED <<ser, req, keyRead, certRead, serialFile, history>>

\* The handler answers: 200 with both files, or 500 if one was missing.
Reply(h) ==
    /\ pc[h] = "reply"
    /\ Goto(h, "idle")
    /\ issued' = IF keyRead[h] # NoFile /\ certRead[h] # NoFile
                 THEN issued \cup {[req |-> req[h], serial |-> ser[h],
                                    key |-> keyRead[h], cert |-> certRead[h]]}
                 ELSE issued
    /\ ser' = [ser EXCEPT ![h] = 0]
    /\ req' = [req EXCEPT ![h] = 0]
    /\ keyRead' = [keyRead EXCEPT ![h] = NoFile]
    /\ certRead' = [certRead EXCEPT ![h] = NoFile]
    /\ UNCHANGED <<serialFile, tmp, requests, crashes, exits, overlapped>>

\* The server is stopped or killed and starts again.
Crash ==
    /\ crashes < MaxCrashes
    /\ crashes' = crashes + 1
    /\ Exit

Step(h) ==
    \/ Truncate(h) \/ WriteSerial(h)
    \/ KeygenStat(h) \/ KeygenSave(h) \/ SignPub(h)
    \/ ReadKey(h) \/ ReadCert(h) \/ RemoveFiles(h) \/ Reply(h)

Next == (\E h \in Handlers : ReadSerial(h) \/ Step(h)) \/ Crash

Spec == Init /\ [][Next]_vars

\* Every goroutine that can run does, and ssh-keygen ends.
FairSpec == Spec /\ \A h \in Handlers : WF_vars(Step(h))

-----------------------------------------------------------------------------

TypeOK ==
    /\ pc \in [Handlers -> Points]
    /\ ser \in [Handlers -> 0..MaxRequests]
    /\ req \in [Handlers -> 0..MaxRequests]
    /\ keyRead \in [Handlers -> 0..MaxRequests]
    /\ certRead \in [Handlers -> 0..MaxRequests]
    /\ serialFile \in {Absent, Empty} \cup {Full(n) : n \in 0..MaxRequests}
    /\ keyFile \in [Serials -> 0..MaxRequests]
    /\ pubFile \in [Serials -> 0..MaxRequests]
    /\ certFile \in [Serials -> 0..MaxRequests]
    /\ requests \in 0..MaxRequests
    /\ crashes \in Nat /\ exits \in Nat
    /\ overlapped \in BOOLEAN
    /\ issued \subseteq [req : Requests, serial : Serials, key : Requests, cert : Requests]

\* As long as no two requests are inside nextSerial at the same time, and
\* however the rest of their work interleaves, no serial is given out twice and
\* each client gets the key pair of its own request with the certificate for it.
SafeUnlessOverlapped ==
    ~overlapped =>
        /\ \A a, b \in issued : a.serial = b.serial => a = b
        /\ \A a \in issued : a.key = a.req /\ a.cert = a.req
        /\ exits = crashes

\* A temporary file is there only while a request that will remove it runs,
\* unless the server ended in the middle of one (cert.go 94-97).
TempFilesOwned ==
    exits = 0 =>
        \A s \in Serials :
            LET Served(points) == \E h \in Handlers : pc[h] \in points /\ ser[h] = s
            IN  /\ keyFile[s] # NoFile => Served(HoldingKey)
                /\ pubFile[s] # NoFile => Served(HoldingPub)
                /\ certFile[s] # NoFile => Served(HoldingCert)

\* serial.txt is unreadable only while a request is about to write it, unless
\* the server ended at that moment: then no request succeeds any more.
UnreadableOnlyDuringWrite ==
    serialFile = Empty => exits > 0 \/ \E h \in Handlers : pc[h] = "write"

\* Every request that got past the serial file is answered or dies with the
\* server.
RequestsEnd == \A h \in Handlers : pc[h] = "truncate" ~> pc[h] = "idle"
=============================================================================
