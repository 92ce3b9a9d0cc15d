------------------------------- MODULE SpuCbc -------------------------------
(***************************************************************************)
(* experiments/spu-cbc/spu_cbc_lab.c: an AES-CBC transform built from      *)
(* requests to the SPU Runner.  Several threads use one transform; a       *)
(* request is cut into chunks, each handed to hardware that answers at     *)
(* once or later, in a callback, where the next chunk is submitted.        *)
(*                                                                         *)
(* Blocks are terms: Enc(k, b) and Dec(k, b) stand for one AES block, Xor  *)
(* for the exclusive or.  Two buffers are equal iff their terms are, so    *)
(* that a wrong chaining value cannot hide.  The private ESP frame and its *)
(* HMAC do not reach the result and are left out.                          *)
(***************************************************************************)
EXTENDS Naturals, Sequences, FiniteSets

CONSTANTS Callers,     \* threads, each with one request at a time
          Keys,
          MaxBlocks,   \* bound: blocks of a request
          MaxChunk,    \* blocks of a chunk (16000 bytes: 1000 blocks)
          MaxFaults,   \* bound: allocations, hashes and hardware calls failing
          KeyFaults    \* may crypto_aead_setkey fail?

ASSUME BoundsAssumption ==
  MaxBlocks \in Nat /\ MaxChunk \in Nat \ {0} /\ MaxFaults \in Nat
ASSUME KeyFaultsAssumption == KeyFaults \in BOOLEAN

VARIABLES native,   \* ctx->native: mode 4; otherwise mode 2, ECB
          keyed,    \* ctx->keyed
          busy,     \* ctx->busy
          keys,     \* keys in the two runners and the padding cipher
          setter,   \* the thread in cbc_setkey
          pc,       \* where each caller, or the callback of its job, is
          req,      \* struct ablkcipher_request
          job,      \* struct cbc_job
          res,      \* what the caller was told
          faults

vars == <<native, keyed, busy, keys, setter, pc, req, job, res, faults>>

NoKey == "nokey"
ASSUME KeysAssumption == NoKey \notin Keys
Parts == {"encrypt", "decrypt", "pad"}    \* runner[0], runner[1], pad_aes

Enc(k, b) == <<"E", k, b>>
Dec(k, b) == <<"D", k, b>>
Xor(a, b) == <<"x", a, b>>
Iv == <<"iv">>                            \* the IV the caller supplies
Input(n) == [i \in 1 .. n |-> <<"in", i>>]
Blank(n) == [i \in 1 .. n |-> <<"old", i>>]

(* CBC over a sequence of blocks: what hardware does to a chunk in mode 4, *)
(* and what the transform promises for a whole request.                    *)
CbcEncrypt(k, iv, s) ==
  LET c[i \in 0 .. Len(s)] == IF i = 0 THEN iv ELSE Enc(k, Xor(s[i], c[i - 1]))
  IN  [i \in 1 .. Len(s) |-> c[i]]
CbcDecrypt(k, iv, s) ==
  [i \in 1 .. Len(s) |-> Xor(Dec(k, s[i]), IF i = 1 THEN iv ELSE s[i - 1])]

Last(s) == s[Len(s)]

InJob == {"alloc", "submit", "hardware", "consume", "free"}
Errors == {"EINVAL", "ENOKEY", "ENOBUFS", "ENOMEM", "EIO"}

NoReq == [encrypt |-> FALSE, n |-> 0, inplace |-> FALSE, src |-> <<>>,
          dst |-> <<>>, iv |-> Iv]
NoJob == [offset |-> 0, chunk |-> 0, chain |-> Iv, next |-> Iv, data |-> <<>>,
          err |-> "ok", async |-> FALSE]

TypeOK ==
  /\ native \in BOOLEAN /\ keyed \in BOOLEAN /\ busy \in BOOLEAN
  /\ keys \in [Parts -> Keys \cup {NoKey}]
  /\ setter \in [pc  : {"idle", "encrypt", "decrypt", "pad", "keyed", "release"},
                 key : Keys \cup {NoKey}]
  /\ pc \in [Callers -> {"idle", "acquire", "complete"} \cup InJob]
  /\ \A c \in Callers :
       /\ req[c].n \in 0 .. MaxBlocks
       /\ Len(req[c].src) = req[c].n /\ Len(req[c].dst) = req[c].n
       /\ job[c].offset \in 0 .. req[c].n
       /\ job[c].err \in Errors \cup {"ok"}
  /\ res \in [Callers -> Errors \cup {"ok", "none", "EINPROGRESS"}]
  /\ faults \in 0 .. MaxFaults

Init ==
  /\ native \in BOOLEAN
  /\ keyed = FALSE /\ busy = FALSE
  /\ keys = [x \in Parts |-> NoKey]
  /\ setter = [pc |-> "idle", key |-> NoKey]
  /\ pc = [c \in Callers |-> "idle"]
  /\ req = [c \in Callers |-> NoReq]
  /\ job = [c \in Callers |-> NoJob]
  /\ res = [c \in Callers |-> "none"]
  /\ faults = MaxFaults

Goto(c, l) == pc' = [pc EXCEPT ![c] = l]
Tell(c, r) == res' = [res EXCEPT ![c] = r]
Fault == faults > 0 /\ faults' = faults - 1

-----------------------------------------------------------------------------
Admitted(n, aligned) == aligned /\ keyed /\ n > 0

(* cbc_submit() up to the exchange: the key flag is read here. *)
Call(c, encrypt, n, inplace, aligned) ==
  /\ pc[c] = "idle"
  /\ req' = [req EXCEPT ![c] =
       [encrypt |-> encrypt, n |-> n, inplace |-> inplace, src |-> Input(n),
        dst |-> IF inplace THEN Input(n) ELSE Blank(n), iv |-> Iv]]
  /\ job' = [job EXCEPT ![c] = NoJob]
  /\ IF Admitted(n, aligned)
       THEN Goto(c, "acquire") /\ Tell(c, "none")
       ELSE /\ Tell(c, IF ~aligned THEN "EINVAL" ELSE IF ~keyed THEN "ENOKEY" ELSE "ok")
            /\ UNCHANGED pc
  /\ UNCHANGED <<native, keyed, busy, keys, setter, faults>>

(* atomic_cmpxchg(&ctx->busy, 0, 1) *)
AcquireUnchecked(c) ==       \* mutant: read and set without the exchange
  /\ pc[c] = "acquire"
  /\ busy' = TRUE
  /\ Goto(c, "alloc")
  /\ UNCHANGED <<native, keyed, keys, setter, req, job, res, faults>>

Acquire(c) ==
  /\ pc[c] = "acquire"
  /\ IF busy THEN Goto(c, "idle") /\ Tell(c, "ENOBUFS") /\ UNCHANGED busy
             ELSE Goto(c, "alloc") /\ busy' = TRUE /\ UNCHANGED res
  /\ UNCHANGED <<native, keyed, keys, setter, req, job, faults>>

(* kzalloc of the job; the IV is copied out of the request. *)
Alloc(c) ==
  /\ pc[c] = "alloc"
  /\ job' = [job EXCEPT ![c] = [NoJob EXCEPT !.chain = req[c].iv]]
  /\ Goto(c, "submit")
  /\ UNCHANGED <<native, keyed, busy, keys, setter, req, res, faults>>

AllocLeak(c) ==              \* mutant: return without atomic_set(&ctx->busy, 0)
  /\ pc[c] = "alloc"
  /\ Fault
  /\ Goto(c, "idle") /\ Tell(c, "ENOMEM")
  /\ UNCHANGED <<native, keyed, busy, keys, setter, req, job>>

AllocFails(c) ==
  /\ pc[c] = "alloc"
  /\ Fault
  /\ busy' = FALSE
  /\ Goto(c, "idle") /\ Tell(c, "ENOMEM")
  /\ UNCHANGED <<native, keyed, keys, setter, req, job>>

-----------------------------------------------------------------------------
(* submit_chunk(): one chunk is copied from src and given to the runner of *)
(* its direction.  Mode 2 encrypts block by block and chains in software.  *)
ChunkOf(c) ==
  LET left == req[c].n - job[c].offset IN
  IF req[c].encrypt /\ ~native THEN 1
  ELSE IF left < MaxChunk THEN left ELSE MaxChunk

ChunkInput(c) ==
  SubSeq(req[c].src, job[c].offset + 1, job[c].offset + ChunkOf(c))

Runner(c) == keys[IF req[c].encrypt THEN "encrypt" ELSE "decrypt"]

HardwareResult(k, encrypt, chain, s) ==
  IF native THEN IF encrypt THEN CbcEncrypt(k, chain, s) ELSE CbcDecrypt(k, chain, s)
  ELSE IF encrypt THEN [i \in DOMAIN s |-> Enc(k, Xor(s[i], chain))]
  ELSE [i \in DOMAIN s |-> Dec(k, s[i])]

Submit(c) ==
  /\ pc[c] = "submit"
  /\ \E later \in BOOLEAN :          \* 0 or -EINPROGRESS
       /\ job' = [job EXCEPT ![c].chunk = ChunkOf(c),
                             ![c].next = Last(ChunkInput(c)),
                             ![c].data = HardwareResult(Runner(c), req[c].encrypt,
                                           job[c].chain, ChunkInput(c)),
                             ![c].async = @ \/ later]
       /\ Goto(c, IF later THEN "hardware" ELSE "consume")
       /\ IF later /\ ~job[c].async THEN Tell(c, "EINPROGRESS") ELSE UNCHANGED res
  /\ UNCHANGED <<native, keyed, busy, keys, setter, req, faults>>

(* No skb, a failing hash, or a runner that refuses; EBUSY is reported as  *)
(* ENOBUFS because the vendor queues nothing.                              *)
SubmitFails(c) ==
  /\ pc[c] = "submit"
  /\ Fault
  /\ \E e \in {"ENOMEM", "ENOBUFS", "EIO"} : job' = [job EXCEPT ![c].err = e]
  /\ Goto(c, "free")
  /\ UNCHANGED <<native, keyed, busy, keys, setter, req, res>>

(* inner_done() *)
HardwareDone(c) ==
  /\ pc[c] = "hardware"
  /\ \/ Goto(c, "consume") /\ UNCHANGED <<job, faults>>
     \/ /\ Fault
        /\ job' = [job EXCEPT ![c].err = "EIO"]
        /\ Goto(c, "free")
  /\ UNCHANGED <<native, keyed, busy, keys, setter, req, res>>

-----------------------------------------------------------------------------
(* consume_chunk(): the result goes to dst, the chaining value moves on to *)
(* the last ciphertext block.  In mode 2 a ciphertext block is read from   *)
(* src just before dst, which may be the same memory, is overwritten.      *)
Decrypted(c) ==
  LET s == [i \in 1 .. job[c].chunk |-> req[c].src[job[c].offset + i]] IN
  [i \in 1 .. job[c].chunk |->
     Xor(job[c].data[i], IF i = 1 THEN job[c].chain ELSE s[i - 1])]

Result(c) == IF req[c].encrypt \/ native THEN job[c].data ELSE Decrypted(c)

ChainStale(c) ==             \* mutant: the IV of the request for every chunk
  job[c].chain
ChainAfterWrite(c) ==        \* mutant: src is read after dst was written
  IF req[c].encrypt THEN Last(job[c].data)
  ELSE IF native THEN job[c].next
  ELSE IF req[c].inplace THEN Last(Result(c))
  ELSE req[c].src[job[c].offset + job[c].chunk]

NextChain(c) ==
  IF req[c].encrypt THEN Last(job[c].data)
  ELSE IF native THEN job[c].next
  ELSE req[c].src[job[c].offset + job[c].chunk]

Overwrite(buf, at, new) ==
  [i \in DOMAIN buf |-> IF i \in at + 1 .. at + Len(new) THEN new[i - at] ELSE buf[i]]

Advance(c) == job[c].offset + job[c].chunk

Consume(c) ==
  LET off == job[c].offset
      out == Result(c)
  IN
  /\ pc[c] = "consume"
  /\ req' = [req EXCEPT ![c].dst = Overwrite(@, off, out),
                        ![c].src = IF req[c].inplace THEN Overwrite(@, off, out) ELSE @]
  /\ job' = [job EXCEPT ![c].chain = NextChain(c), ![c].offset = Advance(c)]
  /\ Goto(c, IF Advance(c) < req[c].n THEN "submit" ELSE "free")
  /\ UNCHANGED <<native, keyed, busy, keys, setter, res, faults>>

(* The end of cbc_submit(), or finish_job() when the request went async:   *)
(* the IV is handed back on success only, then the transform is released.  *)
IvAlways(c) == job[c].chain            \* mutant: the IV is copied on errors too
IvOut(c) == IF job[c].err = "ok" THEN job[c].chain ELSE req[c].iv

Free(c) ==
  /\ pc[c] = "free"
  /\ req' = [req EXCEPT ![c].iv = IvOut(c)]
  /\ job' = [job EXCEPT ![c] = [NoJob EXCEPT !.err = job[c].err]]      \* kfree
  /\ busy' = FALSE
  /\ IF job[c].async THEN Goto(c, "complete") /\ UNCHANGED res
                     ELSE Goto(c, "idle") /\ Tell(c, job[c].err)
  /\ UNCHANGED <<native, keyed, keys, setter, faults>>

(* ablkcipher_request_complete(), after the release. *)
Complete(c) ==
  /\ pc[c] = "complete"
  /\ Goto(c, "idle") /\ Tell(c, job[c].err)
  /\ UNCHANGED <<native, keyed, busy, keys, setter, req, job, faults>>

-----------------------------------------------------------------------------
(* cbc_setkey(): a busy transform answers ENOBUFS and nothing changes. *)
SetKey(k) ==
  /\ setter.pc = "idle"
  /\ ~busy
  /\ busy' = TRUE
  /\ keyed' = FALSE
  /\ setter' = [pc |-> "encrypt", key |-> k]
  /\ UNCHANGED <<native, keys, pc, req, job, res, faults>>

AfterPart == [encrypt |-> "decrypt", decrypt |-> "pad", pad |-> "keyed"]

SetKeyPart ==
  /\ setter.pc \in Parts
  /\ \/ /\ keys' = [keys EXCEPT ![setter.pc] = setter.key]
        /\ setter' = [setter EXCEPT !.pc = AfterPart[@]]
        /\ UNCHANGED faults
     \/ /\ KeyFaults
        /\ Fault
        /\ setter' = [setter EXCEPT !.pc = "release"]
        /\ UNCHANGED keys
  /\ UNCHANGED <<native, keyed, busy, pc, req, job, res>>

SetKeyDone ==
  /\ setter.pc = "keyed"
  /\ keyed' = TRUE
  /\ setter' = [setter EXCEPT !.pc = "release"]
  /\ UNCHANGED <<native, busy, keys, pc, req, job, res, faults>>

SetKeyRelease ==
  /\ setter.pc = "release"
  /\ busy' = FALSE
  /\ setter' = [pc |-> "idle", key |-> NoKey]
  /\ UNCHANGED <<native, keyed, keys, pc, req, job, res, faults>>

-----------------------------------------------------------------------------
CallerStep(c) == \/ Acquire(c) \/ Alloc(c) \/ AllocFails(c)
                 \/ Submit(c) \/ SubmitFails(c) \/ HardwareDone(c)
                 \/ Consume(c) \/ Free(c) \/ Complete(c)

SetterStep == SetKeyPart \/ SetKeyDone \/ SetKeyRelease

NewCall == \E c \in Callers :
  \/ \E n \in 0 .. MaxBlocks, encrypt, inplace \in BOOLEAN :
       Call(c, encrypt, n, inplace, TRUE)
  \/ Call(c, TRUE, 0, FALSE, FALSE)        \* nbytes not a multiple of 16

Next == \/ NewCall
        \/ \E c \in Callers : CallerStep(c)
        \/ \E k \in Keys : SetKey(k)
        \/ SetterStep

Spec == Init /\ [][Next]_vars

-----------------------------------------------------------------------------
Answered(c) == pc[c] = "idle" /\ res[c] # "none"

(* A request that succeeded is the CBC of its input under one key and the  *)
(* caller's IV, whatever the chunking, the mode, the moment each chunk was *)
(* answered and whether it worked in place; the IV handed back is the last *)
(* ciphertext block, and a separate source is left alone.                  *)
CbcResult ==
  \A c \in Callers :
    Answered(c) /\ res[c] = "ok" /\ req[c].n > 0 =>
      LET in == Input(req[c].n) IN
      /\ \E k \in Keys :
           IF req[c].encrypt
             THEN /\ req[c].dst = CbcEncrypt(k, Iv, in)
                  /\ req[c].iv = Last(req[c].dst)
             ELSE /\ req[c].dst = CbcDecrypt(k, Iv, in)
                  /\ req[c].iv = Last(in)
      /\ req[c].src = IF req[c].inplace THEN req[c].dst ELSE in

(* A request that failed hands back the IV it was given, however many      *)
(* chunks had gone through before.                                         *)
FailureKeepsIv ==
  \A c \in Callers : Answered(c) /\ res[c] \in Errors => req[c].iv = Iv

(* The busy flag is set exactly while one job or one change of key owns    *)
(* the transform: no two of them overlap and none leaves it locked.        *)
Owners == {c \in Callers : pc[c] \in InJob}
              \cup (IF setter.pc # "idle" THEN {"setter"} ELSE {})
ExclusiveUse == Cardinality(Owners) = IF busy THEN 1 ELSE 0

(* A job runs only on a transform whose last change of key succeeded: the  *)
(* three keys are there and equal.                                         *)
KeyedJobsOnly ==
  \A c \in Callers :
    pc[c] \in InJob => keys["encrypt"] # NoKey /\ \A x \in Parts : keys[x] = keys["encrypt"]
=============================================================================
