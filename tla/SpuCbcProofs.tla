---------------------------- MODULE SpuCbcProofs ----------------------------
(***************************************************************************)
(* Proofs about SpuCbc for every number of threads, keys, blocks and       *)
(* faults and for every size of a chunk.                                   *)
(***************************************************************************)
EXTENDS SpuCbc, FiniteSetTheorems, SequenceTheorems, WellFoundedInduction, TLAPS

-----------------------------------------------------------------------------
(* Who owns the transform. *)

PcType == {"idle", "acquire", "complete"} \cup InJob

BaseType ==
  /\ native \in BOOLEAN /\ keyed \in BOOLEAN /\ busy \in BOOLEAN
  /\ keys \in [Parts -> Keys \cup {NoKey}]
  /\ setter \in [pc  : {"idle", "encrypt", "decrypt", "pad", "keyed", "release"},
                 key : Keys \cup {NoKey}]
  /\ pc \in [Callers -> PcType]
  /\ res \in [Callers -> Errors \cup {"ok", "none", "EINPROGRESS"}]
  /\ faults \in 0 .. MaxFaults

(* One job, or one change of key, or nobody, as the busy flag says. *)
Ownership ==
  /\ \A c \in Callers : pc[c] \in InJob => busy /\ setter.pc = "idle"
  /\ \A c, d \in Callers : pc[c] \in InJob /\ pc[d] \in InJob => c = d
  /\ setter.pc # "idle" => busy
  /\ busy => setter.pc # "idle" \/ \E c \in Callers : pc[c] \in InJob

(* How far cbc_setkey came, and that keys once set are never taken back. *)
KeyProgress ==
  /\ setter.pc \in Parts \cup {"keyed"} => setter.key \in Keys
  /\ setter.pc \in {"decrypt", "pad", "keyed"} => keys["encrypt"] = setter.key
  /\ setter.pc \in {"pad", "keyed"} => keys["decrypt"] = setter.key
  /\ setter.pc = "keyed" => keys["pad"] = setter.key

KeysPresent ==
  keyed \/ (\E c \in Callers : pc[c] \in {"acquire"} \cup InJob)
    => \A x \in Parts : keys[x] \in Keys

(* Unless a change of key fails half way, the three keys agree whenever    *)
(* nobody is changing them.                                                *)
KeysAgree ==
  ~KeyFaults /\ setter.pc \in {"idle", "release"} => \A x \in Parts : keys[x] = keys["encrypt"]

LockInv == BaseType /\ Ownership /\ KeyProgress /\ KeysPresent /\ KeysAgree

LEMMA LockInit == Init => LockInv
<1> SUFFICES ASSUME Init PROVE LockInv
  OBVIOUS
<1>1. BaseType
  <2>1. /\ keys \in [Parts -> Keys \cup {NoKey}]
        /\ setter \in [pc  : {"idle", "encrypt", "decrypt", "pad", "keyed", "release"},
                       key : Keys \cup {NoKey}]
    BY DEF Init
  <2>2. /\ pc \in [Callers -> PcType]
        /\ res \in [Callers -> Errors \cup {"ok", "none", "EINPROGRESS"}]
    BY DEF Init, PcType
  <2> QED
    <3>1. native \in BOOLEAN /\ keyed \in BOOLEAN /\ busy \in BOOLEAN
      BY Zenon DEF Init
    <3>2. faults \in 0 .. MaxFaults
      BY BoundsAssumption DEF Init
    <3> QED
      BY <2>1, <2>2, <3>1, <3>2, Zenon DEF BaseType
<1>2. Ownership /\ KeyProgress /\ KeysPresent /\ KeysAgree
  BY DEF Init, Ownership, KeyProgress, KeysPresent, KeysAgree, InJob, Parts
<1> QED
  BY <1>1, <1>2 DEF LockInv

(* A step of a caller that does not touch the lock. *)
LEMMA LockQuiet ==
  ASSUME LockInv, BaseType', UNCHANGED <<keyed, busy, keys, setter>>, NEW c \in Callers,
         \A d \in Callers \ {c} : pc'[d] = pc[d],
         (pc[c] \in InJob) <=> (pc'[c] \in InJob),
         pc'[c] = "acquire" => pc[c] = "acquire" \/ keyed
  PROVE  LockInv'
<1>1. Ownership'
  BY DEF LockInv, Ownership
<1>2. KeysPresent'
  BY DEF LockInv, KeysPresent
<1> QED
  BY <1>1, <1>2 DEF LockInv, KeyProgress, KeysAgree

(* The owner gives the transform back. *)
LEMMA LockRelease ==
  ASSUME LockInv, BaseType', UNCHANGED <<keyed, keys, setter>>, NEW c \in Callers,
         \A d \in Callers \ {c} : pc'[d] = pc[d],
         pc[c] \in InJob, pc'[c] \notin InJob \cup {"acquire"}, busy' = FALSE
  PROVE  LockInv'
<1>1. Ownership'
  BY DEF LockInv, Ownership
<1>2. KeysPresent'
  BY DEF LockInv, KeysPresent
<1> QED
  BY <1>1, <1>2 DEF LockInv, KeyProgress, KeysAgree

LEMMA GotoType ==
  ASSUME BaseType, NEW c \in Callers, NEW l \in PcType, Goto(c, l)
  PROVE  /\ pc' \in [Callers -> PcType] /\ pc'[c] = l
         /\ \A d \in Callers \ {c} : pc'[d] = pc[d]
BY DEF BaseType, Goto

LEMMA TellType ==
  ASSUME BaseType, NEW c \in Callers, NEW r \in Errors \cup {"ok", "none", "EINPROGRESS"},
         Tell(c, r)
  PROVE  /\ res' \in [Callers -> Errors \cup {"ok", "none", "EINPROGRESS"}] /\ res'[c] = r
         /\ \A d \in Callers \ {c} : res'[d] = res[d]
BY DEF BaseType, Tell

LEMMA FaultType == BaseType /\ Fault => faults' \in 0 .. MaxFaults
BY BoundsAssumption DEF BaseType, Fault

-----------------------------------------------------------------------------
(* Induction over the natural numbers, for sets. *)

LEMMA LeastMember ==
  ASSUME NEW T \in SUBSET Nat, T # {}
  PROVE  \E x \in T : \A y \in T : x <= y
<1> DEFINE R == OpToRel(<, Nat)
<1>1. IsWellFoundedOn(R, Nat)
  BY NatLessThanWellFounded
<1>2. \A x, y \in Nat : x < y => <<x, y>> \in R
  BY DEF OpToRel
<1> HIDE DEF R
<1>3. PICK x \in T : \A y \in T : ~(<<y, x>> \in R)
  BY <1>1, WFMin
<1>4. ASSUME NEW y \in T PROVE x <= y
  <2>1. x \in Nat /\ y \in Nat
    OBVIOUS
  <2>2. ~(y < x)
    BY <1>2, <1>3, <2>1
  <2> QED
    BY <2>1, <2>2
<1> QED
  BY <1>4

LEMMA SetInduction ==
  ASSUME NEW S, 0 \in S, \A n \in Nat : n \in S => n + 1 \in S
  PROVE  Nat \subseteq S
<1> DEFINE T == Nat \ S
<1> SUFFICES ASSUME T # {} PROVE FALSE
  OBVIOUS
<1>1. PICK x \in T : \A y \in T : x <= y
  <2>1. T \in SUBSET Nat
    OBVIOUS
  <2> HIDE DEF T
  <2> QED
    BY <2>1, LeastMember
<1>2. x # 0 /\ x \in Nat
  OBVIOUS
<1>3. x - 1 \in Nat /\ ~(x <= x - 1)
  BY <1>2
<1>4. (x - 1) + 1 \in S
  BY <1>1, <1>3
<1> QED
  BY <1>2, <1>4

-----------------------------------------------------------------------------
(* Buffers and chaining. *)

IsBuf(b, n) == b = [i \in 1 .. n |-> b[i]]

LEMMA BufLen ==
  ASSUME NEW n \in Nat, NEW b, IsBuf(b, n)
  PROVE  Len(b) = n /\ DOMAIN b = 1 .. n /\ b \in Seq({b[i] : i \in 1 .. n})
BY DEF IsBuf

LEMMA BufEqual ==
  ASSUME NEW n \in Nat, NEW a, NEW b, IsBuf(a, n), IsBuf(b, n), \A i \in 1 .. n : a[i] = b[i]
  PROVE  a = b
BY DEF IsBuf

LEMMA BufSub ==
  ASSUME NEW n \in Nat, NEW b, IsBuf(b, n), NEW off \in Nat, NEW m \in Nat, off + m <= n
  PROVE  /\ IsBuf(SubSeq(b, off + 1, off + m), m)
         /\ \A i \in 1 .. m : SubSeq(b, off + 1, off + m)[i] = b[off + i]
BY BufLen DEF IsBuf

(* CbcEncrypt is the chain it describes. *)
IsChain(k, iv, s, n, f) ==
  f = [i \in 0 .. n |-> IF i = 0 THEN iv ELSE Enc(k, Xor(s[i], f[i - 1]))]

Chained(k, iv, s, n, w) ==
  \A i \in 1 .. n : w[i] = Enc(k, Xor(s[i], IF i = 1 THEN iv ELSE w[i - 1]))

Unchained(k, iv, s, n, w) ==
  \A i \in 1 .. n : w[i] = Xor(Dec(k, s[i]), IF i = 1 THEN iv ELSE s[i - 1])

(* t is the part of s that starts after off. *)
PartOf(t, m, s, off) == \A i \in 1 .. m : t[i] = s[off + i]

LEMMA ChainExists ==
  ASSUME NEW k, NEW iv, NEW s, NEW n \in Nat
  PROVE  \E f : IsChain(k, iv, s, n, f)
<1> DEFINE Fits(f, m) == IsChain(k, iv, s, m, f)
           S == {m \in Nat : \E f : Fits(f, m)}
<1>1. 0 \in S
  <2> DEFINE f == [i \in 0 .. 0 |-> iv]
  <2>1. Fits(f, 0)
    BY DEF IsChain
  <2> QED
    BY <2>1
<1>2. ASSUME NEW m \in Nat, m \in S PROVE m + 1 \in S
  <2>1. PICK f : Fits(f, m)
    <3> HIDE DEF Fits
    <3> QED
      BY <1>2
  <2> DEFINE g == [i \in 0 .. m + 1 |-> IF i = m + 1 THEN Enc(k, Xor(s[m + 1], f[m])) ELSE f[i]]
  <2>2. ASSUME NEW i \in 0 .. m + 1
        PROVE  g[i] = IF i = 0 THEN iv ELSE Enc(k, Xor(s[i], g[i - 1]))
    <3>1. CASE i = m + 1
      BY <3>1
    <3>2. CASE i # m + 1
      <4>1. i \in 0 .. m /\ g[i] = f[i]
        BY <3>2
      <4>2. i # 0 => i - 1 \in 0 .. m + 1 /\ g[i - 1] = f[i - 1]
        BY <4>1
      <4>3. f[i] = IF i = 0 THEN iv ELSE Enc(k, Xor(s[i], f[i - 1]))
        BY <2>1, <4>1 DEF IsChain
      <4> QED
        BY <4>1, <4>2, <4>3
    <3> QED
      BY <3>1, <3>2
  <2>3. Fits(g, m + 1)
    <3> HIDE DEF g
    <3>1. g = [i \in 0 .. m + 1 |-> g[i]]
      BY DEF g
    <3> QED
      BY <2>2, <3>1 DEF IsChain
  <2> QED
    <3> HIDE DEF Fits, g
    <3> QED
      BY <2>3
<1>3. n \in S
  <2> HIDE DEF S
  <2> QED
    BY <1>1, <1>2, SetInduction
<1> QED
  <2> HIDE DEF Fits
  <2> QED
    BY <1>3 DEF Fits

LEMMA EncryptUnfold ==
  ASSUME NEW k, NEW iv, NEW n \in Nat, NEW s, IsBuf(s, n)
  PROVE  IsBuf(CbcEncrypt(k, iv, s), n) /\ Chained(k, iv, s, n, CbcEncrypt(k, iv, s))
<1>1. Len(s) = n
  BY BufLen
<1> DEFINE c == CHOOSE f : IsChain(k, iv, s, n, f)
<1>2. CbcEncrypt(k, iv, s) = [i \in 1 .. n |-> c[i]]
  BY <1>1 DEF CbcEncrypt, IsChain
<1>3. IsChain(k, iv, s, n, c)
  BY ChainExists
<1> HIDE DEF c
<1>4. \A i \in 1 .. n : c[i] = Enc(k, Xor(s[i], c[i - 1])) /\ i - 1 \in 0 .. n
  BY <1>3 DEF IsChain
<1>5. c[0] = iv
  BY <1>3 DEF IsChain
<1>6. \A i \in 1 .. n : i # 1 => i - 1 \in 1 .. n
  OBVIOUS
<1> QED
  BY <1>2, <1>4, <1>5, <1>6 DEF IsBuf, Chained

(* What hardware in mode 4 makes of a chunk, given the right chaining      *)
(* value, is the part of the whole that belongs there.                     *)
LEMMA EncryptCut ==
  ASSUME NEW k, NEW iv, NEW n \in Nat, NEW s, IsBuf(s, n), NEW off \in Nat,
         NEW m \in Nat, off + m <= n, NEW t, IsBuf(t, m), PartOf(t, m, s, off),
         NEW chain, chain = IF off = 0 THEN iv ELSE CbcEncrypt(k, iv, s)[off]
  PROVE  PartOf(CbcEncrypt(k, chain, t), m, CbcEncrypt(k, iv, s), off)
<1> DEFINE w == CbcEncrypt(k, iv, s)
           p == CbcEncrypt(k, chain, t)
           S == {j \in Nat : j \in 1 .. m => p[j] = w[off + j]}
<1>1. Chained(k, iv, s, n, w)
  BY EncryptUnfold
<1>2. Chained(k, chain, t, m, p)
  BY EncryptUnfold
<1>3. chain = IF off = 0 THEN iv ELSE w[off]
  OBVIOUS
<1> HIDE DEF w, p
<1>4. 0 \in S
  OBVIOUS
<1>5. ASSUME NEW j \in Nat, j \in S PROVE j + 1 \in S
  <2> SUFFICES ASSUME j + 1 \in 1 .. m PROVE p[j + 1] = w[off + (j + 1)]
    OBVIOUS
  <2>1. p[j + 1] = Enc(k, Xor(t[j + 1], IF j + 1 = 1 THEN chain ELSE p[(j + 1) - 1]))
    BY <1>2 DEF Chained
  <2>2. t[j + 1] = s[off + (j + 1)]
    BY DEF PartOf
  <2>3. off + (j + 1) \in 1 .. n
    OBVIOUS
  <2>4. w[off + (j + 1)] = Enc(k, Xor(s[off + (j + 1)],
           IF off + (j + 1) = 1 THEN iv ELSE w[(off + (j + 1)) - 1]))
    BY <1>1, <2>3 DEF Chained
  <2>5. CASE j = 0
    BY <1>3, <2>1, <2>2, <2>4, <2>5
  <2>6. CASE j # 0
    <3>1. p[j] = w[off + j] /\ (j + 1) - 1 = j /\ (off + (j + 1)) - 1 = off + j
          /\ off + (j + 1) # 1
      BY <1>5, <2>6
    <3> QED
      BY <2>1, <2>2, <2>4, <2>6, <3>1
  <2> QED
    BY <2>5, <2>6
<1>6. Nat \subseteq S
  <2> HIDE DEF S
  <2> QED
    BY <1>4, <1>5, SetInduction
<1> QED
  BY <1>6 DEF w, p, PartOf

LEMMA DecryptUnfold ==
  ASSUME NEW k, NEW iv, NEW n \in Nat, NEW s, IsBuf(s, n)
  PROVE  /\ IsBuf(CbcDecrypt(k, iv, s), n)
         /\ Unchained(k, iv, s, n, CbcDecrypt(k, iv, s))
<1>1. Len(s) = n
  BY BufLen
<1> QED
  BY <1>1 DEF CbcDecrypt, IsBuf, Unchained

-----------------------------------------------------------------------------
(* The progress of one request. *)

IsReq(r) == r = [encrypt |-> r.encrypt, n |-> r.n, inplace |-> r.inplace,
                 src |-> r.src, dst |-> r.dst, iv |-> r.iv]
IsJob(j) == j = [offset |-> j.offset, chunk |-> j.chunk, chain |-> j.chain,
                 next |-> j.next, data |-> j.data, err |-> j.err, async |-> j.async]

Shape ==
  /\ req = [c \in Callers |-> req[c]] /\ job = [c \in Callers |-> job[c]]
  /\ \A c \in Callers : IsReq(req[c]) /\ IsJob(job[c])

(* The blocks a request is to become, with the key that is loaded now. *)
Cbc(c) == IF req[c].encrypt THEN CbcEncrypt(Runner(c), Iv, Input(req[c].n))
                            ELSE CbcDecrypt(Runner(c), Iv, Input(req[c].n))

Buffers(c) ==
  /\ req[c].n \in 0 .. MaxBlocks
  /\ req[c].encrypt \in BOOLEAN /\ req[c].inplace \in BOOLEAN
  /\ job[c].async \in BOOLEAN
  /\ IsBuf(req[c].src, req[c].n) /\ IsBuf(req[c].dst, req[c].n)
  /\ job[c].offset \in 0 .. req[c].n
  /\ job[c].err \in Errors \cup {"ok"}

(* The blocks before the offset are done, the others are as they came, and *)
(* the chaining value is the last ciphertext block before the offset.      *)
Progress(c) ==
  LET off == job[c].offset
      in  == Input(req[c].n)
  IN
  /\ \A i \in 1 .. off : req[c].dst[i] = Cbc(c)[i]
  /\ \A i \in 1 .. req[c].n :
       req[c].src[i] = IF req[c].inplace /\ i <= off THEN Cbc(c)[i] ELSE in[i]
  /\ job[c].chain = IF off = 0 THEN Iv ELSE IF req[c].encrypt THEN Cbc(c)[off] ELSE in[off]

(* What the hardware holds: a chunk within the request, ready to be copied *)
(* out, or in mode 2 to be chained in software.                            *)
InFlight(c) ==
  LET off == job[c].offset
      m   == job[c].chunk
      in  == Input(req[c].n)
  IN
  /\ m \in 1 .. req[c].n - off
  /\ job[c].next = in[off + m]
  /\ IsBuf(job[c].data, m)
  /\ \A i \in 1 .. m :
       job[c].data[i] = IF req[c].encrypt \/ native THEN Cbc(c)[off + i]
                                                   ELSE Dec(Runner(c), in[off + i])

(* What the caller of a successful request may rely on: CbcResult. *)
Done(c) ==
  LET in == Input(req[c].n) IN
  /\ \E k \in Keys :
       IF req[c].encrypt
         THEN /\ req[c].dst = CbcEncrypt(k, Iv, in)
              /\ req[c].iv = Last(req[c].dst)
         ELSE /\ req[c].dst = CbcDecrypt(k, Iv, in)
              /\ req[c].iv = Last(in)
  /\ req[c].src = IF req[c].inplace THEN req[c].dst ELSE in

CallerInv(c) ==
  /\ Buffers(c)
  /\ pc[c] \in {"acquire"} \cup InJob => req[c].iv = Iv /\ req[c].n > 0
  /\ pc[c] \in {"acquire", "alloc"} => req[c].src = Input(req[c].n)
  /\ pc[c] \in {"submit", "hardware", "consume"}
       => Progress(c) /\ job[c].offset < req[c].n /\ job[c].err = "ok"
  /\ pc[c] \in {"hardware", "consume"} => InFlight(c)
  /\ pc[c] = "free" /\ job[c].err = "ok" => Progress(c) /\ job[c].offset = req[c].n
  /\ pc[c] = "complete" => IF job[c].err = "ok" THEN Done(c) ELSE req[c].iv = Iv
  /\ pc[c] = "idle" /\ res[c] = "ok" /\ req[c].n > 0 => Done(c)
  /\ pc[c] = "idle" /\ res[c] \in Errors => req[c].iv = Iv

IndInv == LockInv /\ Shape /\ \A c \in Callers : CallerInv(c)
LEMMA InputBuf ==
  ASSUME NEW n \in Nat
  PROVE  IsBuf(Input(n), n) /\ IsBuf(Blank(n), n)
BY DEF Input, Blank, IsBuf

LEMMA NatBounds ==
  ASSUME NEW c \in Callers, Buffers(c)
  PROVE  req[c].n \in Nat /\ job[c].offset \in Nat /\ job[c].offset <= req[c].n
BY BoundsAssumption DEF Buffers

LEMMA CbcBuf ==
  ASSUME NEW c \in Callers, Buffers(c)
  PROVE  IsBuf(Cbc(c), req[c].n)
<1>1. IsBuf(Input(req[c].n), req[c].n) /\ req[c].n \in Nat
  BY NatBounds, InputBuf
<1>2. IsBuf(CbcEncrypt(Runner(c), Iv, Input(req[c].n)), req[c].n)
  BY <1>1, EncryptUnfold
<1>3. IsBuf(CbcDecrypt(Runner(c), Iv, Input(req[c].n)), req[c].n)
  BY <1>1, DecryptUnfold
<1> QED
  BY <1>2, <1>3 DEF Cbc

(* submit_chunk() hands over a chunk within the request, and with it the   *)
(* hardware produces the blocks that belong there.                         *)
LEMMA SubmitInFlight ==
  ASSUME NEW c \in Callers, native \in BOOLEAN, Buffers(c), Progress(c),
         job[c].offset < req[c].n
  PROVE  LET off  == job[c].offset
             m    == ChunkOf(c)
             in   == Input(req[c].n)
             data == HardwareResult(Runner(c), req[c].encrypt, job[c].chain, ChunkInput(c))
         IN  /\ m \in 1 .. req[c].n - off
             /\ Last(ChunkInput(c)) = in[off + m]
             /\ IsBuf(data, m)
             /\ \A i \in 1 .. m :
                  data[i] = IF req[c].encrypt \/ native THEN Cbc(c)[off + i]
                                                       ELSE Dec(Runner(c), in[off + i])
<1> DEFINE n    == req[c].n
           off  == job[c].offset
           m    == ChunkOf(c)
           in   == Input(n)
           s    == ChunkInput(c)
           k    == Runner(c)
           ch   == job[c].chain
           data == HardwareResult(k, req[c].encrypt, ch, s)
<1>1. n \in Nat /\ off \in Nat /\ off < n
  BY NatBounds
<1>2. m \in 1 .. n - off /\ (req[c].encrypt /\ ~native => m = 1)
  BY <1>1, BoundsAssumption DEF ChunkOf
<1>3. IsBuf(in, n)
  BY <1>1, InputBuf
<1>4. \A i \in off + 1 .. n : req[c].src[i] = in[i]
  BY <1>1 DEF Progress
<1>5. ch = IF off = 0 THEN Iv ELSE IF req[c].encrypt THEN Cbc(c)[off] ELSE in[off]
  BY DEF Progress
<1>6. IsBuf(s, m) /\ \A i \in 1 .. m : s[i] = in[off + i]
  <2>1. IsBuf(req[c].src, n)
    BY DEF Buffers
  <2>2. /\ IsBuf(SubSeq(req[c].src, off + 1, off + m), m)
        /\ \A i \in 1 .. m : SubSeq(req[c].src, off + 1, off + m)[i] = req[c].src[off + i]
    <3> HIDE DEF n, off, m
    <3>1. m \in Nat /\ off + m <= n
      BY <1>1, <1>2
    <3> QED
      BY <1>1, <2>1, <3>1, BufSub DEF n
  <2>3. s = SubSeq(req[c].src, off + 1, off + m)
    BY DEF ChunkInput
  <2>4. \A i \in 1 .. m : off + i \in off + 1 .. n
    <3> HIDE DEF n, off, m
    <3> QED
      BY <1>1, <1>2
  <2> HIDE DEF n, off, m, s, in
  <2> QED
    BY <1>4, <2>2, <2>3, <2>4
<1>7. Cbc(c) = IF req[c].encrypt THEN CbcEncrypt(k, Iv, in) ELSE CbcDecrypt(k, Iv, in)
  BY DEF Cbc
<1>8. data = IF native THEN IF req[c].encrypt THEN CbcEncrypt(k, ch, s) ELSE CbcDecrypt(k, ch, s)
             ELSE IF req[c].encrypt THEN [i \in DOMAIN s |-> Enc(k, Xor(s[i], ch))]
             ELSE [i \in DOMAIN s |-> Dec(k, s[i])]
  BY DEF HardwareResult
<1>9. req[c].encrypt \in BOOLEAN
  BY DEF Buffers
<1> HIDE DEF n, off, m, in, s, k, ch, data
<1>10. m \in Nat /\ off + m <= n
  BY <1>1, <1>2
<1>11. Len(s) = m /\ DOMAIN s = 1 .. m
  BY <1>6, <1>10, BufLen
<1>12. Last(s) = in[off + m]
  BY <1>2, <1>6, <1>10, <1>11 DEF Last
<1>13. /\ IsBuf(data, m)
       /\ \A i \in 1 .. m : data[i] = IF req[c].encrypt \/ native THEN Cbc(c)[off + i]
                                                                  ELSE Dec(k, in[off + i])
  <2>1. CASE native /\ req[c].encrypt
    <3>1. data = CbcEncrypt(k, ch, s) /\ Cbc(c) = CbcEncrypt(k, Iv, in)
      BY <1>7, <1>8, <2>1
    <3>2. ch = IF off = 0 THEN Iv ELSE CbcEncrypt(k, Iv, in)[off]
      BY <1>5, <2>1, <3>1
    <3>3. PartOf(CbcEncrypt(k, ch, s), m, CbcEncrypt(k, Iv, in), off)
      <4>1. PartOf(s, m, in, off)
        BY <1>6 DEF PartOf
      <4> QED
        BY <1>1, <1>3, <1>6, <1>10, <3>2, <4>1, EncryptCut
    <3>4. IsBuf(CbcEncrypt(k, ch, s), m)
      BY <1>6, <1>10, EncryptUnfold
    <3> QED
      BY <2>1, <3>1, <3>3, <3>4 DEF PartOf
  <2>2. CASE native /\ ~req[c].encrypt
    <3>1. data = CbcDecrypt(k, ch, s) /\ Cbc(c) = CbcDecrypt(k, Iv, in)
      BY <1>7, <1>8, <2>2
    <3>2. ch = IF off = 0 THEN Iv ELSE in[off]
      BY <1>5, <2>2
    <3>3. /\ IsBuf(data, m)
          /\ Unchained(k, ch, s, m, data)
      BY <1>6, <1>10, <3>1, DecryptUnfold
    <3>4. Unchained(k, Iv, in, n, Cbc(c))
      BY <1>1, <1>3, <3>1, DecryptUnfold
    <3>5. ASSUME NEW i \in 1 .. m PROVE data[i] = Cbc(c)[off + i]
      <4>1. off + i \in 1 .. n /\ (i # 1 => i - 1 \in 1 .. m /\ off + (i - 1) = (off + i) - 1)
        BY <1>1, <1>10
      <4>2. data[i] = Xor(Dec(k, in[off + i]), IF i = 1 THEN ch ELSE in[(off + i) - 1])
        BY <1>6, <3>3, <4>1 DEF Unchained
      <4>3. Cbc(c)[off + i] = Xor(Dec(k, in[off + i]), IF off + i = 1 THEN Iv ELSE in[(off + i) - 1])
        BY <3>4, <4>1 DEF Unchained
      <4>4. (IF i = 1 THEN ch ELSE in[(off + i) - 1]) = IF off + i = 1 THEN Iv ELSE in[(off + i) - 1]
        BY <1>1, <3>2
      <4> QED
        BY <4>2, <4>3, <4>4
    <3> QED
      BY <2>2, <3>3, <3>5
  <2>3. CASE ~native /\ req[c].encrypt
    <3>1. m = 1 /\ data = [i \in 1 .. 1 |-> Enc(k, Xor(s[i], ch))]
      BY <1>2, <1>8, <1>11, <2>3
    <3>2. Cbc(c) = CbcEncrypt(k, Iv, in)
      BY <1>7, <2>3
    <3>3. Chained(k, Iv, in, n, Cbc(c))
      BY <1>1, <1>3, <3>2, EncryptUnfold
    <3>4. off + 1 \in 1 .. n /\ (off + 1) - 1 = off
      BY <1>1
    <3>5. Cbc(c)[off + 1] = Enc(k, Xor(in[off + 1], IF off + 1 = 1 THEN Iv ELSE Cbc(c)[off]))
      BY <3>3, <3>4 DEF Chained
    <3>6. data[1] = Cbc(c)[off + 1]
      BY <1>1, <1>5, <1>6, <2>3, <3>1, <3>5
    <3> QED
      BY <2>3, <3>1, <3>6 DEF IsBuf
  <2>4. CASE ~native /\ ~req[c].encrypt
    <3>1. data = [i \in 1 .. m |-> Dec(k, s[i])]
      BY <1>8, <1>11, <2>4
    <3> QED
      BY <1>6, <2>4, <3>1 DEF IsBuf
  <2> QED
    BY <1>9, <2>1, <2>2, <2>3, <2>4
<1> QED
  BY <1>2, <1>12, <1>13 DEF n, off, m, in, s, k, ch, data
(* consume_chunk() copies out the blocks that belong at the offset, also   *)
(* in mode 2, where decryption is chained with the ciphertext still in src, *)
(* and the next chaining value is the last ciphertext block of the chunk.  *)
LEMMA ConsumeResult ==
  ASSUME NEW c \in Callers, native \in BOOLEAN, Buffers(c), Progress(c), InFlight(c)
  PROVE  LET off == job[c].offset
             m   == job[c].chunk
             in  == Input(req[c].n)
         IN  /\ off \in Nat /\ m \in Nat /\ m > 0 /\ off + m <= req[c].n
             /\ IsBuf(Result(c), m) /\ PartOf(Result(c), m, Cbc(c), off)
             /\ NextChain(c) = IF req[c].encrypt THEN Cbc(c)[off + m] ELSE in[off + m]
<1> DEFINE n   == req[c].n
           off == job[c].offset
           m   == job[c].chunk
           in  == Input(n)
           k   == Runner(c)
           ch  == job[c].chain
           src == req[c].src
           data == job[c].data
<1>1. n \in Nat /\ off \in Nat /\ off <= n
  BY NatBounds
<1>2. m \in 1 .. n - off /\ job[c].next = in[off + m] /\ IsBuf(data, m)
  BY DEF InFlight
<1>3. \A i \in 1 .. m : data[i] = IF req[c].encrypt \/ native THEN Cbc(c)[off + i]
                                                            ELSE Dec(k, in[off + i])
  BY DEF InFlight
<1>4. \A i \in 1 .. n : off < i => src[i] = in[i]
  BY <1>1 DEF Progress
<1>5. ch = IF off = 0 THEN Iv ELSE IF req[c].encrypt THEN Cbc(c)[off] ELSE in[off]
  BY DEF Progress
<1>6. req[c].encrypt \in BOOLEAN
  BY DEF Buffers
<1>7. Result(c) = IF req[c].encrypt \/ native THEN data ELSE Decrypted(c)
  BY DEF Result
<1>8. Decrypted(c) = [i \in 1 .. m |-> Xor(data[i], IF i = 1 THEN ch
                        ELSE [j \in 1 .. m |-> src[off + j]][i - 1])]
  BY DEF Decrypted
<1>9. NextChain(c) = IF req[c].encrypt THEN Last(data)
                     ELSE IF native THEN job[c].next ELSE src[off + m]
  BY DEF NextChain
<1>10. ~req[c].encrypt => Cbc(c) = CbcDecrypt(k, Iv, in)
  BY DEF Cbc
<1>11. IsBuf(in, n)
  BY <1>1, InputBuf
<1> HIDE DEF n, off, m, in, k, ch, src, data
<1>12. m \in Nat /\ m > 0 /\ off + m <= n
  BY <1>1, <1>2
<1>13. IsBuf(Result(c), m) /\ PartOf(Result(c), m, Cbc(c), off)
  <2>1. CASE req[c].encrypt \/ native
    BY <1>2, <1>3, <1>7, <2>1 DEF PartOf
  <2>2. CASE ~req[c].encrypt /\ ~native
    <3>1. Result(c) = Decrypted(c) /\ Cbc(c) = CbcDecrypt(k, Iv, in)
      BY <1>7, <1>10, <2>2
    <3>2. IsBuf(Decrypted(c), m)
      BY <1>8 DEF IsBuf
    <3>3. Unchained(k, Iv, in, n, Cbc(c))
      BY <1>1, <1>11, <3>1, DecryptUnfold
    <3>4. ASSUME NEW i \in 1 .. m PROVE Decrypted(c)[i] = Cbc(c)[off + i]
      <4>1. /\ off + i \in 1 .. n
            /\ i # 1 => /\ i - 1 \in 1 .. m /\ off + (i - 1) = (off + i) - 1
                        /\ (off + i) - 1 \in 1 .. n /\ off < (off + i) - 1
        BY <1>1, <1>12
      <4>2. Decrypted(c)[i] = Xor(Dec(k, in[off + i]), IF i = 1 THEN ch ELSE src[(off + i) - 1])
        BY <1>3, <1>8, <2>2, <4>1
      <4>3. i # 1 => src[(off + i) - 1] = in[(off + i) - 1]
        BY <1>4, <4>1
      <4>4. Cbc(c)[off + i] = Xor(Dec(k, in[off + i]), IF off + i = 1 THEN Iv ELSE in[(off + i) - 1])
        BY <3>3, <4>1 DEF Unchained
      <4>5. (IF i = 1 THEN ch ELSE src[(off + i) - 1])
              = IF off + i = 1 THEN Iv ELSE in[(off + i) - 1]
        BY <1>1, <1>5, <2>2, <4>3
      <4> QED
        BY <4>2, <4>4, <4>5
    <3> QED
      BY <3>1, <3>2, <3>4 DEF PartOf
  <2> QED
    BY <1>6, <2>1, <2>2
<1>14. NextChain(c) = IF req[c].encrypt THEN Cbc(c)[off + m] ELSE in[off + m]
  <2>1. Len(data) = m
    BY <1>2, <1>12, BufLen
  <2>2. Last(data) = data[m]
    BY <2>1 DEF Last
  <2>3. m \in 1 .. m /\ off + m \in 1 .. n /\ off < off + m
    BY <1>1, <1>12
  <2>4. req[c].encrypt => data[m] = Cbc(c)[off + m]
    BY <1>3, <2>3
  <2>5. src[off + m] = in[off + m]
    BY <1>4, <2>3
  <2> QED
    BY <1>2, <1>6, <1>9, <2>2, <2>4, <2>5
<1> QED
  BY <1>1, <1>12, <1>13, <1>14 DEF n, off, m, in

LEMMA OverwriteBuf ==
  ASSUME NEW n \in Nat, NEW b, IsBuf(b, n), NEW off \in Nat, NEW m \in Nat, off + m <= n,
         NEW t, IsBuf(t, m)
  PROVE  /\ IsBuf(Overwrite(b, off, t), n)
         /\ \A i \in 1 .. n : Overwrite(b, off, t)[i] =
              IF off < i /\ i <= off + m THEN t[i - off] ELSE b[i]
<1>1. Len(t) = m /\ DOMAIN b = 1 .. n
  BY BufLen
<1> QED
  BY <1>1 DEF Overwrite, IsBuf

(* After the copy the request is one chunk further. *)
LEMMA ConsumeProgress ==
  ASSUME NEW c \in Callers, native \in BOOLEAN, Buffers(c), Progress(c), InFlight(c),
         UNCHANGED keys,
         req'[c].n = req[c].n, req'[c].encrypt = req[c].encrypt,
         req'[c].inplace = req[c].inplace,
         req'[c].dst = Overwrite(req[c].dst, job[c].offset, Result(c)),
         req'[c].src = IF req[c].inplace THEN Overwrite(req[c].src, job[c].offset, Result(c))
                                         ELSE req[c].src,
         job'[c].chain = NextChain(c), job'[c].offset = Advance(c)
  PROVE  /\ Progress(c)'
         /\ IsBuf(req'[c].src, req[c].n) /\ IsBuf(req'[c].dst, req[c].n)
         /\ job'[c].offset \in 1 .. req[c].n
<1> DEFINE n   == req[c].n
           off == job[c].offset
           m   == job[c].chunk
           in  == Input(n)
           t   == Result(c)
           w   == Cbc(c)
           dst == req[c].dst
           src == req[c].src
           dst2 == req'[c].dst
           src2 == req'[c].src
<1>1. n \in Nat /\ off \in Nat /\ m \in Nat /\ m > 0 /\ off + m <= n
  BY NatBounds, ConsumeResult
<1>2. IsBuf(t, m) /\ PartOf(t, m, w, off)
  BY ConsumeResult
<1>3. job'[c].chain = IF req[c].encrypt THEN w[off + m] ELSE in[off + m]
  BY ConsumeResult
<1>4. job'[c].offset = off + m
  BY DEF Advance
<1>5. Cbc(c)' = w
  BY DEF Cbc, Runner
<1>6. IsBuf(src, n) /\ IsBuf(dst, n) /\ req[c].inplace \in BOOLEAN
  BY DEF Buffers
<1>7. \A i \in 1 .. off : dst[i] = w[i]
  BY DEF Progress
<1>8. \A i \in 1 .. n : src[i] = IF req[c].inplace /\ i <= off THEN w[i] ELSE in[i]
  BY DEF Progress
<1>9. dst2 = Overwrite(dst, off, t) /\ src2 = IF req[c].inplace THEN Overwrite(src, off, t) ELSE src
  OBVIOUS
<1>10. \A i \in 1 .. n : off < i /\ i <= off + m => t[i - off] = w[i]
  <2> HIDE DEF n, off, m, t, w
  <2> SUFFICES ASSUME NEW i \in 1 .. n, off < i, i <= off + m PROVE t[i - off] = w[i]
    OBVIOUS
  <2>1. i - off \in 1 .. m /\ off + (i - off) = i
    BY <1>1
  <2> QED
    BY <1>2, <2>1 DEF PartOf
<1> HIDE DEF n, off, m, in, t, w, dst, src, dst2, src2
<1>11. /\ IsBuf(dst2, n)
       /\ \A i \in 1 .. off + m : dst2[i] = w[i]
  <2>1. /\ IsBuf(Overwrite(dst, off, t), n)
        /\ \A i \in 1 .. n : Overwrite(dst, off, t)[i] =
             IF off < i /\ i <= off + m THEN t[i - off] ELSE dst[i]
    BY <1>1, <1>2, <1>6, OverwriteBuf
  <2> QED
    BY <1>1, <1>7, <1>9, <1>10, <2>1
<1>12. /\ IsBuf(src2, n)
       /\ \A i \in 1 .. n : src2[i] = IF req[c].inplace /\ i <= off + m THEN w[i] ELSE in[i]
  <2>1. /\ IsBuf(Overwrite(src, off, t), n)
        /\ \A i \in 1 .. n : Overwrite(src, off, t)[i] =
             IF off < i /\ i <= off + m THEN t[i - off] ELSE src[i]
    BY <1>1, <1>2, <1>6, OverwriteBuf
  <2>2. CASE req[c].inplace
    BY <1>1, <1>8, <1>9, <1>10, <2>1, <2>2
  <2>3. CASE ~req[c].inplace
    BY <1>6, <1>8, <1>9, <2>3
  <2> QED
    BY <1>6, <2>2, <2>3
<1>13. Progress(c)'
  <2>1. /\ \A i \in 1 .. job'[c].offset : req'[c].dst[i] = Cbc(c)'[i]
        /\ \A i \in 1 .. req'[c].n :
             req'[c].src[i] = IF req'[c].inplace /\ i <= job'[c].offset
                                THEN Cbc(c)'[i] ELSE Input(req'[c].n)[i]
    BY <1>4, <1>5, <1>11, <1>12 DEF dst2, src2, n, in
  <2>2. job'[c].chain = IF job'[c].offset = 0 THEN Iv
                        ELSE IF req'[c].encrypt THEN Cbc(c)'[job'[c].offset]
                             ELSE Input(req'[c].n)[job'[c].offset]
    BY <1>1, <1>3, <1>4, <1>5 DEF n, in
  <2> QED
    BY <2>1, <2>2 DEF Progress
<1>14. job'[c].offset \in 1 .. n
  BY <1>1, <1>4
<1> QED
  BY <1>11, <1>12, <1>13, <1>14 DEF n, dst2, src2

(* What finish_job() hands back when nothing failed. *)
LEMMA FreeDone ==
  ASSUME NEW c \in Callers, Buffers(c), Progress(c), job[c].offset = req[c].n, req[c].n > 0,
         Runner(c) \in Keys,
         req'[c].n = req[c].n, req'[c].encrypt = req[c].encrypt,
         req'[c].inplace = req[c].inplace, req'[c].dst = req[c].dst,
         req'[c].src = req[c].src, req'[c].iv = job[c].chain
  PROVE  Done(c)'
<1> DEFINE n  == req[c].n
           in == Input(n)
           k  == Runner(c)
           w  == Cbc(c)
<1>1. n \in Nat /\ n > 0
  BY NatBounds
<1>2. IsBuf(req[c].src, n) /\ IsBuf(req[c].dst, n) /\ req[c].encrypt \in BOOLEAN
      /\ req[c].inplace \in BOOLEAN
  BY DEF Buffers
<1>3. IsBuf(w, n)
  BY CbcBuf
<1>4. IsBuf(in, n)
  BY <1>1, InputBuf
<1>5. \A i \in 1 .. n : req[c].dst[i] = w[i]
  BY DEF Progress
<1>6. \A i \in 1 .. n : req[c].src[i] = IF req[c].inplace /\ i <= n THEN w[i] ELSE in[i]
  BY DEF Progress
<1>7. job[c].chain = IF req[c].encrypt THEN w[n] ELSE in[n]
  BY <1>1 DEF Progress
<1>8. w = IF req[c].encrypt THEN CbcEncrypt(k, Iv, in) ELSE CbcDecrypt(k, Iv, in)
  BY DEF Cbc
<1>9. req'[c].n = n /\ k \in Keys
  OBVIOUS
<1> HIDE DEF n, in, k, w
<1>10. req[c].dst = w
  BY <1>1, <1>2, <1>3, <1>5, BufEqual
<1>11. req[c].src = IF req[c].inplace THEN w ELSE in
  BY <1>1, <1>2, <1>3, <1>4, <1>6, BufEqual
<1>12. Last(w) = w[n] /\ Last(in) = in[n]
  BY <1>1, <1>3, <1>4, BufLen DEF Last
<1>13. Input(req'[c].n) = in
  BY <1>9 DEF in
<1> QED
  BY <1>2, <1>7, <1>8, <1>9, <1>10, <1>11, <1>12, <1>13 DEF Done
-----------------------------------------------------------------------------
(* The steps.  A caller's part of the invariant is about its own request,  *)
(* the mode and, while it owns the transform, the keys.                    *)

LEMMA CallerFrame ==
  ASSUME NEW d \in Callers, CallerInv(d), UNCHANGED native,
         pc[d] \in InJob => UNCHANGED keys,
         pc'[d] = pc[d], req'[d] = req[d], job'[d] = job[d], res'[d] = res[d]
  PROVE  CallerInv(d)'
<1>1. Buffers(d)' /\ (Done(d) => Done(d)')
  BY DEF CallerInv, Buffers, Done
<1>2. pc[d] \in InJob => /\ Progress(d) => Progress(d)'
                         /\ InFlight(d) => InFlight(d)'
  BY DEF Progress, InFlight, Cbc, Runner
<1> QED
  BY <1>1, <1>2 DEF CallerInv, InJob

(* A step of one caller leaves the others alone. *)
LEMMA OwnStep ==
  ASSUME IndInv, NEW c \in Callers, LockInv', Shape', CallerInv(c)',
         UNCHANGED <<native, keys>>,
         \A d \in Callers \ {c} : /\ pc'[d] = pc[d] /\ req'[d] = req[d]
                                  /\ job'[d] = job[d] /\ res'[d] = res[d]
  PROVE  IndInv'
<1>1. ASSUME NEW d \in Callers \ {c} PROVE CallerInv(d)'
  BY CallerFrame DEF IndInv
<1> QED
  BY <1>1 DEF IndInv

LEMMA SetReq ==
  ASSUME Shape, NEW c \in Callers, NEW x, IsReq(x), req' = [req EXCEPT ![c] = x]
  PROVE  /\ req' = [d \in Callers |-> req'[d]] /\ req'[c] = x
         /\ \A d \in Callers : IsReq(req'[d])
         /\ \A d \in Callers \ {c} : req'[d] = req[d]
BY DEF Shape

LEMMA SetJob ==
  ASSUME Shape, NEW c \in Callers, NEW x, IsJob(x), job' = [job EXCEPT ![c] = x]
  PROVE  /\ job' = [d \in Callers |-> job'[d]] /\ job'[c] = x
         /\ \A d \in Callers : IsJob(job'[d])
         /\ \A d \in Callers \ {c} : job'[d] = job[d]
BY DEF Shape

LEMMA JobChain ==
  ASSUME NEW j, IsJob(j), NEW v, NEW y, y = [j EXCEPT !.chain = v]
  PROVE  /\ IsJob(y) /\ y.chain = v /\ y.offset = j.offset /\ y.err = j.err
         /\ y.async = j.async
BY DEF IsJob

HandedOver(j, m, nx, data, a) ==
  [j EXCEPT !.chunk = m, !.next = nx, !.data = data, !.async = a]

LEMMA JobHandedOver ==
  ASSUME NEW j, IsJob(j), NEW m, NEW nx, NEW data, NEW a, NEW y,
         y = HandedOver(j, m, nx, data, a)
  PROVE  /\ IsJob(y) /\ y.offset = j.offset /\ y.chain = j.chain /\ y.err = j.err
         /\ y.chunk = m /\ y.next = nx /\ y.data = data /\ y.async = a
<1>1. y = [j EXCEPT !.chunk = m, !.next = nx, !.data = data, !.async = a]
  BY DEF HandedOver
<1> QED
  BY <1>1 DEF IsJob

LEMMA NoJobFields ==
  /\ IsJob(NoJob) /\ NoJob.offset = 0 /\ NoJob.err = "ok" /\ NoJob.async \in BOOLEAN
<1>1. NoJob.async \in BOOLEAN
  BY Zenon DEF NoJob
<1> QED
  BY <1>1 DEF IsJob, NoJob

LEMMA InitInv == Init => IndInv
<1> SUFFICES ASSUME Init PROVE IndInv
  OBVIOUS
<1>1. Shape
  BY DEF Init, Shape, IsReq, IsJob, NoReq, NoJob
<1>2. ASSUME NEW c \in Callers PROVE CallerInv(c)
  <2>1. pc[c] = "idle" /\ res[c] = "none" /\ req[c] = NoReq /\ job[c] = NoJob
    BY DEF Init
  <2>2. Buffers(c)
    <3>1. IsBuf(<<>>, 0)
      BY DEF IsBuf
    <3> QED
      BY <2>1, <3>1, BoundsAssumption DEF Buffers, NoReq, NoJob
  <2> QED
    BY <2>1, <2>2 DEF CallerInv, InJob, Errors
<1> QED
  BY <1>1, <1>2, LockInit DEF IndInv

LEMMA CallStep ==
  ASSUME IndInv, NEW c \in Callers, NEW encrypt \in BOOLEAN, NEW n \in 0 .. MaxBlocks,
         NEW inplace \in BOOLEAN, NEW aligned \in BOOLEAN,
         Call(c, encrypt, n, inplace, aligned)
  PROVE  IndInv'
<1> DEFINE x == [encrypt |-> encrypt, n |-> n, inplace |-> inplace, src |-> Input(n),
                 dst |-> IF inplace THEN Input(n) ELSE Blank(n), iv |-> Iv]
<1>0. BaseType /\ Shape /\ LockInv
  BY DEF IndInv, LockInv
<1>1. IsReq(x) /\ req' = [req EXCEPT ![c] = x]
  BY DEF Call, IsReq
<1>2. IsJob(NoJob) /\ job' = [job EXCEPT ![c] = NoJob]
  BY DEF Call, IsJob, NoJob
<1>3. /\ req'[c] = x /\ \A d \in Callers \ {c} : req'[d] = req[d]
      /\ job'[c] = NoJob /\ \A d \in Callers \ {c} : job'[d] = job[d]
      /\ Shape'
  <2> HIDE DEF x
  <2> QED
    BY <1>0, <1>1, <1>2, SetReq, SetJob DEF Shape
<1>4. /\ \/ /\ Admitted(n, aligned) /\ pc' = [pc EXCEPT ![c] = "acquire"]
         \/ ~Admitted(n, aligned) /\ pc' = pc
      /\ pc[c] = "idle"
  BY DEF Call, Goto
<1>5. PICK r \in {"none", "EINVAL", "ENOKEY", "ok"} :
        /\ res' = [res EXCEPT ![c] = r]
        /\ r = "none" <=> Admitted(n, aligned)
        /\ r = "ok" /\ ~Admitted(n, aligned) => aligned /\ keyed
  BY DEF Call, Tell
<1>6. BaseType'
  BY <1>0, <1>4, <1>5 DEF BaseType, Call, PcType, Errors
<1>7. /\ \A d \in Callers \ {c} : pc'[d] = pc[d] /\ res'[d] = res[d]
      /\ res'[c] = r /\ pc'[c] = IF Admitted(n, aligned) THEN "acquire" ELSE "idle"
  BY <1>0, <1>4, <1>5 DEF BaseType
<1>8. LockInv'
  <2>1. pc'[c] = "acquire" => keyed
    BY <1>7 DEF Admitted
  <2>2. pc[c] \notin InJob /\ pc'[c] \notin InJob
    BY <1>4, <1>7 DEF InJob
  <2> QED
    BY <1>0, <1>6, <1>7, <2>1, <2>2, LockQuiet DEF Call
<1>9. CallerInv(c)'
  <2>1. n \in Nat
    BY BoundsAssumption
  <2>2. IsBuf(Input(n), n) /\ IsBuf(Blank(n), n)
    BY <2>1, InputBuf
  <2>3. Buffers(c)'
    BY <1>3, <2>1, <2>2 DEF Buffers, NoJob
  <2>4. Admitted(n, aligned) => n > 0
    BY DEF Admitted
  <2>5. r = "ok" /\ ~Admitted(n, aligned) => ~(n > 0)
    BY <1>5 DEF Admitted
  <2> QED
    BY <1>3, <1>5, <1>7, <2>3, <2>4, <2>5 DEF CallerInv, InJob, Errors
<1> QED
  BY <1>3, <1>7, <1>8, <1>9, OwnStep DEF Call
LEMMA AcquireStep ==
  ASSUME IndInv, NEW c \in Callers, Acquire(c)
  PROVE  IndInv'
<1>0. BaseType /\ Shape /\ LockInv /\ CallerInv(c)
  BY DEF IndInv, LockInv
<1>1. CASE busy
  <2>1. pc' = [pc EXCEPT ![c] = "idle"] /\ res' = [res EXCEPT ![c] = "ENOBUFS"] /\ busy' = busy
    BY <1>1 DEF Acquire, Goto, Tell
  <2>2. /\ pc'[c] = "idle" /\ res'[c] = "ENOBUFS"
        /\ \A d \in Callers \ {c} : pc'[d] = pc[d] /\ res'[d] = res[d]
    BY <1>0, <2>1 DEF BaseType
  <2>3. BaseType'
    BY <1>0, <2>1 DEF BaseType, Acquire, PcType, Errors
  <2>4. LockInv'
    BY <1>0, <2>1, <2>2, <2>3, LockQuiet DEF Acquire, InJob
  <2>5. CallerInv(c)' /\ Shape'
    BY <1>0, <2>2 DEF CallerInv, Acquire, InJob, Errors, Buffers, Shape
  <2> QED
    BY <2>2, <2>4, <2>5, OwnStep DEF Acquire
<1>2. CASE ~busy
  <2>1. pc' = [pc EXCEPT ![c] = "alloc"] /\ res' = res /\ busy' = TRUE
    BY <1>2 DEF Acquire, Goto
  <2>2. pc'[c] = "alloc" /\ \A d \in Callers \ {c} : pc'[d] = pc[d]
    BY <1>0, <2>1 DEF BaseType
  <2>3. BaseType'
    <3>1. pc' \in [Callers -> PcType]
      BY <1>0, <2>1 DEF BaseType, PcType, InJob
    <3>2. busy' \in BOOLEAN
      BY <2>1
    <3> QED
      BY <1>0, <2>1, <3>1, <3>2 DEF BaseType, Acquire
  <2>4. Ownership'
    <3>1. setter.pc = "idle" /\ \A d \in Callers : pc[d] \notin InJob
      BY <1>0, <1>2 DEF LockInv, Ownership
    <3> QED
      BY <2>1, <2>2, <3>1 DEF Ownership, Acquire, InJob
  <2>5. KeysPresent' /\ KeyProgress' /\ KeysAgree'
    BY <1>0, <2>2 DEF LockInv, KeysPresent, KeyProgress, KeysAgree, Acquire
  <2>6. CallerInv(c)' /\ Shape'
    BY <1>0, <2>1, <2>2 DEF CallerInv, Acquire, InJob, Errors, Buffers, Shape
  <2> QED
    BY <2>1, <2>2, <2>3, <2>4, <2>5, <2>6, OwnStep DEF Acquire, LockInv
<1> QED
  BY <1>1, <1>2

(* A step of the owner that keeps the transform. *)
LEMMA OwnerKeeps ==
  ASSUME IndInv, NEW c \in Callers, pc[c] \in InJob, NEW l \in InJob, Goto(c, l),
         UNCHANGED <<native, keyed, busy, keys, setter>>,
         faults' \in 0 .. MaxFaults,
         res' = res \/ Tell(c, "EINPROGRESS")
  PROVE  /\ LockInv' /\ pc'[c] = l
         /\ \A d \in Callers \ {c} : pc'[d] = pc[d] /\ res'[d] = res[d]
<1>0. BaseType /\ LockInv
  BY DEF IndInv, LockInv
<1>1. /\ pc' \in [Callers -> PcType] /\ pc'[c] = l
      /\ \A d \in Callers \ {c} : pc'[d] = pc[d]
  BY <1>0, GotoType DEF PcType
<1>2. /\ res' \in [Callers -> Errors \cup {"ok", "none", "EINPROGRESS"}]
      /\ \A d \in Callers \ {c} : res'[d] = res[d]
  BY <1>0, TellType DEF BaseType
<1>3. BaseType'
  BY <1>0, <1>1, <1>2 DEF BaseType
<1>4. "acquire" \notin InJob
  BY DEF InJob
<1> QED
  BY <1>0, <1>1, <1>2, <1>3, <1>4, LockQuiet

LEMMA AllocStep ==
  ASSUME IndInv, NEW c \in Callers, Alloc(c)
  PROVE  IndInv'
<1>0. BaseType /\ Shape /\ LockInv /\ CallerInv(c)
  BY DEF IndInv, LockInv
<1> DEFINE x == [NoJob EXCEPT !.chain = req[c].iv]
<1>1. LockInv' /\ pc'[c] = "submit" /\ \A d \in Callers \ {c} : pc'[d] = pc[d] /\ res'[d] = res[d]
  BY <1>0, OwnerKeeps DEF Alloc, InJob, BaseType
<1>2. IsJob(x) /\ x.offset = 0 /\ x.chain = req[c].iv /\ x.err = "ok" /\ x.async \in BOOLEAN
  BY JobChain, NoJobFields
<1>3. job'[c] = x /\ Shape' /\ \A d \in Callers \ {c} : job'[d] = job[d]
  <2>1. job' = [job EXCEPT ![c] = x]
    BY DEF Alloc
  <2> HIDE DEF x
  <2> QED
    BY <1>0, <1>2, <2>1, SetJob DEF Shape, Alloc
<1> HIDE DEF x
<1>4. req' = req /\ req[c].iv = Iv /\ req[c].n > 0 /\ req[c].src = Input(req[c].n)
      /\ req[c].n \in Nat
  BY <1>0, NatBounds DEF Alloc, CallerInv, InJob
<1>5. Buffers(c)'
  BY <1>0, <1>2, <1>3, <1>4 DEF CallerInv, Buffers
<1>6. Progress(c)'
  BY <1>2, <1>3, <1>4 DEF Progress
<1>7. CallerInv(c)'
  BY <1>1, <1>2, <1>3, <1>4, <1>5, <1>6 DEF CallerInv, InJob
<1> QED
  BY <1>1, <1>3, <1>4, <1>7, OwnStep DEF Alloc

LEMMA AllocFailsStep ==
  ASSUME IndInv, NEW c \in Callers, AllocFails(c)
  PROVE  IndInv'
<1>0. BaseType /\ Shape /\ LockInv /\ CallerInv(c)
  BY DEF IndInv, LockInv
<1>1. pc' = [pc EXCEPT ![c] = "idle"] /\ res' = [res EXCEPT ![c] = "ENOMEM"] /\ busy' = FALSE
  BY DEF AllocFails, Goto, Tell
<1>2. /\ pc'[c] = "idle" /\ res'[c] = "ENOMEM"
      /\ \A d \in Callers \ {c} : pc'[d] = pc[d] /\ res'[d] = res[d]
  BY <1>0, <1>1 DEF BaseType
<1>3. BaseType'
  <2>1. pc' \in [Callers -> PcType] /\ res' \in [Callers -> Errors \cup {"ok", "none", "EINPROGRESS"}]
    BY <1>0, <1>1 DEF BaseType, PcType, Errors
  <2>2. busy' \in BOOLEAN
    BY <1>1
  <2> QED
    BY <1>0, <2>1, <2>2, FaultType DEF BaseType, AllocFails
<1>4. LockInv'
  BY <1>0, <1>1, <1>2, <1>3, LockRelease DEF AllocFails, InJob
<1>5. CallerInv(c)' /\ Shape'
  BY <1>0, <1>2 DEF CallerInv, AllocFails, InJob, Errors, Buffers, Shape
<1> QED
  BY <1>2, <1>4, <1>5, OwnStep DEF AllocFails

LEMMA SubmitStep ==
  ASSUME IndInv, NEW c \in Callers, Submit(c)
  PROVE  IndInv'
<1>0. BaseType /\ Shape /\ LockInv /\ CallerInv(c)
  BY DEF IndInv, LockInv
<1>1. PICK later \in BOOLEAN :
        /\ job' = [job EXCEPT ![c].chunk = ChunkOf(c),
                              ![c].next = Last(ChunkInput(c)),
                              ![c].data = HardwareResult(Runner(c), req[c].encrypt,
                                            job[c].chain, ChunkInput(c)),
                              ![c].async = @ \/ later]
        /\ Goto(c, IF later THEN "hardware" ELSE "consume")
        /\ IF later /\ ~job[c].async THEN Tell(c, "EINPROGRESS") ELSE UNCHANGED res
  BY DEF Submit
<1> DEFINE m == ChunkOf(c)
           nx == Last(ChunkInput(c))
           data == HardwareResult(Runner(c), req[c].encrypt, job[c].chain, ChunkInput(c))
           a == job[c].async \/ later
           x == HandedOver(job[c], m, nx, data, a)
<1>2. job' = [job EXCEPT ![c] = x]
  <2> HIDE DEF m, nx, data
  <2> QED
    BY <1>0, <1>1 DEF Shape, m, nx, data, HandedOver
<1>3. /\ IsJob(x) /\ x.offset = job[c].offset /\ x.chain = job[c].chain /\ x.err = job[c].err
      /\ x.chunk = m /\ x.next = nx /\ x.data = data /\ x.async = a
  <2> HIDE DEF m, nx, data, a
  <2>1. IsJob(job[c])
    BY <1>0 DEF Shape
  <2>2. x = HandedOver(job[c], m, nx, data, a)
    OBVIOUS
  <2> HIDE DEF x
  <2> QED
    BY <2>1, <2>2, JobHandedOver
<1>4. a \in BOOLEAN
  BY <1>0 DEF CallerInv, Buffers
<1>5. job'[c] = x /\ Shape' /\ \A d \in Callers \ {c} : job'[d] = job[d]
  <2> HIDE DEF x
  <2> QED
    BY <1>0, <1>2, <1>3, SetJob DEF Shape, Submit
<1>6. /\ LockInv' /\ pc'[c] \in {"hardware", "consume"}
      /\ \A d \in Callers \ {c} : pc'[d] = pc[d] /\ res'[d] = res[d]
  BY <1>0, <1>1, OwnerKeeps DEF Submit, InJob, BaseType
<1>7. Progress(c) /\ Buffers(c) /\ job[c].offset < req[c].n /\ job[c].err = "ok"
      /\ req[c].iv = Iv /\ req[c].n > 0
  BY <1>0 DEF CallerInv, Submit, InJob
<1>8. /\ m \in 1 .. req[c].n - job[c].offset
      /\ nx = Input(req[c].n)[job[c].offset + m]
      /\ IsBuf(data, m)
      /\ \A i \in 1 .. m :
           data[i] = IF req[c].encrypt \/ native THEN Cbc(c)[job[c].offset + i]
                                                ELSE Dec(Runner(c), Input(req[c].n)[job[c].offset + i])
  BY <1>0, <1>7, SubmitInFlight DEF BaseType
<1> HIDE DEF m, nx, data, a, x
<1>9. req' = req /\ Cbc(c)' = Cbc(c) /\ Runner(c)' = Runner(c) /\ native' = native
  BY DEF Cbc, Runner, Submit
<1>10. Buffers(c)'
  BY <1>3, <1>4, <1>5, <1>7, <1>9 DEF Buffers
<1>11. Progress(c)'
  BY <1>3, <1>5, <1>7, <1>9 DEF Progress
<1>12. InFlight(c)'
  BY <1>3, <1>5, <1>8, <1>9 DEF InFlight
<1>13. CallerInv(c)'
  BY <1>3, <1>5, <1>6, <1>7, <1>9, <1>10, <1>11, <1>12 DEF CallerInv, InJob
<1> QED
  BY <1>5, <1>6, <1>9, <1>13, OwnStep DEF Submit
LEMMA JobError ==
  ASSUME NEW j, IsJob(j), NEW v, NEW y, y = [j EXCEPT !.err = v]
  PROVE  /\ IsJob(y) /\ y.err = v /\ y.offset = j.offset /\ y.async = j.async
BY DEF IsJob

(* The chunk failed: the job goes on to be freed with its error. *)
LEMMA ErrorStep ==
  ASSUME IndInv, NEW c \in Callers, pc[c] \in {"submit", "hardware"}, Goto(c, "free"), Fault,
         NEW e \in Errors, job' = [job EXCEPT ![c].err = e],
         UNCHANGED <<native, keyed, busy, keys, setter, req, res>>
  PROVE  IndInv'
<1>0. BaseType /\ Shape /\ LockInv /\ CallerInv(c)
  BY DEF IndInv, LockInv
<1>1. LockInv' /\ pc'[c] = "free" /\ \A d \in Callers \ {c} : pc'[d] = pc[d] /\ res'[d] = res[d]
  BY <1>0, OwnerKeeps, FaultType DEF InJob
<1> DEFINE x == [job[c] EXCEPT !.err = e]
<1>2. IsJob(x) /\ x.err = e /\ x.offset = job[c].offset /\ x.async = job[c].async
  <2>1. IsJob(job[c])
    BY <1>0 DEF Shape
  <2> QED
    BY <2>1, JobError
<1>3. job'[c] = x /\ Shape' /\ \A d \in Callers \ {c} : job'[d] = job[d]
  <2>1. job' = [job EXCEPT ![c] = x]
    OBVIOUS
  <2> HIDE DEF x
  <2> QED
    BY <1>0, <1>2, <2>1, SetJob DEF Shape
<1> HIDE DEF x
<1>4. Buffers(c)'
  BY <1>0, <1>2, <1>3 DEF CallerInv, Buffers
<1>5. e # "ok"
  BY DEF Errors
<1>6. CallerInv(c)'
  BY <1>0, <1>1, <1>2, <1>3, <1>4, <1>5 DEF CallerInv, InJob
<1> QED
  BY <1>1, <1>3, <1>6, OwnStep

LEMMA HardwareDoneStep ==
  ASSUME IndInv, NEW c \in Callers, HardwareDone(c)
  PROVE  IndInv'
<1>0. BaseType /\ Shape /\ LockInv /\ CallerInv(c)
  BY DEF IndInv, LockInv
<1>1. CASE Goto(c, "consume") /\ UNCHANGED <<job, faults>>
  <2>1. LockInv' /\ pc'[c] = "consume" /\ \A d \in Callers \ {c} : pc'[d] = pc[d] /\ res'[d] = res[d]
    BY <1>0, <1>1, OwnerKeeps DEF HardwareDone, InJob, BaseType
  <2>2. Buffers(c)' /\ (Progress(c) => Progress(c)') /\ (InFlight(c) => InFlight(c)')
    BY <1>0, <1>1 DEF HardwareDone, CallerInv, Buffers, Progress, InFlight, Cbc, Runner
  <2>3. CallerInv(c)' /\ Shape'
    BY <1>0, <1>1, <2>1, <2>2 DEF HardwareDone, CallerInv, InJob, Shape
  <2> QED
    BY <1>1, <2>1, <2>3, OwnStep DEF HardwareDone
<1>2. CASE Fault /\ job' = [job EXCEPT ![c].err = "EIO"] /\ Goto(c, "free")
  BY <1>2, ErrorStep DEF HardwareDone, Errors
<1> QED
  BY <1>1, <1>2 DEF HardwareDone

Copied(r, d, t) == [r EXCEPT !.dst = d, !.src = t]
Moved(j, v, o) == [j EXCEPT !.chain = v, !.offset = o]

LEMMA ReqCopied ==
  ASSUME NEW r, IsReq(r), NEW d, NEW t, NEW y, y = Copied(r, d, t)
  PROVE  /\ IsReq(y) /\ y.dst = d /\ y.src = t /\ y.n = r.n /\ y.iv = r.iv
         /\ y.encrypt = r.encrypt /\ y.inplace = r.inplace
<1>1. y = [r EXCEPT !.dst = d, !.src = t]
  BY DEF Copied
<1> QED
  BY <1>1 DEF IsReq

LEMMA JobMoved ==
  ASSUME NEW j, IsJob(j), NEW v, NEW o, NEW y, y = Moved(j, v, o)
  PROVE  /\ IsJob(y) /\ y.chain = v /\ y.offset = o /\ y.err = j.err /\ y.async = j.async
<1>1. y = [j EXCEPT !.chain = v, !.offset = o]
  BY DEF Moved
<1> QED
  BY <1>1 DEF IsJob

LEMMA ConsumeStep ==
  ASSUME IndInv, NEW c \in Callers, Consume(c)
  PROVE  IndInv'
<1>0. BaseType /\ Shape /\ LockInv /\ CallerInv(c)
  BY DEF IndInv, LockInv
<1> DEFINE d2 == Overwrite(req[c].dst, job[c].offset, Result(c))
           s2 == IF req[c].inplace THEN Overwrite(req[c].src, job[c].offset, Result(c))
                                   ELSE req[c].src
           x  == Copied(req[c], d2, s2)
           v  == NextChain(c)
           o  == Advance(c)
           y  == Moved(job[c], v, o)
<1>1. IsReq(req[c]) /\ IsJob(job[c])
  BY <1>0 DEF Shape
<1>2. /\ IsReq(x) /\ x.dst = d2 /\ x.src = s2 /\ x.n = req[c].n /\ x.iv = req[c].iv
      /\ x.encrypt = req[c].encrypt /\ x.inplace = req[c].inplace
  <2> HIDE DEF d2, s2
  <2> QED
    BY <1>1, ReqCopied
<1>3. IsJob(y) /\ y.chain = v /\ y.offset = o /\ y.err = job[c].err /\ y.async = job[c].async
  <2> HIDE DEF v, o
  <2> QED
    BY <1>1, JobMoved
<1>4. /\ req'[c] = x /\ job'[c] = y /\ Shape'
      /\ \A d \in Callers \ {c} : req'[d] = req[d] /\ job'[d] = job[d]
  <2>1. req' = [req EXCEPT ![c].dst = d2, ![c].src = s2]
    BY DEF Consume
  <2>2. job' = [job EXCEPT ![c].chain = v, ![c].offset = o]
    BY DEF Consume
  <2> HIDE DEF d2, s2, v, o
  <2>3. req' = [req EXCEPT ![c] = x] /\ job' = [job EXCEPT ![c] = y]
    BY <1>0, <2>1, <2>2 DEF Shape, Copied, Moved
  <2> HIDE DEF x, y
  <2> QED
    BY <1>0, <1>2, <1>3, <2>3, SetReq, SetJob DEF Shape
<1>5. Buffers(c) /\ Progress(c) /\ InFlight(c) /\ job[c].err = "ok" /\ req[c].iv = Iv /\ req[c].n > 0
  BY <1>0 DEF Consume, CallerInv, InJob
<1> HIDE DEF x, y
<1>6. /\ Progress(c)' /\ IsBuf(req'[c].src, req[c].n) /\ IsBuf(req'[c].dst, req[c].n)
      /\ job'[c].offset \in 1 .. req[c].n
  BY <1>0, <1>2, <1>3, <1>4, <1>5, ConsumeProgress DEF Consume, BaseType
<1> HIDE DEF d2, s2, v, o
<1>7. /\ LockInv' /\ pc'[c] = IF o < req[c].n THEN "submit" ELSE "free"
      /\ \A d \in Callers \ {c} : pc'[d] = pc[d] /\ res'[d] = res[d]
  <2>1. Goto(c, IF o < req[c].n THEN "submit" ELSE "free")
    BY DEF Consume, o
  <2> QED
    BY <1>0, <2>1, OwnerKeeps DEF Consume, InJob, BaseType
<1>8. Buffers(c)'
  BY <1>2, <1>3, <1>4, <1>5, <1>6 DEF Buffers
<1>9. req[c].n \in Nat
  BY <1>5, NatBounds
<1>10. CallerInv(c)'
  BY <1>2, <1>3, <1>4, <1>5, <1>6, <1>7, <1>8, <1>9 DEF CallerInv, InJob
<1> QED
  BY <1>4, <1>7, <1>10, OwnStep DEF Consume

LEMMA ReqIv ==
  ASSUME NEW r, IsReq(r), NEW v, NEW y, y = [r EXCEPT !.iv = v]
  PROVE  /\ IsReq(y) /\ y.iv = v /\ y.n = r.n /\ y.src = r.src /\ y.dst = r.dst
         /\ y.encrypt = r.encrypt /\ y.inplace = r.inplace
BY DEF IsReq

LEMMA FreeStep ==
  ASSUME IndInv, NEW c \in Callers, Free(c)
  PROVE  IndInv'
<1>0. BaseType /\ Shape /\ LockInv /\ CallerInv(c) /\ Buffers(c)
  BY DEF IndInv, LockInv, CallerInv
<1> DEFINE v == IvOut(c)
           x == [req[c] EXCEPT !.iv = v]
           e == job[c].err
           y == [NoJob EXCEPT !.err = e]
<1>1. /\ IsReq(x) /\ x.iv = v /\ x.n = req[c].n /\ x.src = req[c].src /\ x.dst = req[c].dst
      /\ x.encrypt = req[c].encrypt /\ x.inplace = req[c].inplace
  <2>1. IsReq(req[c])
    BY <1>0 DEF Shape
  <2> HIDE DEF v
  <2> QED
    BY <2>1, ReqIv
<1>2. IsJob(y) /\ y.err = e /\ y.offset = 0 /\ y.async \in BOOLEAN
  <2> HIDE DEF e
  <2> QED
    BY NoJobFields, JobError
<1>3. /\ req'[c] = x /\ job'[c] = y /\ Shape'
      /\ \A d \in Callers \ {c} : req'[d] = req[d] /\ job'[d] = job[d]
  <2>1. req' = [req EXCEPT ![c] = x] /\ job' = [job EXCEPT ![c] = y]
    BY <1>0 DEF Free, Shape
  <2> HIDE DEF x, y
  <2> QED
    BY <1>0, <1>1, <1>2, <2>1, SetReq, SetJob DEF Shape
<1> HIDE DEF x, y
<1>4. \/ pc' = [pc EXCEPT ![c] = "complete"] /\ res' = res
      \/ pc' = [pc EXCEPT ![c] = "idle"] /\ res' = [res EXCEPT ![c] = e]
  BY DEF Free, Goto, Tell
<1>5. e \in Errors \cup {"ok"}
  BY <1>0 DEF Buffers
<1> HIDE DEF e
<1>6. /\ pc' \in [Callers -> PcType] /\ res' \in [Callers -> Errors \cup {"ok", "none", "EINPROGRESS"}]
      /\ pc'[c] = "complete" \/ (pc'[c] = "idle" /\ res'[c] = e)
      /\ \A d \in Callers \ {c} : pc'[d] = pc[d] /\ res'[d] = res[d]
  BY <1>0, <1>4, <1>5 DEF BaseType, PcType
<1>7. LockInv'
  <2>1. busy' = FALSE
    BY DEF Free
  <2>2. busy' \in BOOLEAN
    BY <2>1
  <2>3. BaseType'
    BY <1>0, <1>6, <2>2 DEF BaseType, Free
  <2>4. pc[c] \in InJob /\ pc'[c] \notin InJob \cup {"acquire"}
    BY <1>6 DEF Free, InJob
  <2> QED
    BY <1>0, <1>6, <2>1, <2>3, <2>4, LockRelease DEF Free
<1>8. CallerInv(c)'
  <2>1. req[c].iv = Iv /\ req[c].n > 0
    BY <1>0 DEF CallerInv, Free, InJob
  <2>2. Buffers(c)'
    BY <1>0, <1>1, <1>2, <1>3, <1>5, NatBounds DEF Buffers
  <2>3. CASE e = "ok"
    <3>1. Progress(c) /\ job[c].offset = req[c].n
      BY <1>0, <2>3 DEF CallerInv, Free, e
    <3>2. Runner(c) \in Keys
      BY <1>0 DEF LockInv, KeysPresent, Free, InJob, Runner, Parts
    <3>3. v = job[c].chain
      BY <2>3 DEF IvOut, e
    <3>4. Done(c)'
      BY <1>0, <1>1, <1>3, <2>1, <3>1, <3>2, <3>3, FreeDone
    <3> QED
      BY <1>2, <1>3, <1>6, <2>2, <2>3, <3>4 DEF CallerInv, InJob, Errors
  <2>4. CASE e # "ok"
    <3>1. v = Iv
      BY <2>1, <2>4 DEF IvOut, e
    <3> QED
      BY <1>1, <1>2, <1>3, <1>6, <2>2, <2>4, <3>1 DEF CallerInv, InJob
  <2> QED
    BY <2>3, <2>4
<1> QED
  BY <1>3, <1>6, <1>7, <1>8, OwnStep DEF Free

LEMMA CompleteStep ==
  ASSUME IndInv, NEW c \in Callers, Complete(c)
  PROVE  IndInv'
<1>0. BaseType /\ Shape /\ LockInv /\ CallerInv(c) /\ Buffers(c)
  BY DEF IndInv, LockInv, CallerInv
<1> DEFINE e == job[c].err
<1>1. pc' = [pc EXCEPT ![c] = "idle"] /\ res' = [res EXCEPT ![c] = e]
  BY DEF Complete, Goto, Tell
<1>2. e \in Errors \cup {"ok"}
  BY <1>0 DEF Buffers
<1> HIDE DEF e
<1>3. /\ pc' \in [Callers -> PcType] /\ res' \in [Callers -> Errors \cup {"ok", "none", "EINPROGRESS"}]
      /\ pc'[c] = "idle" /\ res'[c] = e
      /\ \A d \in Callers \ {c} : pc'[d] = pc[d] /\ res'[d] = res[d]
  BY <1>0, <1>1, <1>2 DEF BaseType, PcType
<1>4. BaseType'
  BY <1>0, <1>3 DEF BaseType, Complete
<1>5. LockInv'
  BY <1>0, <1>3, <1>4, LockQuiet DEF Complete, InJob
<1>6. Buffers(c)' /\ (Done(c) => Done(c)')
  BY <1>0 DEF Complete, Buffers, Done
<1>7. CallerInv(c)' /\ Shape'
  BY <1>0, <1>2, <1>3, <1>6 DEF CallerInv, Complete, InJob, Errors, Shape, e
<1> QED
  BY <1>3, <1>5, <1>7, OwnStep DEF Complete
-----------------------------------------------------------------------------
(* cbc_setkey() owns the transform, so no job sees a key change. *)

LEMMA SetterFrame ==
  ASSUME IndInv, LockInv', UNCHANGED <<native, pc, req, job, res>>,
         setter.pc # "idle" \/ UNCHANGED keys
  PROVE  IndInv'
<1>1. ASSUME NEW d \in Callers PROVE CallerInv(d)'
  <2>1. pc[d] \in InJob => UNCHANGED keys
    BY DEF IndInv, LockInv, Ownership
  <2> QED
    BY <2>1, CallerFrame DEF IndInv
<1> QED
  BY <1>1 DEF IndInv, Shape

LEMMA SetKeyStep ==
  ASSUME IndInv, NEW k \in Keys, SetKey(k)
  PROVE  IndInv'
<1>0. LockInv /\ BaseType
  BY DEF IndInv, LockInv
<1>1. setter'.pc = "encrypt" /\ setter'.key = k /\ setter.pc = "idle"
  BY DEF SetKey
<1>2. busy' = TRUE /\ keyed' = FALSE /\ ~busy
  BY DEF SetKey
<1>3. BaseType'
  <2>1. busy' \in BOOLEAN /\ keyed' \in BOOLEAN
    BY <1>2, Zenon
  <2>2. setter' \in [pc  : {"idle", "encrypt", "decrypt", "pad", "keyed", "release"},
                     key : Keys \cup {NoKey}]
    BY DEF SetKey
  <2> QED
    BY <1>0, <2>1, <2>2 DEF BaseType, SetKey
<1>4. Ownership'
  BY <1>0, <1>1, <1>2 DEF LockInv, Ownership, SetKey
<1>5. KeyProgress' /\ KeysAgree'
  BY <1>1 DEF KeyProgress, KeysAgree
<1>6. KeysPresent'
  BY <1>0, <1>2 DEF LockInv, KeysPresent, SetKey
<1> QED
  BY <1>3, <1>4, <1>5, <1>6, SetterFrame DEF SetKey, LockInv

LEMMA SetKeyPartStep ==
  ASSUME IndInv, SetKeyPart
  PROVE  IndInv'
<1>0. LockInv /\ BaseType /\ Ownership /\ KeyProgress /\ KeysPresent /\ KeysAgree
  BY DEF IndInv, LockInv
<1>1. setter.pc \in {"encrypt", "decrypt", "pad"} /\ setter.key \in Keys
  BY <1>0 DEF SetKeyPart, Parts, KeyProgress
<1>2. CASE /\ keys' = [keys EXCEPT ![setter.pc] = setter.key]
           /\ setter' = [setter EXCEPT !.pc = AfterPart[@]]
           /\ UNCHANGED faults
  <2>1. /\ setter'.key = setter.key
        /\ setter.pc = "encrypt" => setter'.pc = "decrypt"
        /\ setter.pc = "decrypt" => setter'.pc = "pad"
        /\ setter.pc = "pad" => setter'.pc = "keyed"
    BY <1>0, <1>2 DEF BaseType, AfterPart
  <2>2. \A x \in Parts : keys'[x] = IF x = setter.pc THEN setter.key ELSE keys[x]
    BY <1>0, <1>2 DEF BaseType
  <2>3. BaseType'
    <3>1. keys' \in [Parts -> Keys \cup {NoKey}]
      BY <1>0, <1>1, <1>2 DEF BaseType
    <3>2. setter' \in [pc  : {"idle", "encrypt", "decrypt", "pad", "keyed", "release"},
                       key : Keys \cup {NoKey}]
      BY <1>0, <1>1, <1>2, <2>1 DEF BaseType
    <3> QED
      BY <1>0, <1>2, <3>1, <3>2 DEF BaseType, SetKeyPart
  <2>4. Ownership'
    BY <1>0, <1>1, <2>1 DEF Ownership, SetKeyPart
  <2>5. KeyProgress'
    BY <1>0, <1>1, <2>1, <2>2 DEF KeyProgress, Parts
  <2>6. KeysPresent'
    BY <1>0, <1>1, <2>2 DEF KeysPresent, SetKeyPart, Parts
  <2>7. KeysAgree'
    BY <1>1, <2>1 DEF KeysAgree
  <2> QED
    BY <1>1, <2>3, <2>4, <2>5, <2>6, <2>7, SetterFrame DEF SetKeyPart, LockInv
<1>3. CASE /\ KeyFaults /\ Fault
           /\ setter' = [setter EXCEPT !.pc = "release"]
           /\ UNCHANGED keys
  <2>1. setter'.pc = "release"
    BY <1>0, <1>3 DEF BaseType
  <2>2. BaseType'
    <3>1. setter' \in [pc  : {"idle", "encrypt", "decrypt", "pad", "keyed", "release"},
                       key : Keys \cup {NoKey}]
      BY <1>0, <1>3 DEF BaseType
    <3> QED
      BY <1>0, <1>3, <3>1, FaultType DEF BaseType, SetKeyPart
  <2>3. Ownership'
    BY <1>0, <1>1, <2>1 DEF Ownership, SetKeyPart
  <2>4. KeyProgress' /\ KeysAgree'
    BY <1>3, <2>1 DEF KeyProgress, KeysAgree, Parts
  <2>5. KeysPresent'
    BY <1>0, <1>3 DEF KeysPresent, SetKeyPart
  <2> QED
    BY <1>3, <2>2, <2>3, <2>4, <2>5, SetterFrame DEF SetKeyPart, LockInv
<1> QED
  BY <1>2, <1>3 DEF SetKeyPart

LEMMA SetKeyDoneStep ==
  ASSUME IndInv, SetKeyDone
  PROVE  IndInv'
<1>0. LockInv /\ BaseType /\ Ownership /\ KeyProgress /\ KeysPresent /\ KeysAgree
  BY DEF IndInv, LockInv
<1>1. setter.pc = "keyed" /\ setter'.pc = "release" /\ keyed' = TRUE
  BY <1>0 DEF SetKeyDone, BaseType
<1>2. BaseType'
  <2>1. keyed' \in BOOLEAN
    BY <1>1, Zenon
  <2>2. setter' \in [pc  : {"idle", "encrypt", "decrypt", "pad", "keyed", "release"},
                     key : Keys \cup {NoKey}]
    BY <1>0 DEF SetKeyDone, BaseType
  <2> QED
    BY <1>0, <2>1, <2>2 DEF BaseType, SetKeyDone
<1>3. Ownership'
  BY <1>0, <1>1 DEF Ownership, SetKeyDone
<1>4. \A x \in Parts : keys[x] \in Keys /\ keys[x] = keys["encrypt"]
  BY <1>0, <1>1 DEF KeyProgress, Parts
<1>5. KeyProgress' /\ KeysPresent' /\ KeysAgree'
  BY <1>1, <1>4 DEF KeyProgress, KeysPresent, KeysAgree, SetKeyDone, Parts
<1> QED
  BY <1>2, <1>3, <1>5, SetterFrame DEF SetKeyDone, LockInv

LEMMA SetKeyReleaseStep ==
  ASSUME IndInv, SetKeyRelease
  PROVE  IndInv'
<1>0. LockInv /\ BaseType /\ Ownership /\ KeyProgress /\ KeysPresent /\ KeysAgree
  BY DEF IndInv, LockInv
<1>1. setter.pc = "release" /\ setter'.pc = "idle" /\ busy' = FALSE
  BY DEF SetKeyRelease
<1>2. BaseType'
  <2>1. busy' \in BOOLEAN
    BY <1>1, Zenon
  <2>2. setter' \in [pc  : {"idle", "encrypt", "decrypt", "pad", "keyed", "release"},
                     key : Keys \cup {NoKey}]
    BY DEF SetKeyRelease
  <2> QED
    BY <1>0, <2>1, <2>2 DEF BaseType, SetKeyRelease
<1>3. Ownership'
  BY <1>0, <1>1 DEF Ownership, SetKeyRelease
<1>4. KeyProgress' /\ KeysPresent' /\ KeysAgree'
  BY <1>0, <1>1 DEF KeyProgress, KeysPresent, KeysAgree, SetKeyRelease, Parts
<1> QED
  BY <1>2, <1>3, <1>4, SetterFrame DEF SetKeyRelease, LockInv

LEMMA IndStep == IndInv /\ [Next]_vars => IndInv'
<1> SUFFICES ASSUME IndInv, [Next]_vars PROVE IndInv'
  OBVIOUS
<1>1. CASE NewCall
  <2>1. PICK c \in Callers :
          \/ \E n \in 0 .. MaxBlocks, encrypt, inplace \in BOOLEAN :
               Call(c, encrypt, n, inplace, TRUE)
          \/ Call(c, TRUE, 0, FALSE, FALSE)
    BY <1>1 DEF NewCall
  <2>2. 0 \in 0 .. MaxBlocks /\ TRUE \in BOOLEAN /\ FALSE \in BOOLEAN
    BY BoundsAssumption
  <2> QED
    BY <2>1, <2>2, CallStep
<1>2. ASSUME NEW c \in Callers, CallerStep(c) PROVE IndInv'
  <2>1. CASE SubmitFails(c)
    <3>1. PICK e \in {"ENOMEM", "ENOBUFS", "EIO"} : job' = [job EXCEPT ![c].err = e]
      BY <2>1 DEF SubmitFails
    <3> QED
      BY <2>1, <3>1, ErrorStep DEF SubmitFails, Errors
  <2> QED
    BY <1>2, <2>1, AcquireStep, AllocStep, AllocFailsStep, SubmitStep, HardwareDoneStep,
       ConsumeStep, FreeStep, CompleteStep DEF CallerStep
<1>3. CASE UNCHANGED vars
  <2>1. LockInv'
    BY <1>3 DEF vars, IndInv, LockInv, BaseType, Ownership, KeyProgress, KeysPresent, KeysAgree
  <2> QED
    BY <1>3, <2>1, SetterFrame DEF vars
<1> QED
  BY <1>1, <1>2, <1>3, SetKeyStep, SetKeyPartStep, SetKeyDoneStep, SetKeyReleaseStep
     DEF Next, SetterStep

LEMMA Inductive == Spec => []IndInv
BY InitInv, IndStep, PTL DEF Spec

-----------------------------------------------------------------------------
(* Requests, jobs, keys and answers stay what the driver can hold. *)
THEOREM TypeCorrect == Spec => []TypeOK
<1>1. IndInv => TypeOK
  <2> SUFFICES ASSUME IndInv PROVE TypeOK
    OBVIOUS
  <2>1. ASSUME NEW c \in Callers
        PROVE  /\ req[c].n \in 0 .. MaxBlocks
               /\ Len(req[c].src) = req[c].n /\ Len(req[c].dst) = req[c].n
               /\ job[c].offset \in 0 .. req[c].n
               /\ job[c].err \in Errors \cup {"ok"}
    <3>1. Buffers(c)
      BY DEF IndInv, CallerInv
    <3> QED
      BY <3>1, NatBounds, BufLen DEF Buffers
  <2> QED
    BY <2>1 DEF IndInv, LockInv, BaseType, TypeOK, PcType
<1> QED
  BY <1>1, Inductive, PTL

(* However many chunks, in either mode, in place or not, answered at once  *)
(* or later, and whatever other threads and key changes do: a request that *)
(* succeeded is the CBC of its input under one key, with the right IV.     *)
THEOREM ResultIsCbc == Spec => []CbcResult
<1>1. IndInv => CbcResult
  <2> SUFFICES ASSUME IndInv, NEW c \in Callers, Answered(c), res[c] = "ok", req[c].n > 0
               PROVE  Done(c)
    BY DEF CbcResult, Done
  <2> QED
    BY DEF IndInv, CallerInv, Answered
<1> QED
  BY <1>1, Inductive, PTL

(* A failed request hands back the IV it came with. *)
THEOREM FailedKeepsIv == Spec => []FailureKeepsIv
<1>1. IndInv => FailureKeepsIv
  BY DEF IndInv, CallerInv, FailureKeepsIv, Answered
<1> QED
  BY <1>1, Inductive, PTL

(* The exchange on ctx->busy admits one job or one change of key, and      *)
(* every way out of either clears it.                                      *)
THEOREM OneOwner == Spec => []ExclusiveUse
<1>1. IndInv => ExclusiveUse
  <2> SUFFICES ASSUME IndInv PROVE ExclusiveUse
    OBVIOUS
  <2>0. Ownership /\ busy \in BOOLEAN
    BY DEF IndInv, LockInv, BaseType
  <2>1. CASE ~busy
    <3>1. Owners = {}
      BY <2>0, <2>1 DEF Ownership, Owners
    <3> QED
      BY <2>1, <3>1, FS_EmptySet DEF ExclusiveUse
  <2>2. CASE busy
    <3>1. \E o : Owners = {o}
      <4>1. CASE setter.pc # "idle"
        <5>1. Owners = {"setter"}
          BY <2>0, <4>1 DEF Ownership, Owners
        <5> QED
          BY <5>1
      <4>2. CASE setter.pc = "idle"
        <5>1. PICK c \in Callers : pc[c] \in InJob
          BY <2>0, <2>2, <4>2 DEF Ownership
        <5>2. Owners = {c}
          BY <2>0, <4>2, <5>1 DEF Ownership, Owners
        <5> QED
          BY <5>2
      <4> QED
        BY <4>1, <4>2
    <3> QED
      BY <2>2, <3>1, FS_Singleton DEF ExclusiveUse
  <2> QED
    BY <2>0, <2>1, <2>2
<1> QED
  BY <1>1, Inductive, PTL

(* If no change of key fails half way, every job runs on three keys that   *)
(* are there and equal: the race the driver is exposed to needs a failing  *)
(* crypto_aead_setkey or crypto_cipher_setkey.                             *)
THEOREM KeyedUnlessKeyFaults ==
  ASSUME ~KeyFaults
  PROVE  Spec => []KeyedJobsOnly
<1>1. IndInv => KeyedJobsOnly
  <2> SUFFICES ASSUME IndInv, NEW c \in Callers, pc[c] \in InJob
               PROVE  keys["encrypt"] # NoKey /\ \A x \in Parts : keys[x] = keys["encrypt"]
    BY DEF KeyedJobsOnly
  <2>1. setter.pc = "idle" /\ \A x \in Parts : keys[x] \in Keys
    BY DEF IndInv, LockInv, Ownership, KeysPresent
  <2>2. keys["encrypt"] # NoKey
    BY <2>1, KeysAssumption DEF Parts
  <2> QED
    BY <2>1, <2>2 DEF IndInv, LockInv, KeysAgree
<1> QED
  BY <1>1, Inductive, PTL
=============================================================================
