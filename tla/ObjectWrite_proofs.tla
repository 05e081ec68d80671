---------------------------- MODULE ObjectWrite_proofs ----------------------------
(***************************************************************************)
(* The safety properties of ObjectWrite, for any writers, bodies, part      *)
(* sizes, limits and retries.                                              *)
(*                                                                         *)
(* First the sizes: how many parts a body has, and that laid end to end    *)
(* they are the body.  Then two invariants, neither of which the           *)
(* properties give by themselves.                                          *)
(*                                                                         *)
(* WritesInv is about uploads: that one which was aborted or completed     *)
(* stays away depends on no request that is still on its way being a       *)
(* creation of that upload.  A repeated create() makes another one, named  *)
(* by its attempt, and the call knows the last.                            *)
(*                                                                         *)
(* ContentInv is about what requests carry: every one that may still be    *)
(* executed is rightful, so that executing it, whenever that is, publishes *)
(* a whole body, or stores a part of one.                                  *)
(***************************************************************************)
EXTENDS ObjectWrite, Integers, FiniteSetTheorems, TLAPS

(* Sizes: the parts of a body. *)

\* The quotient, and products.
LEMMA Division ==
  ASSUME NEW a \in Nat, NEW b \in Nat \ {0}
  PROVE  /\ a \div b \in Nat
         /\ b * (a \div b) <= a
         /\ a < b * (a \div b) + b
OBVIOUS

LEMMA ProductIsMonotone ==
  ASSUME NEW a \in Int, NEW b \in Int, NEW c \in Nat, a <= b
  PROVE  a * c <= b * c
OBVIOUS

\* The quotient rounded up.
LEMMA CeilDivBounds ==
  ASSUME NEW a \in Nat, NEW b \in Nat \ {0}
  PROVE  /\ CeilDiv(a, b) \in Nat
         /\ a <= CeilDiv(a, b) * b
         /\ CeilDiv(a, b) * b < a + b
PROOF
<1> DEFINE n == a + b - 1
           q == n \div b
<1>1. n \in Nat
  OBVIOUS
<1> HIDE DEF n
<1>2. q \in Nat /\ b * q <= n /\ n < b * q + b
  BY <1>1, Division
<1>3. b * q = q * b
  BY <1>2
<1>4. CeilDiv(a, b) = q
  BY DEF CeilDiv, n
<1> HIDE DEF q
<1> QED  BY <1>2, <1>3, <1>4 DEF n

\* A multiple that is no larger than another one plus less than the factor.
LEMMA MultiplesApart ==
  ASSUME NEW m \in Int, NEW n \in Int, NEW c \in Nat \ {0}, m * c < n * c + c
  PROVE  m <= n
PROOF
<1>1. ASSUME n + 1 <= m PROVE FALSE
  <2>1. (n + 1) * c <= m * c
    BY <1>1, ProductIsMonotone
  <2>2. (n + 1) * c = n * c + c
    OBVIOUS
  <2> QED  BY <2>1, <2>2
<1> QED  BY <1>1

\* Parts are not below the gateway's minimum, and large enough that MaxParts of
\* them hold the body.
LEMMA PartSizeBounds ==
  ASSUME NEW total \in Nat
  PROVE  /\ EffectivePartSize(total) \in Nat \ {0}
         /\ MinPart <= EffectivePartSize(total)
         /\ total <= MaxParts * EffectivePartSize(total)
PROOF
<1> DEFINE large == CeilDiv(total, MaxParts)
           units == CeilDiv(large, Unit)
           n     == CeilDiv(total, PartSize)
<1>1. /\ MinPart \in Nat \ {0} /\ MaxParts \in Nat \ {0} /\ Unit \in Nat \ {0} /\ Requested \in Nat
  BY SizesAssumption
<1>2. PartSize \in Nat \ {0} /\ MinPart <= PartSize
  BY <1>1 DEF PartSize, Larger
<1>3. n \in Nat /\ total <= n * PartSize /\ n * PartSize < total + PartSize
  BY <1>2, CeilDivBounds
<1>4. large \in Nat /\ total <= large * MaxParts
  BY <1>1, CeilDivBounds
<1>5. units \in Nat /\ large <= units * Unit
  BY <1>1, <1>4, CeilDivBounds
<1> HIDE DEF large, units, n
<1>6. CASE n <= MaxParts
  <2>1. EffectivePartSize(total) = PartSize
    BY <1>6 DEF EffectivePartSize, n
  <2>2. n * PartSize <= MaxParts * PartSize
    BY <1>1, <1>2, <1>3, <1>6, ProductIsMonotone
  <2>3. n * PartSize \in Nat /\ MaxParts * PartSize \in Nat
    BY <1>1, <1>2, <1>3
  <2> QED  BY <1>2, <1>3, <2>1, <2>2, <2>3
<1>7. CASE ~(n <= MaxParts)
  <2> DEFINE e == units * Unit
  <2>1. EffectivePartSize(total) = e
    BY <1>7 DEF EffectivePartSize, n, large, units
  <2>2. e \in Nat
    BY <1>1, <1>5
  <2> HIDE DEF e
  <2>3. large <= e
    BY <1>5 DEF e
  <2>4. large * MaxParts <= e * MaxParts /\ e * MaxParts = MaxParts * e /\ large * MaxParts \in Nat /\ e * MaxParts \in Nat
    BY <1>1, <1>4, <2>2, <2>3, ProductIsMonotone
  <2>5. total <= MaxParts * e
    BY <1>4, <2>2, <2>4
  <2>6. PartSize <= e
    <3>1. MaxParts + 1 <= n
      BY <1>1, <1>3, <1>7
    <3>2. (MaxParts + 1) * PartSize <= n * PartSize
      BY <1>1, <1>2, <1>3, <3>1, ProductIsMonotone
    <3>3. (MaxParts + 1) * PartSize = MaxParts * PartSize + PartSize /\ MaxParts * PartSize = PartSize * MaxParts
          /\ n * PartSize \in Nat /\ MaxParts * PartSize \in Nat
      BY <1>1, <1>2, <1>3
    <3>4. PartSize * MaxParts < e * MaxParts + MaxParts
      BY <1>1, <1>2, <1>3, <2>2, <2>4, <2>5, <3>2, <3>3
    <3> QED  BY <1>1, <1>2, <2>2, <3>4, MultiplesApart
  <2> QED  BY <1>1, <1>2, <2>1, <2>2, <2>5, <2>6
<1> QED  BY <1>6, <1>7

\* The parts hold the body, and one fewer would not; no more than MaxParts, and
\* not more than there would be of the smallest size.
LEMMA PartCountBounds ==
  ASSUME NEW total \in Nat
  PROVE  /\ PartCount(total) \in Nat
         /\ total <= PartCount(total) * EffectivePartSize(total)
         /\ PartCount(total) * EffectivePartSize(total) < total + EffectivePartSize(total)
         /\ PartCount(total) <= MaxParts
         /\ PartCount(total) <= CeilDiv(total, MinPart)
PROOF
<1> DEFINE e == EffectivePartSize(total)
           n == PartCount(total)
           k == CeilDiv(total, MinPart)
<1>1. e \in Nat \ {0} /\ MinPart <= e /\ total <= MaxParts * e
  BY PartSizeBounds
<1>2. MinPart \in Nat \ {0} /\ MaxParts \in Nat \ {0}
  BY SizesAssumption
<1>3. n = CeilDiv(total, e)
  BY DEF PartCount
<1> HIDE DEF e, n
<1>4. n \in Nat /\ total <= n * e /\ n * e < total + e
  BY <1>1, <1>3, CeilDivBounds
<1>5. k \in Nat /\ total <= k * MinPart
  BY <1>2, CeilDivBounds
<1> HIDE DEF k
<1>6. n <= MaxParts
  <2>1. n * e < MaxParts * e + e
    BY <1>1, <1>2, <1>4
  <2> QED  BY <1>1, <1>2, <1>4, <2>1, MultiplesApart
<1>7. n <= k
  <2>1. MinPart * k <= e * k
    BY <1>1, <1>2, <1>5, ProductIsMonotone
  <2>2. MinPart * k = k * MinPart /\ e * k = k * e /\ k * MinPart \in Nat /\ k * e \in Nat /\ n * e \in Nat
    BY <1>1, <1>2, <1>4, <1>5
  <2>3. n * e < k * e + e
    BY <1>1, <1>4, <1>5, <2>1, <2>2
  <2> QED  BY <1>1, <1>4, <1>5, <2>3, MultiplesApart
<1> QED  BY <1>4, <1>6, <1>7 DEF e, n, k

\* Laid end to end, the parts are the body.
LEMMA SlicesCover ==
  ASSUME NEW total \in Nat
  PROVE  UNION {Slice(total, p) : p \in 1..PartCount(total)} = Body(total)
PROOF
<1> DEFINE e == EffectivePartSize(total)
           n == PartCount(total)
<1>1. e \in Nat \ {0} /\ n \in Nat /\ total <= n * e
  BY PartSizeBounds, PartCountBounds
<1>2. \A p : Slice(total, p) = {b \in Body(total) : (p - 1) * e <= b /\ b < p * e}
  BY DEF Slice
<1> HIDE DEF e, n
<1>3. ASSUME NEW b \in Body(total) PROVE \E p \in 1..n : b \in Slice(total, p)
  <2> DEFINE q == b \div e
  <2>1. b \in Nat /\ b < total
    BY DEF Body
  <2>2. q \in Nat /\ e * q <= b /\ b < e * q + e
    BY <1>1, <2>1, Division
  <2> HIDE DEF q
  <2>3. e * q = q * e /\ (q + 1) * e = q * e + e /\ (q + 1) - 1 = q /\ q * e \in Nat /\ n * e \in Nat
    BY <1>1, <2>2
  <2>4. q + 1 \in 1..n
    <3>1. (q + 1) * e < n * e + e
      BY <1>1, <2>1, <2>2, <2>3
    <3>2. q + 1 <= n
      BY <1>1, <2>2, <3>1, MultiplesApart
    <3> QED  BY <1>1, <2>2, <3>2
  <2>5. ((q + 1) - 1) * e <= b /\ b < (q + 1) * e
    BY <2>1, <2>2, <2>3
  <2>6. b \in Slice(total, q + 1)
    BY <1>2, <2>5
  <2> QED  BY <2>4, <2>6
<1>4. \A p \in 1..n : Slice(total, p) \subseteq Body(total)
  BY <1>2
<1> QED  BY <1>3, <1>4 DEF n

\* No byte is in two parts.
LEMMA SlicesAreDisjoint ==
  ASSUME NEW total \in Nat, NEW p \in Nat, NEW q \in Nat, p # q
  PROVE  Slice(total, p) \cap Slice(total, q) = {}
PROOF
<1> DEFINE e == EffectivePartSize(total)
<1>1. e \in Nat \ {0}
  BY PartSizeBounds
<1>2. \A r : Slice(total, r) = {b \in Body(total) : (r - 1) * e <= b /\ b < r * e}
  BY DEF Slice
<1> HIDE DEF e
<1>3. ASSUME NEW r \in Nat, NEW s \in Nat, r < s, NEW b \in Slice(total, r), b \in Slice(total, s) PROVE FALSE
  <2>1. b \in Nat /\ b < r * e /\ (s - 1) * e <= b
    BY <1>2, <1>3 DEF Body
  <2>2. r * e <= (s - 1) * e
    BY <1>1, <1>3, ProductIsMonotone
  <2>3. r * e \in Nat /\ (s - 1) * e \in Int
    BY <1>1
  <2> QED  BY <2>1, <2>2, <2>3
<1>4. p < q \/ q < p
  OBVIOUS
<1> QED  BY <1>3, <1>4

\* None but the last is below the gateway's minimum.
LEMMA SlicesAreLongEnough ==
  ASSUME NEW total \in Nat, NEW p \in 1..(PartCount(total) - 1)
  PROVE  Cardinality(Slice(total, p)) >= MinPart
PROOF
<1> DEFINE e == EffectivePartSize(total)
           n == PartCount(total)
           a == (p - 1) * e
<1>1. e \in Nat \ {0} /\ MinPart <= e /\ MinPart \in Nat
  BY PartSizeBounds, SizesAssumption
<1>2. n \in Nat /\ n * e < total + e
  BY PartCountBounds
<1>3. p \in Nat \ {0} /\ p <= n - 1
  BY <1>2
<1>4. Slice(total, p) = {b \in Body(total) : (p - 1) * e <= b /\ b < p * e}
  BY DEF Slice
<1> HIDE DEF e, n
<1>5. a \in Nat /\ p * e = a + e /\ p * e \in Nat /\ n * e \in Nat
  BY <1>1, <1>2, <1>3
<1>6. p * e < total
  <2>1. (p + 1) * e <= n * e
    BY <1>1, <1>2, <1>3, ProductIsMonotone
  <2>2. (p + 1) * e = p * e + e
    BY <1>1, <1>3
  <2> QED  BY <1>1, <1>2, <1>5, <2>1, <2>2
<1> HIDE DEF a
<1>7. Slice(total, p) = a..(a + e - 1)
  BY <1>1, <1>4, <1>5, <1>6 DEF Body, a
<1>8. Cardinality(a..(a + e - 1)) = e
  <2>1. a \in Int /\ a + e - 1 \in Int /\ a <= a + e - 1
    BY <1>1, <1>5
  <2>2. Cardinality(a..(a + e - 1)) = IF a > a + e - 1 THEN 0 ELSE (a + e - 1) - a + 1
    BY <2>1, FS_Interval
  <2> QED  BY <1>1, <1>5, <2>1, <2>2
<1> QED  BY <1>1, <1>7, <1>8

-----------------------------------------------------------------------------
(* What a call leaves at the gateway. *)

KnownUploads == [by : Writers, n : Nat]

WritesTyped ==
  /\ stage \in [Writers -> Stages] /\ req \in [Writers -> {"none", "sent", "ok", "gone"}]
  /\ tries \in [Writers -> Nat] /\ upload \in [Writers -> KnownUploads \cup {NoUpload}]
  /\ uploads \subseteq KnownUploads
  /\ \A m \in late : m.by \in Writers /\ m.part \in Nat

\* A call has a request only where it waits for one, and an upload, its own,
\* only after create() has returned.
StageInv(w) ==
  /\ stage[w] \in {"idle", "parts", "done", "failed"} => req[w] = "none"
  /\ stage[w] \in {"idle", "put", "append", "create"} => upload[w] = NoUpload
  /\ upload[w] # NoUpload => upload[w].by = w
  /\ req[w] = "gone" => stage[w] = "complete"

\* No creation on its way is of the upload the call knows, or will know.
FreshInv(w) ==
  \A m \in late : m.kind = "create" /\ m.by = w =>
    /\ stage[w] # "idle" /\ Named(m) # upload[w]
    /\ stage[w] = "create" => m.part < tries[w]

GoneInv(w) ==
  /\ stage[w] \in {"complete", "abort"} /\ req[w] \in {"ok", "gone"} => upload[w] \notin uploads
  /\ stage[w] = "done" => upload[w] \notin uploads
  /\ stage[w] = "failed" /\ upload[w] \in uploads =>
       \E m \in late : m.kind = "abort" /\ m.by = w /\ m.upload = upload[w]

WriterInv(w) == StageInv(w) /\ FreshInv(w) /\ GoneInv(w)
WritesInv == WritesTyped /\ \A w \in Writers : WriterInv(w)

LEMMA InitWritesInv == Init => WritesInv
BY DEF Init, WritesInv, WritesTyped, WriterInv, StageInv, FreshInv, GoneInv, Stages

LEMMA NobodysUpload == NoUpload \notin KnownUploads
BY WritersAssumption DEF NoUpload, KnownUploads

\* What a request does to the uploads.
LEMMA ExecutedUploads ==
  ASSUME NEW m, Execute(m)
  PROVE  /\ m.kind # "create" => uploads' \subseteq uploads
         /\ m.kind = "create" => uploads' = uploads \cup {Named(m)}
         /\ m.kind = "abort" => m.upload \notin uploads'
         /\ m.kind = "complete" => m.upload \notin uploads'
BY DEF Execute, Finds, gateway

\* A creation on its way is of an upload that no call knows.
LEMMA CreationsAreNew ==
  ASSUME WritesInv, NEW m, m.kind = "create", NEW v \in Writers,
         m \in late \/ \E w \in Writers : req[w] = "sent" /\ m = Message(w)
  PROVE  Named(m) # upload[v] /\ Named(m) \in KnownUploads
PROOF
<1>1. Named(m) = [by |-> m.by, n |-> m.part]
  BY DEF Named
<1>2. m.by \in Writers /\ m.part \in Nat /\ Named(m) # upload[m.by]
  <2>1. CASE m \in late
    BY <2>1 DEF WritesInv, WritesTyped, WriterInv, FreshInv
  <2>2. ASSUME NEW w \in Writers, m = Message(w)
        PROVE  m.by \in Writers /\ m.part \in Nat /\ Named(m) # upload[m.by]
    <3>1. m.by = w /\ m.part = tries[w] /\ stage[w] = "create"
      BY <2>2 DEF Message
    <3>2. tries[w] \in Nat /\ upload[w] = NoUpload
      BY <3>1 DEF WritesInv, WritesTyped, WriterInv, StageInv
    <3>3. Named(m) \in KnownUploads
      BY <1>1, <3>1, <3>2 DEF KnownUploads
    <3> QED  BY <3>1, <3>2, <3>3, NobodysUpload
  <2> QED  BY <2>1, <2>2
<1>3. Named(m) \in KnownUploads
  BY <1>1, <1>2 DEF KnownUploads
<1>4. upload[v] # NoUpload => upload[v].by = v
  BY DEF WritesInv, WriterInv, StageInv
<1>5. Named(m).by = m.by
  BY <1>1
<1>6. CASE v = m.by
  BY <1>2, <1>3, <1>6
<1>7. CASE v # m.by
  <2>1. Named(m) = upload[v] => upload[v] = NoUpload
    BY <1>4, <1>5, <1>7
  <2> QED  BY <1>3, <2>1, NobodysUpload
<1> QED  BY <1>6, <1>7

\* What is said of a writer goes on to hold while uploads that are not its own
\* come, and requests that are not its own come and go.
LEMMA WriterRests ==
  ASSUME WritesTyped, NEW w \in Writers, WriterInv(w),
         stage'[w] = stage[w], req'[w] = req[w], tries'[w] = tries[w], upload'[w] = upload[w],
         upload[w] \in uploads' => upload[w] \in uploads,
         \A m \in late' : m.by = w /\ m.kind = "create" => m \in late,
         \A m \in late : m.by = w /\ m.kind = "abort" /\ m.upload = upload[w] =>
           m \in late' \/ upload[w] \notin uploads'
  PROVE  WriterInv(w)'
PROOF
<1>1. StageInv(w)'
  BY DEF WriterInv, StageInv
<1>2. FreshInv(w)'
  BY DEF WriterInv, FreshInv, Named
<1>3. GoneInv(w)'
  BY DEF WriterInv, GoneInv
<1> QED  BY <1>1, <1>2, <1>3 DEF WriterInv

-----------------------------------------------------------------------------
LEMMA ServeLateInv ==
  ASSUME WritesInv, NEW m \in late, ServeLate(m)
  PROVE  WritesInv'
PROOF
<1>1. /\ Execute(m) /\ late' = late \ {m}
      /\ UNCHANGED <<stage, req, tries, upload>>
  BY DEF ServeLate, call, workers
<1>2. m.by \in Writers /\ m.part \in Nat
  BY DEF WritesInv, WritesTyped
<1>3. m.kind = "create" => Named(m) = [by |-> m.by, n |-> m.part]
  BY DEF Named
<1>4. uploads' \subseteq KnownUploads
  BY <1>1, <1>2, <1>3, ExecutedUploads DEF WritesInv, WritesTyped, KnownUploads
<1>5. WritesTyped'
  BY <1>1, <1>4 DEF WritesInv, WritesTyped
<1>6. ASSUME NEW w \in Writers PROVE WriterInv(w)'
  <2>1. WritesTyped /\ WriterInv(w)
    BY DEF WritesInv
  <2>2. upload[w] \in uploads' => upload[w] \in uploads
    <3>1. CASE m.kind # "create"
      BY <1>1, <3>1, ExecutedUploads
    <3>2. CASE m.kind = "create"
      <4>1. Named(m) # upload[w]
        BY <3>2, CreationsAreNew
      <4> QED  BY <1>1, <3>2, <4>1, ExecutedUploads
    <3> QED  BY <3>1, <3>2
  <2>3. m.kind = "abort" => m.upload \notin uploads'
    BY <1>1, ExecutedUploads
  <2> QED  BY <1>1, <2>1, <2>2, <2>3, WriterRests
<1> QED  BY <1>5, <1>6 DEF WritesInv

LEMMA ServeInv ==
  ASSUME WritesInv, NEW w \in Writers, Serve(w)
  PROVE  WritesInv'
PROOF
<1>1. PICK m : /\ m = Message(w) /\ Execute(m) /\ req[w] = "sent"
               /\ req' = [req EXCEPT ![w] = IF Finds(m) THEN "ok" ELSE "gone"]
               /\ UNCHANGED <<stage, tries, upload, late>>
  BY DEF Serve
<1>2. /\ m.kind = stage[w] /\ m.by = w /\ m.upload = upload[w]
      /\ stage[w] = "create" => m.part = tries[w]
  BY <1>1 DEF Message
<1>3. m.kind = "create" => Named(m) = [by |-> w, n |-> tries[w]]
  BY <1>2 DEF Named
<1>4. uploads' \subseteq KnownUploads
  BY <1>1, <1>3, ExecutedUploads DEF WritesInv, WritesTyped, KnownUploads
<1>5. req' \in [Writers -> {"none", "sent", "ok", "gone"}]
  BY <1>1 DEF WritesInv, WritesTyped
<1>6. WritesTyped'
  BY <1>1, <1>4, <1>5 DEF WritesInv, WritesTyped
<1>7. ASSUME NEW v \in Writers PROVE upload[v] \in uploads' => upload[v] \in uploads
  <2>1. CASE m.kind # "create"
    BY <1>1, <2>1, ExecutedUploads
  <2>2. CASE m.kind = "create"
    <3>1. Named(m) # upload[v]
      BY <1>1, <2>2, CreationsAreNew
    <3> QED  BY <1>1, <2>2, <3>1, ExecutedUploads
  <2> QED  BY <2>1, <2>2
<1>8. ASSUME NEW v \in Writers, v # w PROVE WriterInv(v)'
  <2>1. req'[v] = req[v]
    BY <1>1, <1>8 DEF WritesInv, WritesTyped
  <2> QED  BY <1>1, <1>7, <2>1, WriterRests DEF WritesInv
<1>9. WriterInv(w)'
  <2>1. WriterInv(w) /\ stage[w] \notin {"idle", "parts", "done", "failed"}
    BY <1>1 DEF WritesInv, WriterInv, StageInv
  <2>2. FreshInv(w)'
    BY <1>1, <2>1 DEF WriterInv, FreshInv, Named
  <2>5. StageInv(w)'
    <3>1. req'[w] = "gone" => stage[w] = "complete"
      BY <1>1, <1>2 DEF WritesInv, WritesTyped, Stages, Finds
    <3> QED  BY <1>1, <2>1, <3>1 DEF WriterInv, StageInv
  <2>3. stage[w] \in {"complete", "abort"} => upload[w] \notin uploads'
    BY <1>1, <1>2, ExecutedUploads
  <2>4. GoneInv(w)'
    BY <1>1, <2>1, <2>3 DEF GoneInv
  <2> QED  BY <2>2, <2>5, <2>4 DEF WriterInv
<1> QED  BY <1>6, <1>8, <1>9 DEF WritesInv

LEMMA ServePartInv ==
  ASSUME WritesInv, NEW w \in Writers, NEW p \in PartNumbers, ServePart(w, p)
  PROVE  WritesInv'
PROOF
<1>1. Execute(PartMessage(w, p)) /\ UNCHANGED <<stage, req, tries, upload, late>>
  BY DEF ServePart, call
<1>2. uploads' \subseteq uploads
  BY <1>1, ExecutedUploads DEF PartMessage
<1>3. WritesTyped'
  BY <1>1, <1>2 DEF WritesInv, WritesTyped
<1>4. ASSUME NEW v \in Writers PROVE WriterInv(v)'
  BY <1>1, <1>2, WriterRests DEF WritesInv
<1> QED  BY <1>3, <1>4 DEF WritesInv

-----------------------------------------------------------------------------
\* A call goes to stage s, knowing the upload u or none.
Reaches(w, s, u) ==
  /\ GoTo(w, s) /\ s \in Stages \ {"idle"} /\ uploads' = uploads
  /\ u \in KnownUploads \cup {NoUpload} /\ upload' = [upload EXCEPT ![w] = u]
  /\ (u # NoUpload) => (u.by = w)
  /\ (s \in {"put", "append", "create"}) => (u = NoUpload)
  /\ late \subseteq late' /\ \A m \in late' : m.by \in Writers /\ m.part \in Nat
  /\ \A m \in late' \ late : m.by = w
  /\ \A m \in late' : (m.kind = "create" /\ m.by = w) => (s # "create" /\ Named(m) # u)
  /\ (s = "done") => (u \notin uploads)
  /\ (s = "failed" /\ u \in uploads) => \E m \in late' : m.kind = "abort" /\ m.by = w /\ m.upload = u

LEMMA ReachesInv ==
  ASSUME WritesInv, NEW w \in Writers, NEW s, NEW u, Reaches(w, s, u)
  PROVE  WritesInv'
PROOF
<1>1. /\ stage' = [stage EXCEPT ![w] = s]
      /\ req' = [req EXCEPT ![w] = IF s \in {"done", "failed", "parts"} THEN "none" ELSE "sent"]
      /\ tries' = [tries EXCEPT ![w] = 0]
  BY DEF Reaches, GoTo, Settled
<1>2. WritesTyped'
  <2>1. /\ stage' \in [Writers -> Stages] /\ tries' \in [Writers -> Nat]
        /\ req' \in [Writers -> {"none", "sent", "ok", "gone"}]
    BY <1>1 DEF Reaches, WritesInv, WritesTyped
  <2> QED  BY <2>1 DEF Reaches, WritesInv, WritesTyped
<1>3. ASSUME NEW v \in Writers, v # w PROVE WriterInv(v)'
  <2>1. stage'[v] = stage[v] /\ req'[v] = req[v] /\ tries'[v] = tries[v] /\ upload'[v] = upload[v]
    BY <1>1, <1>3 DEF Reaches, WritesInv, WritesTyped
  <2>2. /\ WritesTyped /\ WriterInv(v)
        /\ upload[v] \in uploads' => upload[v] \in uploads
    BY DEF Reaches, WritesInv
  <2>3. /\ \A m \in late' : m.by = v /\ m.kind = "create" => m \in late
        /\ late \subseteq late'
    BY <1>3 DEF Reaches
  <2> QED  BY <2>1, <2>2, <2>3, WriterRests
<1>4. WriterInv(w)'
  <2>1. /\ stage'[w] = s /\ upload'[w] = u
        /\ req'[w] = IF s \in {"done", "failed", "parts"} THEN "none" ELSE "sent"
    BY <1>1 DEF Reaches, WritesInv, WritesTyped
  <2>2. StageInv(w)'
    BY <2>1 DEF StageInv, Reaches
  <2>3. FreshInv(w)'
    BY <2>1 DEF FreshInv, Named, Reaches
  <2>4. GoneInv(w)'
    BY <2>1 DEF GoneInv, Reaches
  <2> QED  BY <2>2, <2>3, <2>4 DEF WriterInv
<1> QED  BY <1>2, <1>3, <1>4 DEF WritesInv

LEMMA BeginInv ==
  ASSUME WritesInv, NEW w \in Writers, NEW how \in {"put", "append"}, NEW size \in Sizes[w], Begin(w, how, size)
  PROVE  WritesInv'
PROOF
<1>1. PICK s \in {"put", "append", "create"} : GoTo(w, s)
  BY DEF Begin
<1>2. stage[w] = "idle" /\ uploads' = uploads /\ upload' = upload /\ late' = late
  BY DEF Begin, gateway
<1>3. upload[w] = NoUpload /\ \A m \in late : ~(m.kind = "create" /\ m.by = w)
  BY <1>2 DEF WritesInv, WriterInv, StageInv, FreshInv
<1>4. upload' = [upload EXCEPT ![w] = NoUpload]
  BY <1>2, <1>3 DEF WritesInv, WritesTyped
<1>5. \A m \in late' : m.by \in Writers /\ m.part \in Nat
  BY <1>2 DEF WritesInv, WritesTyped
<1>6. s \in Stages \ {"idle"}
  BY DEF Stages
<1>7. Reaches(w, s, NoUpload)
  BY <1>1, <1>2, <1>3, <1>4, <1>5, <1>6 DEF Reaches
<1> QED  BY <1>7, ReachesInv

LEMMA ReplyInv ==
  ASSUME WritesInv, NEW w \in Writers, Reply(w)
  PROVE  WritesInv'
PROOF
<1>1. /\ req[w] \in {"ok", "gone"} /\ uploads' = uploads /\ late' = late
      /\ GoTo(w, IF req[w] = "ok" THEN AfterReply(stage[w]) ELSE AfterFailure(stage[w]))
      /\ upload' = IF stage[w] = "create" THEN [upload EXCEPT ![w] = [by |-> w, n |-> tries[w]]] ELSE upload
  BY DEF Reply, gateway
<1>2. /\ WritesTyped /\ WriterInv(w)
      /\ stage[w] \in {"put", "append", "create", "complete", "abort"}
      /\ stage[w] = "create" => req[w] = "ok"
  BY <1>1 DEF WritesInv, WritesTyped, WriterInv, StageInv, Stages
<1>3. PICK s : s = IF req[w] = "ok" THEN AfterReply(stage[w]) ELSE AfterFailure(stage[w])
  OBVIOUS
<1>4. s \in {"parts", "failed", "done", "abort"} /\ (stage[w] = "create" => s = "parts")
  BY <1>2, <1>3 DEF AfterReply, AfterFailure
<1>5. s \in Stages \ {"idle"} /\ GoTo(w, s)
  BY <1>1, <1>3, <1>4 DEF Stages
<1>6. \A m \in late' : m.by \in Writers /\ m.part \in Nat
  BY <1>1, <1>2 DEF WritesTyped
<1>7. CASE stage[w] = "create"
  <2>1. PICK u : u = [by |-> w, n |-> tries[w]]
    OBVIOUS
  <2>2. u \in KnownUploads /\ u.by = w /\ upload' = [upload EXCEPT ![w] = u]
    BY <1>1, <1>2, <1>7, <2>1 DEF KnownUploads, WritesTyped
  <2>3. ASSUME NEW m \in late, m.kind = "create", m.by = w PROVE Named(m) # u
    <3>1. Named(m) = [by |-> w, n |-> m.part] /\ m.part < tries[w] /\ m.part \in Nat /\ tries[w] \in Nat
      BY <1>2, <1>7, <2>3 DEF WriterInv, FreshInv, Named, WritesTyped
    <3> QED  BY <2>1, <3>1
  <2>4. Reaches(w, s, u)
    BY <1>1, <1>4, <1>5, <1>6, <1>7, <2>2, <2>3 DEF Reaches
  <2> QED  BY <2>4, ReachesInv
<1>8. CASE stage[w] # "create"
  <2>1. PICK u : u = upload[w]
    OBVIOUS
  <2>2. upload' = [upload EXCEPT ![w] = u] /\ u \in KnownUploads \cup {NoUpload}
    BY <1>1, <1>2, <1>8, <2>1 DEF WritesTyped
  <2>3. u # NoUpload => u.by = w
    BY <1>2, <2>1 DEF WriterInv, StageInv
  <2>4. \A m \in late : m.kind = "create" /\ m.by = w => Named(m) # u
    BY <1>2, <2>1 DEF WriterInv, FreshInv
  <2>5. NoUpload \notin uploads
    BY <1>2, NobodysUpload DEF WritesTyped
  <2>6. u \notin uploads
    BY <1>1, <1>2, <1>8, <2>1, <2>5 DEF WriterInv, StageInv, GoneInv
  <2>7. Reaches(w, s, u)
    BY <1>1, <1>4, <1>5, <1>6, <2>2, <2>3, <2>4, <2>6 DEF Reaches
  <2> QED  BY <2>7, ReachesInv
<1> QED  BY <1>7, <1>8

-----------------------------------------------------------------------------
\* The first error of a worker makes the call abort.
LEMMA PartRejectsInv ==
  ASSUME WritesInv, NEW w \in Writers, NEW p, NEW e, PartRejects(w, p, e),
         uploads' = uploads, upload' = upload, late \subseteq late',
         \A m \in late' \ late : m.by = w /\ m.kind = "part" /\ m.part \in Nat
  PROVE  WritesInv'
PROOF
<1>1. /\ \A m \in late' : m.by \in Writers /\ m.part \in Nat
      /\ WritesTyped /\ WriterInv(w)
  BY DEF WritesInv, WritesTyped
<1>2. CASE stage[w] = "parts"
  <2>1. GoTo(w, "abort")
    BY <1>2 DEF PartRejects, AfterFailure
  <2>2. PICK u : u = upload[w]
    OBVIOUS
  <2>3. upload' = [upload EXCEPT ![w] = u] /\ u \in KnownUploads \cup {NoUpload}
    BY <1>1, <2>2 DEF WritesTyped
  <2>4. u # NoUpload => u.by = w
    BY <1>1, <2>2 DEF WriterInv, StageInv
  <2>5. \A m \in late' : m.kind = "create" /\ m.by = w => Named(m) # u
    BY <1>1, <2>2 DEF WriterInv, FreshInv
  <2>6. Reaches(w, "abort", u)
    BY <1>1, <2>1, <2>3, <2>4, <2>5 DEF Reaches, Stages
  <2> QED  BY <2>6, ReachesInv
<1>3. CASE stage[w] # "parts"
  <2>1. stage' = stage /\ req' = req /\ tries' = tries
    BY <1>3 DEF PartRejects
  <2>2. WritesTyped'
    BY <1>1, <2>1 DEF WritesTyped
  <2>3. ASSUME NEW v \in Writers PROVE WriterInv(v)'
    BY <1>1, <2>1, WriterRests DEF WritesInv
  <2> QED  BY <2>2, <2>3 DEF WritesInv
<1> QED  BY <1>2, <1>3

\* A part's request is repeated, and the connection may have failed.
LEMMA PartRestsInv ==
  ASSUME WritesInv, UNCHANGED <<stage, req, tries, upload, uploads>>, late \subseteq late',
         \A m \in late' \ late : m.by \in Writers /\ m.kind = "part" /\ m.part \in Nat
  PROVE  WritesInv'
PROOF
<1>1. WritesTyped'
  BY DEF WritesInv, WritesTyped
<1>2. ASSUME NEW v \in Writers PROVE WriterInv(v)'
  BY WriterRests DEF WritesInv
<1> QED  BY <1>1, <1>2 DEF WritesInv

LEMMA PartFailsInv ==
  ASSUME WritesInv, NEW w \in Writers, NEW p \in PartNumbers, PartFails(w, p)
  PROVE  WritesInv'
PROOF
<1>1. /\ uploads' = uploads /\ upload' = upload
      /\ late' = IF part[w][p] = "sent" THEN late \cup {PartMessage(w, p)} ELSE late
  BY DEF PartFails, gateway
<1>2. p \in Nat
  BY DEF PartNumbers
<1>3. /\ late \subseteq late'
      /\ \A m \in late' \ late : m.by = w /\ m.kind = "part" /\ m.part \in Nat
  BY <1>1, <1>2 DEF PartMessage
<1>4. CASE UNCHANGED <<stage, req, tries, error>>
  BY <1>1, <1>3, <1>4, PartRestsInv
<1>5. CASE PartRejects(w, p, "network")
  BY <1>1, <1>3, <1>5, PartRejectsInv
<1> QED  BY <1>4, <1>5 DEF PartFails
-----------------------------------------------------------------------------
\* A request is repeated; the one it repeats may still be executed.
LEMMA RetriedInv ==
  ASSUME WritesInv, NEW w \in Writers, Fails(w), stage' = stage,
         tries' = [tries EXCEPT ![w] = @ + 1], req' = [req EXCEPT ![w] = "sent"]
  PROVE  WritesInv'
PROOF
<1>1. /\ uploads' = uploads /\ upload' = upload /\ req[w] \in {"sent", "ok"}
      /\ late' = IF req[w] = "sent" THEN late \cup {Message(w)} ELSE late
  BY DEF Fails, gateway
<1>2. PICK m : m = Message(w)
  OBVIOUS
<1>3. /\ m.kind = stage[w] /\ m.by = w /\ m.part = IF stage[w] = "create" THEN tries[w] ELSE 0
      /\ late \subseteq late' /\ late' \subseteq late \cup {m}
  BY <1>1, <1>2 DEF Message
<1>4. /\ WritesTyped /\ WriterInv(w) /\ tries[w] \in Nat
      /\ tries'[w] = tries[w] + 1 /\ req'[w] = "sent"
      /\ stage[w] \notin {"idle", "parts", "done", "failed"}
  BY <1>1 DEF WritesInv, WritesTyped, WriterInv, StageInv
<1>5. WritesTyped'
  <2>1. tries' \in [Writers -> Nat] /\ req' \in [Writers -> {"none", "sent", "ok", "gone"}]
    BY <1>4 DEF WritesTyped
  <2>2. \A x \in late' : x.by \in Writers /\ x.part \in Nat
    BY <1>3, <1>4 DEF WritesTyped
  <2> QED  BY <1>1, <1>4, <2>1, <2>2 DEF WritesTyped
<1>6. ASSUME NEW v \in Writers, v # w PROVE WriterInv(v)'
  <2>1. req'[v] = req[v] /\ tries'[v] = tries[v] /\ WriterInv(v)
    BY <1>4, <1>6 DEF WritesTyped, WritesInv
  <2>2. \A x \in late' : x.by = v /\ x.kind = "create" => x \in late
    BY <1>3, <1>6
  <2> QED  BY <1>1, <1>3, <1>4, <2>1, <2>2, WriterRests
<1>7. WriterInv(w)'
  <2>1. StageInv(w)' /\ GoneInv(w)'
    BY <1>1, <1>4 DEF WriterInv, StageInv, GoneInv
  <2>2. ASSUME NEW x \in late', x.kind = "create", x.by = w
        PROVE  Named(x) # upload[w] /\ (stage[w] = "create" => x.part < tries[w] + 1)
    <3>1. CASE x \in late
      BY <1>4, <2>2, <3>1 DEF WriterInv, FreshInv, WritesTyped
    <3>2. CASE x = m
      <4>1. stage[w] = "create" /\ upload[w] = NoUpload /\ x.part = tries[w]
        BY <1>3, <1>4, <2>2, <3>2 DEF WriterInv, StageInv
      <4>2. Named(x) \in KnownUploads
        BY <1>4, <2>2, <4>1 DEF Named, KnownUploads
      <4> QED  BY <1>4, <4>1, <4>2, NobodysUpload
    <3> QED  BY <1>3, <3>1, <3>2
  <2>3. FreshInv(w)'
    BY <1>1, <1>4, <2>2 DEF FreshInv, Named
  <2> QED  BY <2>1, <2>3 DEF WriterInv
<1> QED  BY <1>5, <1>6, <1>7 DEF WritesInv

\* A request is given up on; a failed abort is the last of the call.
LEMMA GivenUpInv ==
  ASSUME WritesInv, NEW w \in Writers, Fails(w), GoTo(w, AfterFailure(stage[w]))
  PROVE  WritesInv'
PROOF
<1>1. /\ uploads' = uploads /\ upload' = upload /\ req[w] \in {"sent", "ok"}
      /\ late' = IF req[w] = "sent" THEN late \cup {Message(w)} ELSE late
  BY DEF Fails, gateway
<1>2. PICK m : m = Message(w)
  OBVIOUS
<1>3. PICK u : u = upload[w]
  OBVIOUS
<1>4. PICK s : s = AfterFailure(stage[w])
  OBVIOUS
<1>5. /\ m.kind = stage[w] /\ m.by = w /\ m.upload = u
      /\ m.part = IF stage[w] = "create" THEN tries[w] ELSE 0
      /\ late' = IF req[w] = "sent" THEN late \cup {m} ELSE late
  BY <1>1, <1>2, <1>3 DEF Message
<1>6. /\ WritesTyped /\ WriterInv(w) /\ tries[w] \in Nat
      /\ stage[w] \in {"put", "append", "create", "complete", "abort"}
  BY <1>1 DEF WritesInv, WritesTyped, WriterInv, StageInv, Stages
<1>7. /\ s = IF stage[w] = "complete" THEN "abort" ELSE "failed"
      /\ s \in Stages \ {"idle"} /\ GoTo(w, s)
  BY <1>4, <1>6 DEF AfterFailure, Stages
<1>8. /\ u \in KnownUploads \cup {NoUpload} /\ upload' = [upload EXCEPT ![w] = u]
      /\ (u # NoUpload) => (u.by = w)
  BY <1>1, <1>3, <1>6 DEF WritesTyped, WriterInv, StageInv
<1>9. late \subseteq late' /\ \A x \in late' : x.by \in Writers /\ x.part \in Nat
  BY <1>5, <1>6 DEF WritesTyped
<1>10. ASSUME NEW x \in late', x.kind = "create", x.by = w PROVE Named(x) # u
  <2>1. CASE x \in late
    BY <1>3, <1>6, <1>10, <2>1 DEF WriterInv, FreshInv
  <2>2. CASE x = m
    <3>1. u = NoUpload /\ x.part \in Nat
      BY <1>3, <1>5, <1>6, <1>10, <2>2 DEF WriterInv, StageInv
    <3>2. Named(x) \in KnownUploads
      BY <1>10, <3>1 DEF Named, KnownUploads
    <3> QED  BY <3>1, <3>2, NobodysUpload
  <2> QED  BY <1>5, <2>1, <2>2
<1>11. NoUpload \notin uploads
  BY <1>6, NobodysUpload DEF WritesTyped
<1>12. s = "failed" /\ u \in uploads => stage[w] = "abort" /\ req[w] = "sent"
  BY <1>1, <1>3, <1>6, <1>7, <1>11 DEF WriterInv, StageInv, GoneInv
<1>13. s = "failed" /\ u \in uploads => \E x \in late' : x.kind = "abort" /\ x.by = w /\ x.upload = u
  BY <1>5, <1>12
<1>14. \A x \in late' \ late : x.by = w
  BY <1>5
<1>15. Reaches(w, s, u)
  BY <1>1, <1>7, <1>8, <1>9, <1>10, <1>13, <1>14 DEF Reaches
<1> QED  BY <1>15, ReachesInv

LEMMA FailsInv ==
  ASSUME WritesInv, NEW w \in Writers, Fails(w)
  PROVE  WritesInv'
BY RetriedInv, GivenUpInv DEF Fails

-----------------------------------------------------------------------------
\* Every step keeps the invariant.
LEMMA NextWritesInv == WritesInv /\ [Next]_vars => WritesInv'
PROOF
<1> SUFFICES ASSUME WritesInv, [Next]_vars PROVE WritesInv'
  OBVIOUS
<1>1. ASSUME NEW w \in Writers, ClientStep(w) PROVE WritesInv'
  <2>1. CASE Reply(w)
    BY <2>1, ReplyInv
  <2>2. CASE Complete(w)
    <3>1. /\ GoTo(w, "complete") /\ stage[w] = "parts"
          /\ uploads' = uploads /\ upload' = upload /\ late' = late
      BY <2>2 DEF Complete, gateway
    <3>2. PICK u : u = upload[w]
      OBVIOUS
    <3>3. /\ u \in KnownUploads \cup {NoUpload} /\ upload' = [upload EXCEPT ![w] = u]
          /\ \A m \in late : m.by \in Writers /\ m.part \in Nat
      BY <3>1, <3>2 DEF WritesInv, WritesTyped
    <3>4. /\ (u # NoUpload) => (u.by = w)
          /\ \A m \in late : m.kind = "create" /\ m.by = w => Named(m) # u
      BY <3>2 DEF WritesInv, WriterInv, StageInv, FreshInv
    <3>5. Reaches(w, "complete", u)
      BY <3>1, <3>3, <3>4 DEF Reaches, Stages
    <3> QED  BY <3>5, ReachesInv
  <2>3. CASE TakePart(w)
    BY <2>3, PartRestsInv DEF TakePart, gateway, call
  <2>4. ASSUME NEW p \in PartNumbers, PartStored(w, p) PROVE WritesInv'
    BY <2>4, PartRestsInv DEF PartStored, gateway, call
  <2>5. ASSUME NEW p \in PartNumbers, PartGone(w, p) PROVE WritesInv'
    <3>1. /\ PartRejects(w, p, "NoSuchUpload")
          /\ uploads' = uploads /\ upload' = upload /\ late' = late
      BY <2>5 DEF PartGone, gateway
    <3> QED  BY <3>1, PartRejectsInv
  <2> QED  BY <1>1, <2>1, <2>2, <2>3, <2>4, <2>5 DEF ClientStep
<1>2. ASSUME NEW w \in Writers, Served(w) PROVE WritesInv'
  BY <1>2, ServeInv, ServePartInv DEF Served
<1>3. ASSUME NEW w \in Writers, Failure(w) PROVE WritesInv'
  BY <1>3, FailsInv, PartFailsInv DEF Failure
<1>4. ASSUME NEW w \in Writers, NEW how \in {"put", "append"}, NEW size \in Sizes[w], Begin(w, how, size)
      PROVE  WritesInv'
  BY <1>4, BeginInv
<1>5. ASSUME NEW m \in late, ServeLate(m) PROVE WritesInv'
  BY <1>5, ServeLateInv
<1>6. CASE UNCHANGED vars
  BY <1>6, PartRestsInv DEF vars, gateway, call
<1> QED  BY <1>1, <1>2, <1>3, <1>4, <1>5, <1>6 DEF Next

\* A call that has settled leaves nothing of its upload at the gateway, unless
\* it failed and an abort is still on its way: putObject uploads a large body
\* in parts and aborts when anything fails (_putMultipart), whatever is
\* repeated, lost or executed late.
THEOREM NothingIsLeftBehind == Spec => []KnownUploadIsGone
PROOF
<1>1. WritesInv => KnownUploadIsGone
  BY DEF WritesInv, WriterInv, GoneInv, KnownUploadIsGone, Settled
<1> QED  BY <1>1, InitWritesInv, NextWritesInv, PTL DEF Spec

-----------------------------------------------------------------------------
(* What the object holds. *)

\* A request carries what its writer asks for: a body to be put, or appended
\* once, or part of a body and then its completion, of the upload it knows.
Rightful(m) ==
  /\ m.by \in Writers /\ stage[m.by] # "idle"
  /\ m.kind = "append" =>
       /\ work[m.by].how = "append" /\ m.upload = NoUpload /\ m.part = 0
       /\ \A i \in 1..Len(object) : object[i].by # m.by
  /\ m.kind # "append" => work[m.by].how = "put"
  /\ m.kind = "create" => m.part \in 0..MaxRetries
  /\ m.kind \in {"part", "complete", "abort"} => m.upload = upload[m.by] /\ m.upload # NoUpload
  /\ m.kind = "part" => m.part \in PartsOf(m.by)
  /\ m.kind = "complete" => \A p \in PartsOf(m.by) : part[m.by][p] = "stored"

\* One that was given up on: an append or a completion ends the call, and an
\* abort is sent when the call has failed.
GivenUp(m) ==
  /\ m.kind = "append" => stage[m.by] = "failed"
  /\ m.kind \in {"complete", "abort"} => stage[m.by] \in {"abort", "failed"}

LateInv == \A m \in late : Rightful(m) /\ GivenUp(m)

\* A call is at the stages of what it does, and knows an upload when it has one.
CallInv(w) ==
  /\ stage[w] # "idle" => work[w].size \in Sizes[w] /\ work[w].how \in {"put", "append"}
  /\ stage[w] = "append" => work[w].how = "append"
  /\ stage[w] \in {"put", "create", "parts", "complete", "abort"} => work[w].how = "put"
  /\ stage[w] \in {"parts", "complete", "abort"} => upload[w] # NoUpload
  /\ upload[w] # NoUpload => work[w].how = "put"
  /\ stage[w] = "append" /\ req[w] = "sent" => \A i \in 1..Len(object) : object[i].by # w
  /\ stage[w] = "complete" => \A p \in PartsOf(w) : part[w][p] = "stored"

\* The upload of a call is there until it is completed or aborted.
AliveInv(w) ==
  /\ stage[w] = "create" /\ req[w] = "ok" => [by |-> w, n |-> tries[w]] \in uploads
  /\ stage[w] = "parts" \/ (stage[w] = "complete" /\ req[w] = "sent") => upload[w] \in uploads
  /\ req[w] # "gone" /\ error[w] # "NoSuchUpload"
  /\ stage[w] = "parts" => \A p \in PartsOf(w) : part[w][p] # "gone"

\* Parts are taken in order, and what has been answered is stored.
PartsInv(w) ==
  /\ next[w] \in Nat \ {0} /\ next[w] <= Count(w) + 1
  /\ \A p \in PartNumbers : part[w][p] # "todo" <=> p < next[w]
  /\ upload[w] = NoUpload => next[w] = 1
  /\ upload[w] \in uploads =>
       \A p \in PartsOf(w) : part[w][p] \in {"ok", "stored"} => <<upload[w], p>> \in staged

StagedInv == \A s \in staged : s[1].by \in Writers /\ s[1] = upload[s[1].by] /\ s[2] \in PartsOf(s[1].by)

ObjectInv ==
  \A i \in 1..Len(object) :
    /\ stage[object[i].by] # "idle" /\ object[i].bytes = Body(work[object[i].by].size)
    /\ work[object[i].by].how = "append" => \A j \in 1..Len(object) : object[j].by = object[i].by => j = i

WriterContent(w) == CallInv(w) /\ AliveInv(w) /\ PartsInv(w)
ContentInv ==
  /\ TypeOK /\ LateInv /\ StagedInv /\ ObjectInv
  /\ \A w \in Writers : WriterContent(w)

\* The parts of a body are among those the model numbers.
LEMMA PartsOfWriter ==
  ASSUME TypeOK, NEW w \in Writers, CallInv(w)
  PROVE  /\ work[w].size \in Nat /\ Count(w) \in Nat /\ Count(w) <= MaxParts
         /\ PartsOf(w) \subseteq PartNumbers /\ PartsOf(w) \subseteq Nat
PROOF
<1>1. work[w] = NoWork \/ work[w].size \in AllSizes
  BY DEF TypeOK
<1>2. AllSizes \subseteq Nat
  BY SizesAssumption DEF AllSizes
<1>3. work[w].size \in Nat
  BY <1>1, <1>2 DEF NoWork
<1>4. Count(w) \in Nat /\ Count(w) <= MaxParts /\ Count(w) <= CeilDiv(work[w].size, MinPart)
  BY <1>3, PartCountBounds DEF Count
<1>5. PartsOf(w) \subseteq Nat
  BY <1>4 DEF PartsOf
<1>6. PartsOf(w) \subseteq PartNumbers
  <2>1. CASE work[w].size \in AllSizes
    <3>1. CeilDiv(work[w].size, MinPart) \in Nat
      BY <1>3, SizesAssumption, CeilDivBounds
    <3>2. PartsOf(w) \subseteq 1..CeilDiv(work[w].size, MinPart)
      BY <1>4, <3>1 DEF PartsOf
    <3> QED  BY <2>1, <3>2 DEF PartNumbers
  <2>2. CASE work[w] = NoWork
    <3>1. EffectivePartSize(0) \in Nat \ {0}
      BY PartSizeBounds
    <3>2. PartCount(0) = 0
      <4>1. /\ PartCount(0) \in Nat
            /\ PartCount(0) * EffectivePartSize(0) < 0 * EffectivePartSize(0) + EffectivePartSize(0)
        BY <3>1, PartCountBounds
      <4> QED  BY <3>1, <4>1, MultiplesApart
    <3> QED  BY <2>2, <3>2 DEF NoWork, Count, PartsOf
  <2> QED  BY <1>1, <2>1, <2>2
<1> QED  BY <1>3, <1>4, <1>5, <1>6

LEMMA InitContentInv == Init => ContentInv
PROOF
<1> SUFFICES ASSUME Init PROVE ContentInv
  OBVIOUS
<1>1. TypeOK
  BY BoundsAssumption DEF Init, TypeOK, Stages
<1>2. LateInv /\ StagedInv /\ ObjectInv
  BY DEF Init, LateInv, StagedInv, ObjectInv
<1>3. ASSUME NEW w \in Writers PROVE WriterContent(w)
  <2>1. CallInv(w) /\ AliveInv(w)
    BY DEF Init, CallInv, AliveInv
  <2>2. Count(w) \in Nat /\ \A p \in PartNumbers : p \in Nat \ {0}
    BY <1>1, <2>1, PartsOfWriter DEF PartNumbers
  <2>3. PartsInv(w)
    BY <2>2 DEF Init, PartsInv
  <2> QED  BY <2>1, <2>3 DEF WriterContent
<1> QED  BY <1>1, <1>2, <1>3 DEF ContentInv

-----------------------------------------------------------------------------
(* The gateway executes a request. *)

\* An upload every part of which is stored is assembled to the body.
LEMMA AssembledIsWhole ==
  ASSUME ContentInv, NEW w \in Writers, upload[w] \in uploads, upload[w].by = w,
         \A p \in PartsOf(w) : part[w][p] = "stored"
  PROVE  StagedParts(upload[w]) = PartsOf(w) /\ Assembled(upload[w]) = BodyOf(w)
PROOF
<1>1. \A p \in PartsOf(w) : <<upload[w], p>> \in staged
  BY DEF ContentInv, WriterContent, PartsInv
<1>2. \A s \in staged : s[1] = upload[w] => s[2] \in PartsOf(w)
  BY DEF ContentInv, StagedInv
<1>3. StagedParts(upload[w]) = PartsOf(w)
  <2>1. \A p \in PartsOf(w) : <<upload[w], p>>[1] = upload[w] /\ <<upload[w], p>>[2] = p
    OBVIOUS
  <2> QED  BY <1>1, <1>2, <2>1 DEF StagedParts
<1>4. UNION {Slice(work[w].size, p) : p \in PartsOf(w)} = Body(work[w].size)
  <2>1. work[w].size \in Nat
    BY PartsOfWriter DEF ContentInv, WriterContent
  <2> QED  BY <2>1, SlicesCover DEF PartsOf, Count
<1>5. UNION {Slice(work[upload[w].by].size, p) : p \in StagedParts(upload[w])} = Body(work[w].size)
  BY <1>3, <1>4
<1> QED  BY <1>3, <1>5 DEF Assembled, BodyOf

\* A request on its way: one that was given up on, that of a call, or of a part.
Pending(m) ==
  \/ m \in late
  \/ \E w \in Writers : (req[w] = "sent" /\ m = Message(w)) \/ \E p : m = PartMessage(w, p)

\* What a request does to the uploads and their parts.
LEMMA ExecutedParts ==
  ASSUME WritesInv, ContentInv, NEW m, Pending(m), Rightful(m), Execute(m), UNCHANGED <<work, stage, upload>>
  PROVE  /\ uploads' \subseteq Uploads /\ staged' \subseteq Uploads \X Nat /\ written' \subseteq Writers
         /\ StagedInv'
         /\ \A w \in Writers : upload[w] \in uploads' => upload[w] \in uploads
         /\ \A w \in Writers : \A p : upload[w] \in uploads' /\ <<upload[w], p>> \in staged => <<upload[w], p>> \in staged'
         /\ \A u \in uploads : u \notin uploads' => m.kind \in {"complete", "abort"} /\ u = m.upload
PROOF
<1>1. /\ uploads \subseteq Uploads /\ staged \subseteq Uploads \X Nat /\ written \subseteq Writers
      /\ upload[m.by] \in Uploads \cup {NoUpload} /\ m.by \in Writers
  BY DEF ContentInv, TypeOK, Rightful
<1>2. CASE m.kind = "create"
  <2>1. uploads' = uploads \cup {Named(m)} /\ staged' = staged /\ written' = written
    BY <1>2 DEF Execute
  <2>2. Named(m) \in Uploads
    BY <1>1, <1>2 DEF Named, Uploads, Rightful
  <2>3. \A w \in Writers : Named(m) # upload[w]
    BY <1>2, CreationsAreNew DEF Pending, PartMessage, Message
  <2>4. StagedInv'
    BY <2>1 DEF ContentInv, StagedInv, PartsOf, Count
  <2> QED  BY <1>1, <1>2, <2>1, <2>2, <2>3, <2>4
<1>3. CASE m.kind = "part"
  <2>1. uploads' = uploads /\ written' = written /\ staged \subseteq staged' /\ staged' \subseteq staged \cup {<<m.upload, m.part>>}
    BY <1>3 DEF Execute, gateway
  <2>2. m.upload = upload[m.by] /\ m.upload \in Uploads /\ m.part \in PartsOf(m.by)
    BY <1>1, <1>3 DEF Rightful
  <2>3. m.upload.by = m.by
    <3>1. upload[m.by] # NoUpload
      BY <1>3 DEF Rightful
    <3> QED  BY <1>1, <2>2, <3>1 DEF WritesInv, WriterInv, StageInv
  <2>4. m.part \in Nat
    BY <1>1, <2>2, PartsOfWriter DEF ContentInv, WriterContent
  <2>5. StagedInv'
    <3> SUFFICES ASSUME NEW s \in staged'
        PROVE  s[1].by \in Writers /\ s[1] = upload[s[1].by] /\ s[2] \in PartsOf(s[1].by)
      BY DEF StagedInv, PartsOf, Count
    <3>1. CASE s \in staged
      BY <3>1 DEF ContentInv, StagedInv
    <3>2. CASE s = <<m.upload, m.part>>
      BY <1>1, <2>2, <2>3, <3>2
    <3> QED  BY <2>1, <3>1, <3>2
  <2> QED  BY <1>1, <2>1, <2>2, <2>4, <2>5
<1>4. CASE m.kind \in {"complete", "abort"}
  <2>1. CASE UNCHANGED gateway
    BY <1>1, <2>1 DEF gateway, ContentInv, StagedInv, PartsOf, Count
  <2>2. CASE uploads' = uploads \ {m.upload} /\ staged' = {s \in staged : s[1] # m.upload}
    <3>1. written' \subseteq Writers
      BY <1>1, <1>4 DEF Execute, gateway
    <3>2. StagedInv'
      BY <2>2 DEF ContentInv, StagedInv, PartsOf, Count
    <3>3. \A w \in Writers : \A p : upload[w] \in uploads' => <<upload[w], p>>[1] # m.upload
      BY <2>2
    <3> QED  BY <1>1, <1>4, <2>2, <3>1, <3>2, <3>3
  <2> QED  BY <1>4, <2>1, <2>2 DEF Execute
<1>5. CASE m.kind \notin {"create", "part", "complete", "abort"}
  <2>1. uploads' = uploads /\ staged' = staged /\ written' \subseteq written \cup {m.by}
    BY <1>5 DEF Execute, gateway
  <2>2. StagedInv'
    BY <2>1 DEF ContentInv, StagedInv, PartsOf, Count
  <2> QED  BY <1>1, <2>1, <2>2
<1> QED  BY <1>2, <1>3, <1>4, <1>5

\* What a request does to the object: nothing, or it publishes a whole body of
\* its writer.
LEMMA ExecutedObject ==
  ASSUME WritesInv, ContentInv, NEW m, Rightful(m), Execute(m), UNCHANGED <<work, stage>>
  PROVE  /\ object' \in Seq(Bodies)
         /\ ObjectInv'
         /\ \A w \in Writers \ {m.by} : (\A i \in 1..Len(object) : object[i].by # w) =>
              \A i \in 1..Len(object') : object'[i].by # w
         /\ m.kind \notin {"put", "append", "complete"} => object' = object
PROOF
<1> DEFINE e == BodyOf(m.by)
<1>1. object \in Seq(Bodies) /\ m.by \in Writers /\ ObjectInv
  BY DEF ContentInv, TypeOK, Rightful
<1>2. work[m.by].size \in Nat
  BY <1>1, PartsOfWriter DEF ContentInv, WriterContent
<1>3. e \in Bodies /\ e.by = m.by /\ e.bytes = Body(work[m.by].size)
  BY <1>1, <1>2 DEF BodyOf, Bodies, Body
<1>4. CASE object' = object
  BY <1>1, <1>4 DEF ObjectInv
<1>5. ASSUME object' = <<BodyOf(m.by)>>, m.kind \in {"put", "complete"}
      PROVE  /\ object' \in Seq(Bodies) /\ ObjectInv'
             /\ \A w \in Writers \ {m.by} : \A i \in 1..Len(object') : object'[i].by # w
  <2> HIDE DEF e
  <2>1. object' = <<e>>
    BY <1>5 DEF e
  <2>2. object' \in Seq(Bodies) /\ Len(object') = 1 /\ object'[1] = e
    BY <1>3, <2>1
  <2>3. \A i \in 1..Len(object') : object'[i] = e
    BY <2>2
  <2>4. stage[m.by] # "idle" /\ work[m.by].how = "put"
    BY <1>5 DEF Rightful
  <2> QED  BY <1>3, <2>2, <2>3, <2>4 DEF ObjectInv
<1>6. ASSUME object' = Append(object, BodyOf(m.by)), m.kind = "append"
      PROVE  /\ object' \in Seq(Bodies) /\ ObjectInv'
             /\ \A w \in Writers \ {m.by} : (\A i \in 1..Len(object) : object[i].by # w) =>
                  \A i \in 1..Len(object') : object'[i].by # w
  <2> HIDE DEF e
  <2>1. object' = Append(object, e)
    BY <1>6 DEF e
  <2>2. /\ object' \in Seq(Bodies) /\ Len(object) \in Nat /\ Len(object') = Len(object) + 1
        /\ object'[Len(object) + 1] = e /\ \A i \in 1..Len(object) : object'[i] = object[i]
    BY <1>1, <1>3, <2>1
  <2>3. stage[m.by] # "idle" /\ \A i \in 1..Len(object) : object[i].by # m.by
    BY <1>6 DEF Rightful
  <2>4. \A i \in 1..Len(object') : (i \in 1..Len(object) /\ object'[i] = object[i]) \/ (i = Len(object) + 1 /\ object'[i] = e)
    BY <2>2
  <2>5. ObjectInv'
    <3> SUFFICES ASSUME NEW i \in 1..Len(object')
        PROVE  /\ stage[object'[i].by] # "idle" /\ object'[i].bytes = Body(work[object'[i].by].size)
               /\ work[object'[i].by].how = "append" => \A j \in 1..Len(object') : object'[j].by = object'[i].by => j = i
      BY DEF ObjectInv
    <3>1. CASE i \in 1..Len(object) /\ object'[i] = object[i]
      BY <1>1, <1>3, <2>3, <2>4, <3>1 DEF ObjectInv
    <3>2. CASE i = Len(object) + 1 /\ object'[i] = e
      BY <1>3, <2>3, <2>4, <3>2
    <3> QED  BY <2>4, <3>1, <3>2
  <2> QED  BY <1>3, <2>2, <2>4, <2>5
<1>7. ASSUME m.kind = "complete", Finds(m) PROVE object' = <<BodyOf(m.by)>>
  <2>1. m.upload = upload[m.by] /\ m.upload # NoUpload /\ m.upload \in uploads
    BY <1>7 DEF Rightful, Finds
  <2>2. upload[m.by].by = m.by
    BY <1>1, <2>1 DEF WritesInv, WriterInv, StageInv
  <2>3. Assembled(m.upload) = BodyOf(m.by)
    BY <1>1, <1>7, <2>1, <2>2, AssembledIsWhole DEF Rightful
  <2> QED  BY <1>7, <2>3 DEF Execute
<1>8. \/ object' = object
      \/ object' = <<BodyOf(m.by)>> /\ m.kind \in {"put", "complete"}
      \/ object' = Append(object, BodyOf(m.by)) /\ m.kind = "append"
  BY <1>7 DEF Execute, gateway
<1>9. m.kind \notin {"put", "append", "complete"} => object' = object
  BY DEF Execute, gateway
<1> QED  BY <1>4, <1>5, <1>6, <1>8, <1>9

\* The request a call waits for is rightful, and so are those of its parts.
LEMMA SentIsRightful ==
  ASSUME WritesInv, ContentInv, NEW w \in Writers, req[w] = "sent"
  PROVE  Rightful(Message(w)) /\ stage[w] \in {"put", "append", "create", "complete", "abort"}
PROOF
<1>1. /\ stage[w] \in {"put", "append", "create", "complete", "abort"}
      /\ stage[w] = "append" => upload[w] = NoUpload
      /\ tries[w] \in 0..MaxRetries
  BY DEF WritesInv, WriterInv, StageInv, ContentInv, TypeOK, Stages
<1>2. CallInv(w)
  BY DEF ContentInv, WriterContent
<1>3. PICK m : m = Message(w)
  OBVIOUS
<1>4. /\ m.kind = stage[w] /\ m.by = w /\ m.upload = upload[w]
      /\ m.part = IF stage[w] = "create" THEN tries[w] ELSE 0
  BY <1>3 DEF Message
<1>5. Rightful(m)
  BY <1>1, <1>2, <1>4 DEF Rightful, CallInv
<1> QED  BY <1>1, <1>3, <1>5

LEMMA PartIsRightful ==
  ASSUME WritesInv, ContentInv, NEW w \in Writers, NEW p \in PartNumbers, part[w][p] # "todo"
  PROVE  Rightful(PartMessage(w, p)) /\ p \in PartsOf(w) /\ upload[w] # NoUpload
PROOF
<1>1. CallInv(w) /\ PartsInv(w) /\ StageInv(w)
  BY DEF ContentInv, WriterContent, WritesInv, WriterInv
<1>2. Count(w) \in Nat /\ p \in Nat \ {0}
  BY <1>1, PartsOfWriter DEF ContentInv, PartNumbers
<1>3. p < next[w] /\ next[w] \in Nat /\ next[w] <= Count(w) + 1
  BY <1>1 DEF PartsInv
<1>4. p \in PartsOf(w)
  BY <1>2, <1>3 DEF PartsOf
<1>5. upload[w] # NoUpload
  BY <1>1, <1>2, <1>3 DEF PartsInv
<1>6. stage[w] # "idle" /\ work[w].how = "put"
  BY <1>1, <1>5 DEF CallInv, StageInv
<1>7. PICK m : m = PartMessage(w, p)
  OBVIOUS
<1>8. m.kind = "part" /\ m.by = w /\ m.upload = upload[w] /\ m.part = p
  BY <1>7 DEF PartMessage
<1>9. Rightful(m)
  BY <1>4, <1>5, <1>6, <1>8 DEF Rightful
<1> QED  BY <1>4, <1>5, <1>7, <1>9

\* What is said of a writer goes on to hold while others' uploads come and go,
\* and its own is left alone unless its call is over.
LEMMA WriterContentRests ==
  ASSUME NEW v \in Writers, WriterContent(v),
         work'[v] = work[v], stage'[v] = stage[v], req'[v] = req[v], tries'[v] = tries[v],
         upload'[v] = upload[v], next'[v] = next[v], part'[v] = part[v], error'[v] = error[v],
         stage[v] = "create" /\ [by |-> v, n |-> tries[v]] \in uploads => [by |-> v, n |-> tries[v]] \in uploads',
         stage[v] \in {"parts", "complete"} /\ upload[v] \in uploads => upload[v] \in uploads',
         upload[v] \in uploads' => upload[v] \in uploads,
         \A p : upload[v] \in uploads' /\ <<upload[v], p>> \in staged => <<upload[v], p>> \in staged',
         stage[v] = "append" /\ (\A i \in 1..Len(object) : object[i].by # v) =>
           \A i \in 1..Len(object') : object'[i].by # v
  PROVE  WriterContent(v)'
PROOF
<1>1. CallInv(v)'
  BY DEF WriterContent, CallInv, PartsOf, Count
<1>2. AliveInv(v)'
  BY DEF WriterContent, AliveInv, PartsOf, Count
<1>3. PartsInv(v)'
  BY DEF WriterContent, PartsInv, PartsOf, Count
<1> QED  BY <1>1, <1>2, <1>3 DEF WriterContent

\* The gateway executes a request: those that are left stay rightful.
LEMMA ExecutedLate ==
  ASSUME WritesInv, ContentInv, NEW m, Rightful(m), Execute(m),
         UNCHANGED <<work, stage, upload>>, late' \subseteq late,
         \A v \in Writers : \A p : part[v][p] = "stored" => part'[v][p] = "stored",
         m.kind = "append" => \A x \in late' : ~(x.kind = "append" /\ x.by = m.by)
  PROVE  LateInv'
PROOF
<1> SUFFICES ASSUME NEW x \in late' PROVE Rightful(x)' /\ GivenUp(x)'
  BY DEF LateInv
<1>1. Rightful(x) /\ GivenUp(x) /\ x.by \in Writers
  BY DEF ContentInv, LateInv, Rightful
<1>2. x.kind = "append" => \A i \in 1..Len(object') : object'[i].by # x.by
  <2>1. CASE x.by # m.by
    BY <1>1, <2>1, ExecutedObject DEF Rightful
  <2>2. CASE x.by = m.by /\ m.kind # "append" /\ x.kind = "append"
    BY <1>1, <2>2 DEF Rightful
  <2> QED  BY <2>1, <2>2
<1>3. Rightful(x)'
  BY <1>1, <1>2 DEF Rightful, PartsOf, Count
<1>4. GivenUp(x)'
  BY <1>1 DEF GivenUp
<1> QED  BY <1>3, <1>4

\* What the gateway executes does not disturb a writer whose request it is not,
\* or whose call is over.
LEMMA ExecutedRests ==
  ASSUME WritesInv, ContentInv, NEW m, Pending(m), Rightful(m), Execute(m), UNCHANGED <<work, stage, upload>>,
         NEW v \in Writers, WriterContent(v),
         req'[v] = req[v], tries'[v] = tries[v], next'[v] = next[v], part'[v] = part[v], error'[v] = error[v],
         m.by # v \/ m.kind = "part" \/ GivenUp(m)
  PROVE  WriterContent(v)'
PROOF
<1>1. /\ upload[v] \in uploads' => upload[v] \in uploads
      /\ \A p : upload[v] \in uploads' /\ <<upload[v], p>> \in staged => <<upload[v], p>> \in staged'
      /\ \A u \in uploads : u \notin uploads' => m.kind \in {"complete", "abort"} /\ u = m.upload
  BY ExecutedParts
<1>2. m.kind \in {"complete", "abort"} => m.upload = upload[m.by] /\ m.upload # NoUpload /\ m.by \in Writers
  BY DEF Rightful
<1>3. m.kind \in {"complete", "abort"} => m.upload.by = m.by
  BY <1>2 DEF WritesInv, WriterInv, StageInv
<1>4. upload[v] # NoUpload => upload[v].by = v
  BY DEF WritesInv, WriterInv, StageInv
<1>5. ASSUME stage[v] = "create", [by |-> v, n |-> tries[v]] \in uploads
      PROVE  [by |-> v, n |-> tries[v]] \in uploads'
  <2>1. PICK u : u = [by |-> v, n |-> tries[v]]
    OBVIOUS
  <2>2. u.by = v
    BY <2>1
  <2>3. m.kind \in {"complete", "abort"} /\ u = m.upload => upload[v] # NoUpload
    BY <1>2, <1>3, <2>2
  <2>4. upload[v] = NoUpload
    BY <1>5 DEF WritesInv, WriterInv, StageInv
  <2> QED  BY <1>1, <1>5, <2>1, <2>3, <2>4
<1>6. ASSUME stage[v] \in {"parts", "complete"}, upload[v] \in uploads
      PROVE  upload[v] \in uploads'
  <2>1. upload[v] # NoUpload
    BY <1>6 DEF WriterContent, CallInv
  <2>2. m.kind \in {"complete", "abort"} /\ upload[v] = m.upload => m.by = v
    BY <1>3, <1>4, <2>1
  <2>3. m.kind \in {"complete", "abort"} /\ m.by = v => stage[v] \in {"abort", "failed"}
    BY DEF GivenUp
  <2> QED  BY <1>1, <1>6, <2>2, <2>3
<1>7. ASSUME stage[v] = "append", \A i \in 1..Len(object) : object[i].by # v
      PROVE  \A i \in 1..Len(object') : object'[i].by # v
  <2>1. CASE m.by # v
    BY <1>7, <2>1, ExecutedObject
  <2>2. CASE m.by = v
    <3>1. work[v].how = "append"
      BY <1>7 DEF WriterContent, CallInv
    <3>2. m.kind = "append"
      BY <2>2, <3>1 DEF Rightful
    <3> QED  BY <1>7, <2>2, <3>2 DEF GivenUp
  <2> QED  BY <2>1, <2>2
<1> QED  BY <1>1, <1>5, <1>6, <1>7, WriterContentRests

-----------------------------------------------------------------------------
LEMMA ServeLateContent ==
  ASSUME WritesInv, ContentInv, NEW m \in late, ServeLate(m)
  PROVE  ContentInv'
PROOF
<1>1. /\ Execute(m) /\ late' = late \ {m}
      /\ UNCHANGED <<work, stage, req, tries, upload, error>> /\ UNCHANGED <<next, part, ptries>>
  BY DEF ServeLate, call, workers
<1>2. Rightful(m) /\ GivenUp(m) /\ Pending(m)
  BY DEF ContentInv, LateInv, Pending
<1>3. ASSUME m.kind = "append", NEW x \in late', x.kind = "append", x.by = m.by PROVE FALSE
  <2>1. x \in Requests /\ m \in Requests /\ x # m
    BY <1>1 DEF ContentInv, TypeOK
  <2>2. x.upload = m.upload /\ x.part = m.part
    BY <1>1, <1>2, <1>3 DEF ContentInv, LateInv, Rightful
  <2>3. x = [kind |-> x.kind, by |-> x.by, upload |-> x.upload, part |-> x.part]
        /\ m = [kind |-> m.kind, by |-> m.by, upload |-> m.upload, part |-> m.part]
    BY <2>1 DEF Requests
  <2> QED  BY <1>3, <2>1, <2>2, <2>3
<1>4. LateInv'
  BY <1>1, <1>2, <1>3, ExecutedLate
<1>5. /\ uploads' \subseteq Uploads /\ staged' \subseteq Uploads \X Nat /\ written' \subseteq Writers
      /\ StagedInv' /\ object' \in Seq(Bodies) /\ ObjectInv'
  BY <1>1, <1>2, ExecutedParts, ExecutedObject
<1>6. TypeOK'
  BY <1>1, <1>5 DEF ContentInv, TypeOK
<1>7. ASSUME NEW v \in Writers PROVE WriterContent(v)'
  BY <1>1, <1>2, ExecutedRests DEF ContentInv
<1> QED  BY <1>4, <1>5, <1>6, <1>7 DEF ContentInv

LEMMA ServePartContent ==
  ASSUME WritesInv, ContentInv, NEW w \in Writers, NEW p \in PartNumbers, ServePart(w, p)
  PROVE  ContentInv'
PROOF
<1>1. PICK m : m = PartMessage(w, p)
  OBVIOUS
<1>2. /\ m.kind = "part" /\ m.by = w /\ m.upload = upload[w] /\ m.part = p
  BY <1>1 DEF PartMessage
<1>3. /\ Execute(m) /\ part[w][p] = "sent"
      /\ part' = [part EXCEPT ![w][p] = IF Finds(m) THEN "ok" ELSE "gone"]
      /\ UNCHANGED <<work, stage, req, tries, upload, error>> /\ UNCHANGED <<next, ptries, late>>
  BY <1>1 DEF ServePart, call
<1>4. Rightful(m) /\ p \in PartsOf(w) /\ upload[w] # NoUpload /\ Pending(m)
  BY <1>1, <1>3, PartIsRightful DEF Pending
<1>5. part \in [Writers -> [PartNumbers -> {"todo", "sent", "ok", "gone", "stored", "failed"}]]
  BY DEF ContentInv, TypeOK
<1>6. /\ \A v \in Writers : v # w => part'[v] = part[v]
      /\ \A q \in PartNumbers : part'[w][q] = IF q = p THEN (IF Finds(m) THEN "ok" ELSE "gone") ELSE part[w][q]
      /\ \A q : q # p => part'[w][q] = part[w][q]
  BY <1>3, <1>5
<1>7. \A v \in Writers : \A q : part[v][q] = "stored" => part'[v][q] = "stored"
  BY <1>3, <1>6
<1>8. LateInv'
  BY <1>2, <1>3, <1>4, <1>7, ExecutedLate
<1>9. /\ uploads' \subseteq Uploads /\ staged' \subseteq Uploads \X Nat /\ written' \subseteq Writers
      /\ StagedInv' /\ object' \in Seq(Bodies) /\ ObjectInv' /\ object' = object
  BY <1>2, <1>3, <1>4, ExecutedParts, ExecutedObject
<1>10. TypeOK'
  <2>1. part' \in [Writers -> [PartNumbers -> {"todo", "sent", "ok", "gone", "stored", "failed"}]]
    BY <1>3, <1>5
  <2> QED  BY <1>3, <1>9, <2>1 DEF ContentInv, TypeOK
<1>11. ASSUME NEW v \in Writers, v # w PROVE WriterContent(v)'
  <2>1. part'[v] = part[v] /\ WriterContent(v)
    BY <1>6, <1>11 DEF ContentInv
  <2> QED  BY <1>2, <1>3, <1>4, <2>1, ExecutedRests
<1>12. WriterContent(w)'
  <2>1. CallInv(w) /\ AliveInv(w) /\ PartsInv(w)
    BY DEF ContentInv, WriterContent
  <2>2. uploads' = uploads /\ \A q : <<upload[w], q>> \in staged => <<upload[w], q>> \in staged'
    BY <1>2, <1>3 DEF Execute, gateway
  <2>3. Finds(m) <=> upload[w] \in uploads
    BY <1>2 DEF Finds
  <2>4. Finds(m) => <<upload[w], p>> \in staged'
    BY <1>2, <1>3 DEF Execute
  <2>5. CallInv(w)'
    BY <1>3, <1>7, <1>9, <2>1 DEF CallInv, PartsOf, Count
  <2>6. AliveInv(w)'
    BY <1>3, <1>6, <2>1, <2>2, <2>3 DEF AliveInv, PartsOf, Count
  <2>7. PartsInv(w)'
    <3>1. \A q \in PartNumbers : part'[w][q] # "todo" <=> part[w][q] # "todo"
      BY <1>3, <1>6
    <3>2. \A q \in PartsOf(w) : upload[w] \in uploads /\ part'[w][q] \in {"ok", "stored"} => <<upload[w], q>> \in staged'
      BY <1>6, <2>1, <2>2, <2>3, <2>4 DEF PartsInv
    <3> QED  BY <1>3, <2>1, <2>2, <3>1, <3>2 DEF PartsInv, PartsOf, Count
  <2> QED  BY <2>5, <2>6, <2>7 DEF WriterContent
<1> QED  BY <1>8, <1>9, <1>10, <1>11, <1>12 DEF ContentInv

LEMMA ServeContent ==
  ASSUME WritesInv, ContentInv, NEW w \in Writers, Serve(w)
  PROVE  ContentInv'
PROOF
<1>1. PICK m : m = Message(w)
  OBVIOUS
<1>2. /\ m.kind = stage[w] /\ m.by = w /\ m.upload = upload[w]
      /\ stage[w] = "create" => m.part = tries[w]
  BY <1>1 DEF Message
<1>3. /\ Execute(m) /\ req[w] = "sent"
      /\ req' = [req EXCEPT ![w] = IF Finds(m) THEN "ok" ELSE "gone"]
      /\ UNCHANGED <<work, stage, tries, upload, error, late>> /\ UNCHANGED <<next, part, ptries>>
  BY <1>1 DEF Serve, workers
<1>4. /\ Rightful(m) /\ Pending(m)
      /\ stage[w] \in {"put", "append", "create", "complete", "abort"}
  BY <1>1, <1>3, SentIsRightful DEF Pending
<1>5. \A v \in Writers : v # w => req'[v] = req[v]
  BY <1>3 DEF ContentInv, TypeOK
<1>6. req'[w] = IF Finds(m) THEN "ok" ELSE "gone"
  BY <1>3 DEF ContentInv, TypeOK
<1>7. m.kind = "append" => \A x \in late' : ~(x.kind = "append" /\ x.by = w)
  BY <1>2, <1>3 DEF ContentInv, LateInv, GivenUp
<1>8. LateInv'
  BY <1>2, <1>3, <1>4, <1>7, ExecutedLate
<1>9. /\ uploads' \subseteq Uploads /\ staged' \subseteq Uploads \X Nat /\ written' \subseteq Writers
      /\ StagedInv' /\ object' \in Seq(Bodies) /\ ObjectInv'
  BY <1>3, <1>4, ExecutedParts, ExecutedObject
<1>10. TypeOK'
  <2>1. req' \in [Writers -> {"none", "sent", "ok", "gone"}]
    BY <1>3 DEF ContentInv, TypeOK
  <2> QED  BY <1>3, <1>9, <2>1 DEF ContentInv, TypeOK
<1>11. ASSUME NEW v \in Writers, v # w PROVE WriterContent(v)'
  BY <1>2, <1>3, <1>4, <1>5, <1>11, ExecutedRests DEF ContentInv
<1>12. WriterContent(w)'
  <2>1. CallInv(w) /\ AliveInv(w) /\ PartsInv(w)
    BY DEF ContentInv, WriterContent
  <2>2. Finds(m)
    BY <1>2, <1>3, <1>4, <2>1 DEF Finds, AliveInv
  <2>3. req'[w] = "ok"
    BY <1>6, <2>2
  <2>4. CallInv(w)'
    BY <1>3, <2>1, <2>3 DEF CallInv, PartsOf, Count
  <2>5. stage[w] = "create" => [by |-> w, n |-> tries[w]] \in uploads'
    BY <1>2, <1>3 DEF Execute, Named
  <2>6. AliveInv(w)'
    BY <1>3, <1>4, <2>1, <2>3, <2>5 DEF AliveInv, PartsOf, Count
  <2>7. PartsInv(w)'
    <3>1. /\ upload[w] \in uploads' => upload[w] \in uploads
          /\ \A q : upload[w] \in uploads' /\ <<upload[w], q>> \in staged => <<upload[w], q>> \in staged'
      BY <1>3, <1>4, ExecutedParts
    <3> QED  BY <1>3, <2>1, <3>1 DEF PartsInv, PartsOf, Count
  <2> QED  BY <2>4, <2>6, <2>7 DEF WriterContent
<1> QED  BY <1>8, <1>9, <1>10, <1>11, <1>12 DEF ContentInv

-----------------------------------------------------------------------------
(* The client takes a step: what the gateway holds is as it was. *)

\* Only the call of w goes on, with what it is about: what it had stored, and
\* once it has ended it has.
GoesOn(w) ==
  /\ UNCHANGED gateway
  /\ \A v \in Writers \ {w} :
       /\ work'[v] = work[v] /\ stage'[v] = stage[v] /\ req'[v] = req[v] /\ tries'[v] = tries[v]
       /\ upload'[v] = upload[v] /\ next'[v] = next[v] /\ part'[v] = part[v] /\ error'[v] = error[v]
  /\ stage[w] # "idle" => (stage'[w] # "idle" /\ work'[w] = work[w])
  /\ upload'[w] = upload[w] \/ upload[w] = NoUpload
  /\ stage[w] = "failed" => stage'[w] = "failed"
  /\ stage[w] = "abort" => stage'[w] \in {"abort", "failed"}
  /\ \A p : part[w][p] = "stored" => part'[w][p] = "stored"

LEMMA GoesOnContent ==
  ASSUME WritesInv, ContentInv, NEW w \in Writers, GoesOn(w), TypeOK', WriterContent(w)',
         \A m \in late' \ late : m.by = w /\ Rightful(m)' /\ GivenUp(m)'
  PROVE  ContentInv'
PROOF
<1>1. LateInv'
  <2> SUFFICES ASSUME NEW m \in late, m \in late' PROVE Rightful(m)' /\ GivenUp(m)'
    BY DEF LateInv
  <2>1. Rightful(m) /\ GivenUp(m) /\ m.by \in Writers /\ object' = object
    BY DEF ContentInv, LateInv, Rightful, GoesOn, gateway
  <2>2. CASE m.by # w
    <3>1. /\ work'[m.by] = work[m.by] /\ stage'[m.by] = stage[m.by]
          /\ upload'[m.by] = upload[m.by] /\ part'[m.by] = part[m.by]
      BY <2>1, <2>2 DEF GoesOn
    <3> QED  BY <2>1, <3>1 DEF Rightful, GivenUp, PartsOf, Count
  <2>3. CASE m.by = w
    <3>1. stage'[w] # "idle" /\ work'[w] = work[w]
      BY <2>1, <2>3 DEF Rightful, GoesOn
    <3>2. m.kind \in {"part", "complete", "abort"} => upload'[w] = upload[w]
      BY <2>1, <2>3 DEF Rightful, GoesOn
    <3>3. Rightful(m)'
      BY <2>1, <2>3, <3>1, <3>2 DEF Rightful, PartsOf, Count, GoesOn
    <3>4. GivenUp(m)'
      BY <2>1, <2>3 DEF GivenUp, GoesOn
    <3> QED  BY <3>3, <3>4
  <2> QED  BY <2>2, <2>3
<1>2. StagedInv'
  <2> SUFFICES ASSUME NEW s \in staged
      PROVE  s[1].by \in Writers /\ s[1] = upload'[s[1].by] /\ s[2] \in PartsOf(s[1].by)'
    BY DEF StagedInv, GoesOn, gateway
  <2>1. s[1].by \in Writers /\ s[1] = upload[s[1].by] /\ s[2] \in PartsOf(s[1].by)
    BY DEF ContentInv, StagedInv
  <2>2. CASE s[1].by # w
    BY <2>1, <2>2 DEF GoesOn, PartsOf, Count
  <2>3. CASE s[1].by = w
    <3>1. s[1] # NoUpload
      BY <2>1, WritersAssumption DEF NoUpload
    <3>2. stage[w] # "idle"
      BY <2>1, <2>3, <3>1 DEF WritesInv, WriterInv, StageInv
    <3> QED  BY <2>1, <2>3, <3>1, <3>2 DEF GoesOn, PartsOf, Count
  <2> QED  BY <2>2, <2>3
<1>3. ObjectInv'
  <2>1. object' = object /\ object \in Seq(Bodies) /\ ObjectInv
    BY DEF ContentInv, TypeOK, GoesOn, gateway
  <2>2. \A i \in 1..Len(object) : object[i] \in Bodies
    BY <2>1
  <2>3. ASSUME NEW i \in 1..Len(object)
        PROVE  stage'[object[i].by] # "idle" /\ work'[object[i].by] = work[object[i].by]
    <3>1. object[i].by \in Writers /\ stage[object[i].by] # "idle"
      BY <2>1, <2>2 DEF Bodies, ObjectInv
    <3> QED  BY <3>1 DEF GoesOn
  <2> QED  BY <2>1, <2>3 DEF ObjectInv
<1>4. ASSUME NEW v \in Writers, v # w PROVE WriterContent(v)'
  <2>1. WriterContent(v)
    BY DEF ContentInv
  <2>2. /\ work'[v] = work[v] /\ stage'[v] = stage[v] /\ req'[v] = req[v] /\ tries'[v] = tries[v]
        /\ upload'[v] = upload[v] /\ next'[v] = next[v] /\ part'[v] = part[v] /\ error'[v] = error[v]
        /\ object' = object /\ uploads' = uploads /\ staged' = staged
    BY <1>4 DEF GoesOn, gateway
  <2> QED  BY <2>1, <2>2, WriterContentRests
<1> QED  BY <1>1, <1>2, <1>3, <1>4 DEF ContentInv

LEMMA BeginContent ==
  ASSUME WritesInv, ContentInv, NEW w \in Writers, NEW how \in {"put", "append"}, NEW size \in Sizes[w],
         Begin(w, how, size)
  PROVE  ContentInv'
PROOF
<1>1. PICK s : s = IF how = "append" THEN "append" ELSE IF size <= Threshold THEN "put" ELSE "create"
  OBVIOUS
<1>2. /\ s \in {"append", "put", "create"} /\ (s = "append" <=> how = "append")
  BY <1>1
<1>3. /\ stage[w] = "idle" /\ GoTo(w, s) /\ work' = [work EXCEPT ![w] = [how |-> how, size |-> size]]
      /\ UNCHANGED <<object, uploads, staged, written>> /\ UNCHANGED <<next, part, ptries>>
      /\ UNCHANGED <<upload, error, late>>
  BY <1>1 DEF Begin, gateway, workers
<1>4. /\ stage' = [stage EXCEPT ![w] = s] /\ req' = [req EXCEPT ![w] = "sent"]
      /\ tries' = [tries EXCEPT ![w] = 0]
  BY <1>2, <1>3 DEF GoTo, Settled
<1>5. size \in AllSizes /\ size \in Nat
  BY SizesAssumption DEF AllSizes
<1>6. TypeOK /\ WriterContent(w) /\ upload[w] = NoUpload
  BY <1>3 DEF ContentInv, WritesInv, WriterInv, StageInv
<1>7. TypeOK'
  <2>1. /\ work' \in [Writers -> [how : {"put", "append"}, size : AllSizes] \cup {NoWork}]
        /\ stage' \in [Writers -> Stages] /\ req' \in [Writers -> {"none", "sent", "ok", "gone"}]
        /\ tries' \in [Writers -> 0..MaxRetries]
    BY <1>2, <1>3, <1>4, <1>5, <1>6, BoundsAssumption DEF TypeOK, Stages
  <2> QED  BY <1>3, <1>6, <2>1 DEF TypeOK
<1>8. /\ stage'[w] = s /\ req'[w] = "sent" /\ tries'[w] = 0 /\ work'[w] = [how |-> how, size |-> size]
      /\ \A v \in Writers \ {w} : /\ stage'[v] = stage[v] /\ req'[v] = req[v] /\ tries'[v] = tries[v]
                                  /\ work'[v] = work[v]
  BY <1>3, <1>4, <1>6 DEF TypeOK
<1>9. GoesOn(w)
  BY <1>3, <1>8 DEF GoesOn, gateway
<1>10. WriterContent(w)'
  <2>1. \A i \in 1..Len(object) : object[i].by # w
    <3>1. \A i \in 1..Len(object) : stage[object[i].by] # "idle"
      BY DEF ContentInv, ObjectInv
    <3> QED  BY <1>3, <3>1
  <2>2. CallInv(w)'
    BY <1>2, <1>3, <1>6, <1>8, <2>1 DEF CallInv
  <2>3. AliveInv(w)'
    BY <1>2, <1>3, <1>6, <1>8 DEF AliveInv, WriterContent
  <2>4. PartsInv(w)'
    <3>1. Count(w)' \in Nat
      BY <1>5, <1>8, PartCountBounds DEF Count
    <3>2. next[w] = 1 /\ PartsInv(w) /\ upload[w] \notin uploads
      BY <1>6, NobodysUpload DEF PartsInv, WriterContent, WritesInv, WritesTyped
    <3> QED  BY <1>3, <3>1, <3>2 DEF PartsInv
  <2> QED  BY <2>2, <2>3, <2>4 DEF WriterContent
<1> QED  BY <1>3, <1>7, <1>9, <1>10, GoesOnContent

\* A call goes to stage s, knowing the upload u or none, with the error e or
\* none; its parts are as they were.
MovesTo(w, s, u, e) ==
  /\ GoTo(w, s) /\ s \in Stages \ {"idle", "put", "append", "create"}
  /\ UNCHANGED gateway /\ UNCHANGED workers /\ UNCHANGED work
  /\ u \in Uploads \cup {NoUpload} /\ upload' = [upload EXCEPT ![w] = u]
  /\ e \in {"none", "network"} /\ error' = [error EXCEPT ![w] = e]
  /\ late' \subseteq Requests /\ \A m \in late' \ late : m.by = w /\ Rightful(m)' /\ GivenUp(m)'
  /\ stage[w] \in {"put", "append", "create", "parts", "complete", "abort"}
  /\ (stage[w] = "abort") => (s = "failed")
  /\ u = upload[w] \/ upload[w] = NoUpload
  /\ (u # NoUpload) => (work[w].how = "put")
  /\ (s \in {"parts", "complete", "abort"}) => (u # NoUpload)
  /\ (s \in {"parts", "complete"}) => (u \in uploads)
  /\ (s = "complete") => \A p \in PartsOf(w) : part[w][p] = "stored"
  /\ (s = "parts") => \A p \in PartsOf(w) : part[w][p] # "gone"

LEMMA MovesToContent ==
  ASSUME WritesInv, ContentInv, NEW w \in Writers, NEW s, NEW u, NEW e, MovesTo(w, s, u, e)
  PROVE  ContentInv'
PROOF
<1>1. TypeOK /\ WriterContent(w)
  BY DEF ContentInv
<1>2. /\ stage' = [stage EXCEPT ![w] = s] /\ tries' = [tries EXCEPT ![w] = 0]
      /\ req' = [req EXCEPT ![w] = IF s \in {"done", "failed", "parts"} THEN "none" ELSE "sent"]
  BY DEF MovesTo, GoTo, Settled
<1>3. UNCHANGED <<object, uploads, staged, written>> /\ UNCHANGED <<next, part, ptries, work>>
  BY DEF MovesTo, gateway, workers
<1>4. /\ stage'[w] = s /\ upload'[w] = u /\ error'[w] = e /\ req'[w] \in {"none", "sent"}
      /\ s \in {"parts", "done", "failed"} => req'[w] = "none"
      /\ \A v \in Writers \ {w} : /\ stage'[v] = stage[v] /\ req'[v] = req[v] /\ tries'[v] = tries[v]
                                  /\ upload'[v] = upload[v] /\ error'[v] = error[v]
  BY <1>1, <1>2 DEF TypeOK, MovesTo
<1>5. TypeOK'
  <2>1. /\ stage' \in [Writers -> Stages] /\ req' \in [Writers -> {"none", "sent", "ok", "gone"}]
        /\ tries' \in [Writers -> 0..MaxRetries] /\ upload' \in [Writers -> Uploads \cup {NoUpload}]
        /\ error' \in [Writers -> {"none", "network", "NoSuchUpload"}]
    BY <1>1, <1>2, BoundsAssumption DEF TypeOK, MovesTo
  <2> QED  BY <1>1, <1>3, <2>1 DEF TypeOK, MovesTo
<1>6. GoesOn(w)
  BY <1>3, <1>4 DEF GoesOn, MovesTo
<1>7. CallInv(w)'
  BY <1>1, <1>3, <1>4 DEF MovesTo, WriterContent, CallInv, PartsOf, Count
<1>8. AliveInv(w)'
  BY <1>3, <1>4 DEF MovesTo, AliveInv, PartsOf, Count
<1>9. PartsInv(w)'
  <2>1. PartsInv(w) /\ CallInv(w)
    BY <1>1 DEF WriterContent
  <2>2. u = upload[w] \/ upload[w] = NoUpload
    BY DEF MovesTo
  <2>3. CASE u = upload[w]
    BY <1>3, <1>4, <2>1, <2>3 DEF PartsInv, PartsOf, Count
  <2>4. CASE u # upload[w]
    <3>1. next[w] = 1
      BY <2>1, <2>2, <2>4 DEF PartsInv
    <3>2. \A p \in PartsOf(w) : part[w][p] = "todo"
      <4>1. PartsOf(w) \subseteq PartNumbers /\ \A p \in PartsOf(w) : p \in Nat \ {0}
        BY <1>1, <2>1, PartsOfWriter DEF PartsOf
      <4> QED  BY <2>1, <3>1, <4>1 DEF PartsInv
    <3> QED  BY <1>3, <1>4, <2>1, <3>1, <3>2 DEF PartsInv, PartsOf, Count
  <2> QED  BY <2>3, <2>4
<1>10. WriterContent(w)'
  BY <1>7, <1>8, <1>9 DEF WriterContent
<1> QED  BY <1>5, <1>6, <1>10, GoesOnContent DEF MovesTo

LEMMA ReplyContent ==
  ASSUME WritesInv, ContentInv, NEW w \in Writers, Reply(w)
  PROVE  ContentInv'
PROOF
<1>1. /\ TypeOK /\ CallInv(w) /\ AliveInv(w) /\ PartsInv(w) /\ StageInv(w)
  BY DEF ContentInv, WriterContent, WritesInv, WriterInv
<1>2. /\ req[w] = "ok" /\ GoTo(w, AfterReply(stage[w])) /\ UNCHANGED error
      /\ upload' = IF stage[w] = "create" THEN [upload EXCEPT ![w] = [by |-> w, n |-> tries[w]]] ELSE upload
      /\ UNCHANGED gateway /\ UNCHANGED workers /\ UNCHANGED work /\ UNCHANGED late
  BY <1>1 DEF Reply, AliveInv
<1>3. stage[w] \in {"put", "append", "create", "complete", "abort"}
  BY <1>1, <1>2 DEF StageInv, TypeOK, Stages
<1>4. PICK s : s = AfterReply(stage[w])
  OBVIOUS
<1>5. /\ s = IF stage[w] = "create" THEN "parts" ELSE IF stage[w] = "abort" THEN "failed" ELSE "done"
      /\ GoTo(w, s) /\ s \in Stages \ {"idle", "put", "append", "create"}
  BY <1>2, <1>3, <1>4 DEF AfterReply, Stages
<1>6. PICK e \in {"none", "network"} : e = error[w]
  BY <1>1 DEF TypeOK, AliveInv
<1>7. error' = [error EXCEPT ![w] = e]
  BY <1>1, <1>2, <1>6 DEF TypeOK
<1>8. late' \subseteq Requests /\ late' = late
  BY <1>1, <1>2 DEF TypeOK
<1>9. CASE stage[w] = "create"
  <2>1. PICK u \in Uploads : u = [by |-> w, n |-> tries[w]]
    BY <1>1 DEF Uploads, TypeOK
  <2>2. upload' = [upload EXCEPT ![w] = u] /\ u \in uploads /\ u # NoUpload /\ upload[w] = NoUpload
    BY <1>1, <1>2, <1>9, <2>1, WritersAssumption DEF AliveInv, StageInv, NoUpload
  <2>3. \A p \in PartsOf(w) : part[w][p] # "gone"
    <3>1. PartsOf(w) \subseteq PartNumbers /\ \A p \in PartsOf(w) : p \in Nat \ {0}
      BY <1>1, PartsOfWriter DEF PartsOf
    <3> QED  BY <1>1, <2>2, <3>1 DEF PartsInv
  <2>4. work[w].how = "put" /\ s = "parts"
    BY <1>1, <1>5, <1>9 DEF CallInv
  <2>5. MovesTo(w, s, u, e)
    BY <1>2, <1>5, <1>7, <1>8, <1>9, <2>2, <2>3, <2>4 DEF MovesTo
  <2> QED  BY <2>5, MovesToContent
<1>10. CASE stage[w] # "create"
  <2>1. PICK u \in Uploads \cup {NoUpload} : u = upload[w]
    BY <1>1 DEF TypeOK
  <2>2. upload' = [upload EXCEPT ![w] = u] /\ (u # NoUpload => work[w].how = "put")
    BY <1>1, <1>2, <1>10, <2>1 DEF TypeOK, CallInv
  <2>3. s \in {"done", "failed"} /\ (stage[w] = "abort" => s = "failed")
    BY <1>3, <1>5, <1>10
  <2>4. MovesTo(w, s, u, e)
    BY <1>2, <1>3, <1>5, <1>7, <1>8, <2>1, <2>2, <2>3 DEF MovesTo
  <2> QED  BY <2>4, MovesToContent
<1> QED  BY <1>9, <1>10

\* Once every worker has returned, every part is stored.
LEMMA CompleteContent ==
  ASSUME WritesInv, ContentInv, NEW w \in Writers, Complete(w)
  PROVE  ContentInv'
PROOF
<1>1. /\ TypeOK /\ CallInv(w) /\ AliveInv(w) /\ PartsInv(w)
  BY DEF ContentInv, WriterContent
<1>2. /\ stage[w] = "parts" /\ AllReturned(w) /\ GoTo(w, "complete")
      /\ UNCHANGED gateway /\ UNCHANGED workers /\ UNCHANGED work
      /\ UNCHANGED <<upload, error, late>>
  BY DEF Complete
<1>3. PICK e \in {"none", "network"} : e = error[w]
  BY <1>1 DEF TypeOK, AliveInv
<1>4. PICK u \in Uploads \cup {NoUpload} : u = upload[w]
  BY <1>1 DEF TypeOK
<1>5. /\ error' = [error EXCEPT ![w] = e] /\ upload' = [upload EXCEPT ![w] = u]
      /\ late' \subseteq Requests /\ late' = late
  BY <1>1, <1>2, <1>3, <1>4 DEF TypeOK
<1>6. u # NoUpload /\ work[w].how = "put" /\ u \in uploads
  BY <1>1, <1>2, <1>4 DEF CallInv, AliveInv
<1>7. ASSUME NEW p \in PartsOf(w) PROVE part[w][p] = "stored"
  <2>1. p \in PartNumbers /\ p \in Nat /\ p <= Count(w) /\ Count(w) \in Nat
    BY <1>1, PartsOfWriter DEF PartsOf
  <2>2. part[w][p] # "todo"
    BY <1>1, <1>2, <2>1 DEF AllReturned, PartsInv
  <2>3. part[w][p] \notin {"sent", "ok", "gone", "failed"}
    BY <1>2 DEF AllReturned, Busy, In
  <2> QED  BY <1>1, <2>1, <2>2, <2>3 DEF TypeOK
<1>8. "complete" \in Stages \ {"idle", "put", "append", "create"}
  BY DEF Stages
<1>9. MovesTo(w, "complete", u, e)
  BY <1>2, <1>4, <1>5, <1>6, <1>7, <1>8 DEF MovesTo
<1> QED  BY <1>9, MovesToContent

\* A request is repeated.
LEMMA RetriedContent ==
  ASSUME WritesInv, ContentInv, NEW w \in Writers, Fails(w), UNCHANGED <<stage, error>>,
         MayRetry(stage[w], tries[w]), tries' = [tries EXCEPT ![w] = @ + 1], req' = [req EXCEPT ![w] = "sent"]
  PROVE  ContentInv'
PROOF
<1>1. /\ TypeOK /\ CallInv(w) /\ AliveInv(w) /\ PartsInv(w) /\ StageInv(w)
  BY DEF ContentInv, WriterContent, WritesInv, WriterInv
<1>2. PICK m : m = Message(w)
  OBVIOUS
<1>3. /\ m.kind = stage[w] /\ m.by = w
      /\ req[w] \in {"sent", "ok"} /\ late' = IF req[w] = "sent" THEN late \cup {m} ELSE late
      /\ UNCHANGED <<object, uploads, staged, written>> /\ UNCHANGED <<next, part, ptries>>
      /\ UNCHANGED <<work, upload>>
  BY <1>2 DEF Fails, Message, gateway, workers
<1>4. /\ stage[w] \in {"put", "create", "abort"} /\ tries[w] < MaxRetries
  BY <1>1, <1>3 DEF MayRetry, Retried, StageInv, TypeOK, Stages
<1>5. /\ tries[w] \in 0..MaxRetries /\ tries[w] + 1 \in 0..MaxRetries
  BY <1>1, <1>4, BoundsAssumption DEF TypeOK
<1>6. /\ req'[w] = "sent"
      /\ \A v \in Writers \ {w} : tries'[v] = tries[v] /\ req'[v] = req[v]
      /\ tries' \in [Writers -> 0..MaxRetries] /\ req' \in [Writers -> {"none", "sent", "ok", "gone"}]
  BY <1>1, <1>5 DEF TypeOK
<1>7. m \in Requests
  BY <1>1, <1>2, <1>4, <1>5 DEF TypeOK, Message, Requests
<1>8. req[w] = "sent" => Rightful(m)
  BY <1>2, SentIsRightful
<1>9. TypeOK'
  <2>1. late' \subseteq Requests
    BY <1>1, <1>3, <1>7 DEF TypeOK
  <2> QED  BY <1>1, <1>3, <1>6, <2>1 DEF TypeOK
<1>10. GoesOn(w)
  BY <1>3, <1>6 DEF GoesOn, gateway
<1>11. WriterContent(w)'
  <2>1. CallInv(w)'
    BY <1>1, <1>3, <1>4 DEF CallInv, PartsOf, Count
  <2>2. AliveInv(w)'
    BY <1>1, <1>3, <1>4, <1>6 DEF AliveInv, PartsOf, Count
  <2>3. PartsInv(w)'
    BY <1>1, <1>3 DEF PartsInv, PartsOf, Count
  <2> QED  BY <2>1, <2>2, <2>3 DEF WriterContent
<1>12. req[w] = "sent" => Rightful(m)' /\ GivenUp(m)'
  <2>1. GivenUp(m)'
    BY <1>3, <1>4 DEF GivenUp
  <2>2. req[w] = "sent" => Rightful(m)'
    BY <1>3, <1>8 DEF Rightful, PartsOf, Count
  <2> QED  BY <2>1, <2>2
<1> QED  BY <1>3, <1>9, <1>10, <1>11, <1>12, GoesOnContent

\* A request is given up on.
LEMMA GivenUpContent ==
  ASSUME WritesInv, ContentInv, NEW w \in Writers, Fails(w),
         GoTo(w, AfterFailure(stage[w])), Throw(w, "network")
  PROVE  ContentInv'
PROOF
<1>1. /\ TypeOK /\ CallInv(w) /\ AliveInv(w) /\ PartsInv(w) /\ StageInv(w)
  BY DEF ContentInv, WriterContent, WritesInv, WriterInv
<1>2. PICK m : m = Message(w)
  OBVIOUS
<1>3. /\ m.kind = stage[w] /\ m.by = w
      /\ req[w] \in {"sent", "ok"} /\ late' = IF req[w] = "sent" THEN late \cup {m} ELSE late
      /\ UNCHANGED gateway /\ UNCHANGED workers /\ UNCHANGED work /\ UNCHANGED upload
  BY <1>2 DEF Fails, Message
<1>4. stage[w] \in {"put", "append", "create", "complete", "abort"}
  BY <1>1, <1>3 DEF StageInv, TypeOK, Stages
<1>5. PICK s \in {"abort", "failed"} : s = AfterFailure(stage[w])
  BY DEF AfterFailure
<1>6. /\ s = IF stage[w] = "complete" THEN "abort" ELSE "failed"
      /\ GoTo(w, s) /\ s \in Stages \ {"idle", "put", "append", "create"}
  BY <1>4, <1>5 DEF AfterFailure, Stages
<1>7. PICK e \in {"none", "network"} : e = IF error[w] = "none" THEN "network" ELSE error[w]
  BY <1>1 DEF TypeOK, AliveInv
<1>8. PICK u \in Uploads \cup {NoUpload} : u = upload[w]
  BY <1>1 DEF TypeOK
<1>9. error' = [error EXCEPT ![w] = e] /\ upload' = [upload EXCEPT ![w] = u]
  BY <1>1, <1>3, <1>7, <1>8 DEF TypeOK, Throw
<1>10. (u # NoUpload => work[w].how = "put") /\ (s = "abort" => u # NoUpload)
  BY <1>1, <1>6, <1>8 DEF CallInv
<1>11. m \in Requests
  BY <1>1, <1>2, <1>4, BoundsAssumption DEF TypeOK, Message, Requests
<1>12. late' \subseteq Requests
  BY <1>1, <1>3, <1>11 DEF TypeOK
<1>13. stage'[w] = s /\ stage' = [stage EXCEPT ![w] = s]
  BY <1>1, <1>6 DEF TypeOK, GoTo
<1>14. ASSUME req[w] = "sent" PROVE Rightful(m)' /\ GivenUp(m)'
  <2>1. Rightful(m)
    BY <1>2, <1>14, SentIsRightful
  <2>2. work' = work /\ object' = object /\ upload' = upload /\ part' = part
    BY <1>3 DEF gateway, workers
  <2>3. Rightful(m)'
    BY <1>3, <1>13, <2>1, <2>2 DEF Rightful, PartsOf, Count
  <2>4. GivenUp(m)'
    BY <1>3, <1>6, <1>13 DEF GivenUp
  <2> QED  BY <2>3, <2>4
<1>15. \A x \in late' \ late : x.by = w /\ Rightful(x)' /\ GivenUp(x)'
  BY <1>3, <1>14
<1>16. MovesTo(w, s, u, e)
  BY <1>3, <1>4, <1>5, <1>6, <1>8, <1>9, <1>10, <1>12, <1>15 DEF MovesTo
<1> QED  BY <1>16, MovesToContent

-----------------------------------------------------------------------------
(* The workers. *)

LEMMA TakePartContent ==
  ASSUME WritesInv, ContentInv, NEW w \in Writers, TakePart(w)
  PROVE  ContentInv'
PROOF
<1>1. /\ TypeOK /\ CallInv(w) /\ AliveInv(w) /\ PartsInv(w)
  BY DEF ContentInv, WriterContent
<1>2. /\ upload[w] # NoUpload /\ next[w] <= Count(w)
      /\ part' = [part EXCEPT ![w][next[w]] = "sent"] /\ next' = [next EXCEPT ![w] = @ + 1]
      /\ UNCHANGED <<object, uploads, staged, written>> /\ UNCHANGED <<work, stage, req, tries, upload, error>>
      /\ UNCHANGED <<ptries, late>>
  BY DEF TakePart, gateway, call
<1>3. PICK n \in Nat \ {0} : n = next[w]
  BY <1>1 DEF PartsInv
<1>4. /\ n \in PartsOf(w) /\ n \in PartNumbers /\ Count(w) \in Nat
  BY <1>1, <1>2, <1>3, PartsOfWriter DEF PartsOf
<1>5. /\ \A v \in Writers \ {w} : part'[v] = part[v] /\ next'[v] = next[v]
      /\ next'[w] = n + 1
      /\ \A p : part'[w][p] = IF p = n /\ p \in PartNumbers THEN "sent" ELSE part[w][p]
  BY <1>1, <1>2, <1>3, <1>4 DEF TypeOK
<1>6. part[w][n] = "todo"
  BY <1>1, <1>3, <1>4 DEF PartsInv
<1>7. TypeOK'
  <2>1. part' \in [Writers -> [PartNumbers -> {"todo", "sent", "ok", "gone", "stored", "failed"}]]
    BY <1>1, <1>2, <1>3 DEF TypeOK
  <2>2. next' \in [Writers -> Nat]
    <3>1. next \in [Writers -> Nat] /\ next' = [next EXCEPT ![w] = n + 1] /\ n + 1 \in Nat
      BY <1>1, <1>2, <1>3 DEF TypeOK
    <3> QED  BY <3>1
  <2> QED  BY <1>1, <1>2, <2>1, <2>2 DEF TypeOK
<1>8. GoesOn(w)
  BY <1>2, <1>5, <1>6 DEF GoesOn, gateway
<1>9. CallInv(w)'
  BY <1>1, <1>2, <1>4, <1>5, <1>6 DEF CallInv, PartsOf, Count
<1>10. AliveInv(w)'
  BY <1>1, <1>2, <1>5 DEF AliveInv, PartsOf, Count
<1>11. PartsInv(w)'
  <2>1. n + 1 \in Nat \ {0} /\ n + 1 <= Count(w) + 1
    BY <1>2, <1>3, <1>4
  <2>2. \A p \in PartNumbers : p \in Nat
    BY DEF PartNumbers
  <2>3. \A p \in PartNumbers : part'[w][p] # "todo" <=> p < n + 1
    BY <1>1, <1>3, <1>5, <2>2 DEF PartsInv
  <2>4. \A p \in PartsOf(w) : part'[w][p] \in {"ok", "stored"} => part[w][p] \in {"ok", "stored"}
    BY <1>5
  <2> QED  BY <1>1, <1>2, <1>5, <2>1, <2>3, <2>4 DEF PartsInv, PartsOf, Count
<1>12. WriterContent(w)'
  BY <1>9, <1>10, <1>11 DEF WriterContent
<1> QED  BY <1>2, <1>7, <1>8, <1>12, GoesOnContent

\* A part goes on, from a state in which it was taken and not stored.
PartTo(w, p, s) ==
  /\ part[w][p] \notin {"todo", "stored"}
  /\ s \in {"sent", "ok", "gone", "stored", "failed"}
  /\ (s \in {"ok", "stored"}) => (part[w][p] = "ok")
  /\ (s = "gone") => (part[w][p] = "gone")
  /\ part' = [part EXCEPT ![w][p] = s]

LEMMA PartToGoes ==
  ASSUME TypeOK, NEW w \in Writers, NEW p \in PartNumbers, NEW s, PartTo(w, p, s)
  PROVE  /\ part' \in [Writers -> [PartNumbers -> {"todo", "sent", "ok", "gone", "stored", "failed"}]]
         /\ \A v \in Writers \ {w} : part'[v] = part[v]
         /\ \A q : part[w][q] = "stored" => part'[w][q] = "stored"
         /\ \A q \in PartNumbers : part'[w][q] # "todo" <=> part[w][q] # "todo"
         /\ \A q \in PartNumbers : part'[w][q] \in {"ok", "stored"} => part[w][q] \in {"ok", "stored"}
         /\ \A q \in PartNumbers : part'[w][q] = "gone" => part[w][q] = "gone"
BY DEF TypeOK, PartTo

\* The call stays where it is.
LEMMA PartToContent ==
  ASSUME WritesInv, ContentInv, NEW w \in Writers, NEW p \in PartNumbers, NEW s, PartTo(w, p, s),
         UNCHANGED gateway, UNCHANGED call, UNCHANGED next,
         ptries' \in [Writers -> [PartNumbers -> 0..MaxRetries]],
         late' = late \/ (part[w][p] = "sent" /\ late' = late \cup {PartMessage(w, p)})
  PROVE  ContentInv'
PROOF
<1>1. /\ TypeOK /\ CallInv(w) /\ AliveInv(w) /\ PartsInv(w)
  BY DEF ContentInv, WriterContent
<1>2. /\ UNCHANGED <<object, uploads, staged, written>> /\ UNCHANGED <<work, stage, req, tries, upload, error, next>>
  BY DEF gateway, call
<1>3. /\ PartsOf(w) \subseteq PartNumbers
  BY <1>1, PartsOfWriter
<1>4. PICK m : m = PartMessage(w, p)
  OBVIOUS
<1>5. /\ m.kind = "part" /\ m.by = w /\ Rightful(m) /\ m \in Requests
      /\ late' = late \/ late' = late \cup {m}
  <2>1. part[w][p] # "todo"
    BY DEF PartTo
  <2>2. p \in Nat /\ upload[w] \in Uploads \cup {NoUpload}
    BY <1>1 DEF PartNumbers, TypeOK
  <2> QED  BY <1>4, <2>1, <2>2, PartIsRightful DEF PartMessage, Requests
<1>6. TypeOK'
  <2>1. part' \in [Writers -> [PartNumbers -> {"todo", "sent", "ok", "gone", "stored", "failed"}]]
    BY <1>1, PartToGoes
  <2> QED  BY <1>1, <1>2, <1>5, <2>1 DEF TypeOK
<1>7. GoesOn(w)
  BY <1>1, <1>2, PartToGoes DEF GoesOn, gateway
<1>8. WriterContent(w)'
  <2>1. CallInv(w)'
    BY <1>1, <1>2, PartToGoes DEF CallInv, PartsOf, Count
  <2>2. AliveInv(w)'
    <3>1. \A q \in PartsOf(w) : part'[w][q] = "gone" => part[w][q] = "gone"
      BY <1>1, <1>3, PartToGoes
    <3> QED  BY <1>1, <1>2, <3>1 DEF AliveInv, PartsOf, Count
  <2>3. PartsInv(w)'
    <3>1. \A q \in PartNumbers : part'[w][q] # "todo" <=> part[w][q] # "todo"
      BY <1>1, PartToGoes
    <3>2. \A q \in PartsOf(w) : part'[w][q] \in {"ok", "stored"} => part[w][q] \in {"ok", "stored"}
      BY <1>1, <1>3, PartToGoes
    <3> QED  BY <1>1, <1>2, <3>1, <3>2 DEF PartsInv, PartsOf, Count
  <2> QED  BY <2>1, <2>2, <2>3 DEF WriterContent
<1>9. Rightful(m)' /\ GivenUp(m)'
  BY <1>2, <1>5 DEF Rightful, GivenUp, PartsOf, Count
<1> QED  BY <1>5, <1>6, <1>7, <1>8, <1>9, GoesOnContent

\* The first failure makes the call abort: a part that says there is no such
\* upload is not the first.
LEMMA PartRejectsContent ==
  ASSUME WritesInv, ContentInv, NEW w \in Writers, NEW p \in PartNumbers, NEW e \in {"network", "NoSuchUpload"},
         part[w][p] \in {"sent", "ok", "gone"}, (e = "NoSuchUpload") => (part[w][p] = "gone"),
         PartRejects(w, p, e), UNCHANGED gateway, UNCHANGED <<next, ptries, work, upload>>,
         late' = late \/ (part[w][p] = "sent" /\ late' = late \cup {PartMessage(w, p)})
  PROVE  ContentInv'
PROOF
<1>1. /\ TypeOK /\ CallInv(w) /\ AliveInv(w) /\ PartsInv(w)
  BY DEF ContentInv, WriterContent
<1>2. PartTo(w, p, "failed")
  BY DEF PartTo, PartRejects
<1>3. CASE stage[w] # "parts"
  <2>1. UNCHANGED call
    BY <1>3 DEF PartRejects, call
  <2>2. ptries' \in [Writers -> [PartNumbers -> 0..MaxRetries]]
    BY <1>1 DEF TypeOK
  <2> QED  BY <1>2, <2>1, <2>2, PartToContent
<1>4. CASE stage[w] = "parts"
  <2>1. /\ PartsOf(w) \subseteq PartNumbers /\ p \in PartsOf(w) /\ Rightful(PartMessage(w, p))
    BY <1>1, PartIsRightful, PartsOfWriter
  <2>2. e = "network"
    BY <1>1, <1>4, <2>1 DEF AliveInv
  <2>3. /\ GoTo(w, "abort") /\ Throw(w, "network")
        /\ UNCHANGED <<object, uploads, staged, written>> /\ UNCHANGED <<work, upload, next>>
    BY <1>4, <2>2 DEF PartRejects, AfterFailure, gateway
  <2>4. /\ stage' = [stage EXCEPT ![w] = "abort"] /\ req' = [req EXCEPT ![w] = "sent"]
        /\ tries' = [tries EXCEPT ![w] = 0]
        /\ error' = [error EXCEPT ![w] = IF @ = "none" THEN "network" ELSE @]
    BY <2>3 DEF GoTo, Settled, Throw
  <2>5. /\ stage'[w] = "abort" /\ req'[w] = "sent" /\ error'[w] \in {"none", "network"}
        /\ \A v \in Writers \ {w} : /\ stage'[v] = stage[v] /\ req'[v] = req[v] /\ tries'[v] = tries[v]
                                    /\ error'[v] = error[v]
    BY <1>1, <2>4 DEF TypeOK, AliveInv
  <2>6. PICK m : m = PartMessage(w, p)
    OBVIOUS
  <2>7. /\ m.kind = "part" /\ m.by = w /\ Rightful(m) /\ m \in Requests
        /\ late' = late \/ late' = late \cup {m}
    <3>1. p \in Nat /\ upload[w] \in Uploads \cup {NoUpload}
      BY <1>1 DEF PartNumbers, TypeOK
    <3> QED  BY <2>1, <2>6, <3>1 DEF PartMessage, Requests
  <2>8. TypeOK'
    <3>1. part' \in [Writers -> [PartNumbers -> {"todo", "sent", "ok", "gone", "stored", "failed"}]]
      BY <1>1, <1>2, PartToGoes
    <3>2. /\ stage' \in [Writers -> Stages] /\ req' \in [Writers -> {"none", "sent", "ok", "gone"}]
          /\ tries' \in [Writers -> 0..MaxRetries] /\ error' \in [Writers -> {"none", "network", "NoSuchUpload"}]
      BY <1>1, <2>4, BoundsAssumption DEF TypeOK, Stages
    <3>3. late' \subseteq Requests
      BY <1>1, <2>7 DEF TypeOK
    <3> QED  BY <1>1, <2>3, <3>1, <3>2, <3>3 DEF TypeOK
  <2>9. GoesOn(w)
    BY <1>1, <1>2, <1>4, <2>3, <2>5, PartToGoes DEF GoesOn, gateway
  <2>10. WriterContent(w)'
    <3>1. CallInv(w)'
      BY <1>1, <1>4, <2>3, <2>5 DEF CallInv, PartsOf, Count
    <3>2. AliveInv(w)'
      BY <2>5 DEF AliveInv
    <3>3. PartsInv(w)'
      <4>1. \A q \in PartNumbers : part'[w][q] # "todo" <=> part[w][q] # "todo"
        BY <1>1, <1>2, PartToGoes
      <4>2. \A q \in PartsOf(w) : part'[w][q] \in {"ok", "stored"} => part[w][q] \in {"ok", "stored"}
        BY <1>1, <1>2, <2>1, PartToGoes
      <4> QED  BY <1>1, <2>3, <4>1, <4>2 DEF PartsInv, PartsOf, Count
    <3> QED  BY <3>1, <3>2, <3>3 DEF WriterContent
  <2>11. Rightful(m)' /\ GivenUp(m)'
    BY <2>3, <2>5, <2>7 DEF Rightful, GivenUp, PartsOf, Count
  <2> QED  BY <2>7, <2>8, <2>9, <2>10, <2>11, GoesOnContent
<1> QED  BY <1>3, <1>4

LEMMA PartFailsContent ==
  ASSUME WritesInv, ContentInv, NEW w \in Writers, NEW p \in PartNumbers, PartFails(w, p)
  PROVE  ContentInv'
PROOF
<1>1. /\ part[w][p] \in {"sent", "ok"} /\ UNCHANGED gateway /\ UNCHANGED <<next, work, upload>>
      /\ late' = late \/ (part[w][p] = "sent" /\ late' = late \cup {PartMessage(w, p)})
  BY DEF PartFails
<1>2. CASE /\ MayRetry("part", ptries[w][p])
           /\ ptries' = [ptries EXCEPT ![w][p] = @ + 1]
           /\ part' = [part EXCEPT ![w][p] = "sent"]
           /\ UNCHANGED <<stage, req, tries, error>>
  <2>1. PartTo(w, p, "sent") /\ UNCHANGED call
    BY <1>1, <1>2 DEF PartTo, call
  <2>2. ptries' \in [Writers -> [PartNumbers -> 0..MaxRetries]]
    <3>1. ptries \in [Writers -> [PartNumbers -> 0..MaxRetries]]
      BY DEF ContentInv, TypeOK
    <3>2. ptries[w][p] + 1 \in 0..MaxRetries
      BY <1>2, <3>1, BoundsAssumption DEF MayRetry
    <3> QED  BY <1>2, <3>1, <3>2
  <2> QED  BY <1>1, <2>1, <2>2, PartToContent
<1>3. CASE PartRejects(w, p, "network") /\ UNCHANGED ptries
  BY <1>1, <1>3, PartRejectsContent
<1> QED  BY <1>2, <1>3 DEF PartFails

\* Every step keeps the invariant.
LEMMA NextContentInv == WritesInv /\ ContentInv /\ [Next]_vars => ContentInv'
PROOF
<1> SUFFICES ASSUME WritesInv, ContentInv, [Next]_vars PROVE ContentInv'
  OBVIOUS
<1>1. ASSUME NEW w \in Writers, ClientStep(w) PROVE ContentInv'
  <2>1. ASSUME NEW p \in PartNumbers, PartStored(w, p) PROVE ContentInv'
    <3>1. PartTo(w, p, "stored")
      BY <2>1 DEF PartStored, PartTo
    <3>2. ptries' \in [Writers -> [PartNumbers -> 0..MaxRetries]]
      BY <2>1 DEF PartStored, ContentInv, TypeOK
    <3> QED  BY <2>1, <3>1, <3>2, PartToContent DEF PartStored
  <2>2. ASSUME NEW p \in PartNumbers, PartGone(w, p) PROVE ContentInv'
    BY <2>2, PartRejectsContent DEF PartGone
  <2> QED  BY <1>1, <2>1, <2>2, ReplyContent, CompleteContent, TakePartContent DEF ClientStep
<1>2. ASSUME NEW w \in Writers, Served(w) PROVE ContentInv'
  BY <1>2, ServeContent, ServePartContent DEF Served
<1>3. ASSUME NEW w \in Writers, Fails(w) PROVE ContentInv'
  BY <1>3, RetriedContent, GivenUpContent DEF Fails
<1>4. ASSUME NEW w \in Writers, Failure(w) PROVE ContentInv'
  BY <1>3, <1>4, PartFailsContent DEF Failure
<1>5. ASSUME NEW w \in Writers, NEW how \in {"put", "append"}, NEW size \in Sizes[w], Begin(w, how, size)
      PROVE  ContentInv'
  BY <1>5, BeginContent
<1>6. ASSUME NEW m \in late, ServeLate(m) PROVE ContentInv'
  BY <1>6, ServeLateContent
<1>7. CASE UNCHANGED vars
  <2>1. /\ UNCHANGED <<object, uploads, staged, written>> /\ UNCHANGED <<next, part, ptries>>
        /\ UNCHANGED <<work, stage, req, tries, upload, error, late>>
    BY <1>7 DEF vars, gateway, workers, call
  <2>2. TypeOK'
    BY <2>1 DEF ContentInv, TypeOK
  <2>3. LateInv' /\ StagedInv' /\ ObjectInv'
    BY <2>1 DEF ContentInv, LateInv, Rightful, GivenUp, StagedInv, ObjectInv, PartsOf, Count
  <2>4. ASSUME NEW w \in Writers PROVE WriterContent(w)'
    BY <2>1, WriterContentRests DEF ContentInv
  <2> QED  BY <2>2, <2>3, <2>4 DEF ContentInv
<1> QED  BY <1>1, <1>2, <1>4, <1>5, <1>6, <1>7 DEF Next

LEMMA WritesContent == Spec => [](WritesInv /\ ContentInv)
PROOF
<1>1. Init => WritesInv /\ ContentInv
  BY InitWritesInv, InitContentInv
<1>2. (WritesInv /\ ContentInv) /\ [Next]_vars => (WritesInv /\ ContentInv)'
  BY NextWritesInv, NextContentInv
<1> QED  BY <1>1, <1>2, PTL DEF Spec

\* Every request, part and upload is one the code can have.
THEOREM ObjectTypes == Spec => []TypeOK
PROOF
<1>1. WritesInv /\ ContentInv => TypeOK
  BY DEF ContentInv
<1> QED  BY <1>1, WritesContent, PTL

\* Whatever fails, is repeated or executed late, the object is made of whole
\* bodies, and an append is in it once: a body in parts is completed only when
\* every part is stored (_putMultipart), the parts laid end to end are the body
\* (effectiveUploadPartSize), and an append is not repeated (appendObject).
THEOREM ObjectsAreExact == Spec => []BodiesAreExact
PROOF
<1>1. WritesInv /\ ContentInv => BodiesAreExact
  <2> SUFFICES ASSUME ContentInv PROVE WholeBodies /\ AppendedOnce
    BY DEF BodiesAreExact
  <2>1. WholeBodies
    BY DEF ContentInv, ObjectInv, WholeBodies
  <2>2. ASSUME NEW w \in Writers, work[w].how = "append"
        PROVE  Cardinality({i \in 1..Len(object) : object[i].by = w}) <= 1
    <3> DEFINE S == {i \in 1..Len(object) : object[i].by = w}
    <3>1. ASSUME NEW i \in S, NEW j \in S PROVE j = i
      <4>1. work[object[i].by].how = "append" /\ object[j].by = object[i].by
        BY <2>2
      <4> QED  BY <4>1 DEF ContentInv, ObjectInv
    <3> HIDE DEF S
    <3>2. S = {} => Cardinality(S) <= 1
      BY FS_EmptySet
    <3>3. ASSUME S # {} PROVE Cardinality(S) <= 1
      <4>1. PICK i : S = {i}
        BY <3>1, <3>3
      <4> QED  BY <4>1, FS_Singleton
    <3>4. Cardinality(S) <= 1
      BY <3>2, <3>3
    <3> QED  BY <3>4 DEF S
  <2> QED  BY <2>1, <2>2 DEF AppendedOnce
<1> QED  BY <1>1, WritesContent, PTL

\* A completion is asked for when the upload has every part of the body and
\* nothing else, as many as the gateway takes, none but the last too short; and
\* no call is told that its upload does not exist.
THEOREM CompletionsAreGranted == Spec => []CompletionsSucceed
PROOF
<1>1. WritesInv /\ ContentInv => CompletionsSucceed
  <2> SUFFICES ASSUME WritesInv, ContentInv PROVE CompleteIsAcceptable /\ NoSpuriousNoSuchUpload
    BY DEF CompletionsSucceed
  <2>1. NoSpuriousNoSuchUpload
    BY DEF NoSpuriousNoSuchUpload, ContentInv, WriterContent, AliveInv
  <2>2. ASSUME NEW w \in Writers, stage[w] = "complete", upload[w] \in uploads
        PROVE  /\ StagedParts(upload[w]) = PartsOf(w)
               /\ Count(w) <= MaxParts
               /\ \A p \in 1..(Count(w) - 1) : Cardinality(Slice(work[w].size, p)) >= MinPart
               /\ \A p, q \in PartsOf(w) : p # q => Slice(work[w].size, p) \cap Slice(work[w].size, q) = {}
    <3>1. CallInv(w) /\ TypeOK /\ StageInv(w)
      BY DEF ContentInv, WriterContent, WritesInv, WriterInv
    <3>2. work[w].size \in Nat /\ Count(w) <= MaxParts /\ PartsOf(w) \subseteq Nat
      BY <3>1, PartsOfWriter
    <3>3. StagedParts(upload[w]) = PartsOf(w)
      BY <2>2, <3>1, AssembledIsWhole DEF CallInv, StageInv
    <3>4. \A p \in 1..(Count(w) - 1) : Cardinality(Slice(work[w].size, p)) >= MinPart
      BY <3>2, SlicesAreLongEnough DEF Count
    <3>5. \A p, q \in PartsOf(w) : p # q => Slice(work[w].size, p) \cap Slice(work[w].size, q) = {}
      BY <3>2, SlicesAreDisjoint
    <3> QED  BY <3>2, <3>3, <3>4, <3>5
  <2> QED  BY <2>1, <2>2 DEF CompleteIsAcceptable
<1> QED  BY <1>1, WritesContent, PTL

=============================================================================
