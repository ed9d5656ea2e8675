-------------------------- MODULE NetworkBytes_proofs --------------------------
(***************************************************************************)
(* AnswersMatch for any number of clients and requests of any length.  The *)
(* requests a client has begun are laid end to end; what it has sent and   *)
(* not yet had read, followed by what it has not yet sent, is the end of   *)
(* that, and where it begins is where the thread's reading stands: at the  *)
(* header of the next request, or the data of this one before it.  Only a  *)
(* header cut short loses the place, and the thread that took it for whole *)
(* answers once more at most.                                              *)
(***************************************************************************)
EXTENDS NetworkServer_proofs

\* All the bytes of the requests of q: the i-th begins after at[i] of them.
Written(at, bytes, q) ==
    /\ at \in [Nat -> Nat] /\ bytes \in [Nat -> Nat]
    /\ \A i \in 1 .. Len(q) :
         /\ at[i + 1] = at[i] + 2 + q[i].length
         /\ bytes[at[i] + 1] = q[i].cmd
         /\ bytes[at[i] + 2] = q[i].length
         /\ at[i] + 2 <= at[Len(q) + 1]

\* After n of the bytes come those of s and l, to the last one.
Rest(at, bytes, n, q, s, l) ==
    /\ at[Len(q) + 1] = n + Len(s) + Len(l)
    /\ \A x \in 1 .. Len(s) : s[x] = bytes[n + x]
    /\ \A x \in 1 .. Len(l) : l[x] = bytes[n + Len(s) + x]

LEMMA RestAfter ==
    ASSUME NEW at, NEW bytes, NEW n \in Nat, NEW q, NEW s \in Seq(Nat), NEW l \in Seq(Nat),
           Rest(at, bytes, n, q, s, l), NEW m \in Nat, m <= Len(s)
    PROVE  Rest(at, bytes, n + m, q, SubSeq(s, m + 1, Len(s)), l)
<1> DEFINE t == SubSeq(s, m + 1, Len(s))
<1>1. Len(t) = Len(s) - m /\ \A x \in 1 .. Len(s) - m : t[x] = s[x + m]
  BY Dropped
<1> HIDE DEF t
<1>2. Len(s) \in Nat /\ Len(l) \in Nat
  OBVIOUS
<1>3. \A x \in 1 .. Len(t) : t[x] = bytes[(n + m) + x]
  <2> SUFFICES ASSUME NEW x \in 1 .. Len(t) PROVE t[x] = bytes[(n + m) + x]
    OBVIOUS
  <2>1. x \in Nat /\ x + m \in 1 .. Len(s) /\ t[x] = s[x + m] /\ n + (x + m) = (n + m) + x
    BY <1>1, <1>2
  <2> QED BY <2>1 DEF Rest
<1>4. (n + m) + Len(t) = n + Len(s)
  BY <1>1, <1>2
<1> QED BY <1>2, <1>3, <1>4 DEF Rest, t

LEMMA RestSent ==
    ASSUME NEW at, NEW bytes, NEW n \in Nat, NEW q, NEW s \in Seq(Nat), NEW l \in Seq(Nat),
           Rest(at, bytes, n, q, s, l), l # <<>>
    PROVE  Rest(at, bytes, n, q, Append(s, Head(l)), Tail(l))
<1> DEFINE t == Append(s, Head(l))
           r == Tail(l)
<1>1. /\ Len(t) = Len(s) + 1 /\ Len(r) = Len(l) - 1 /\ Len(s) \in Nat /\ Len(l) \in Nat \ {0}
      /\ \A x \in 1 .. Len(s) : t[x] = s[x]
      /\ t[Len(s) + 1] = l[1]
      /\ \A x \in 1 .. Len(l) - 1 : r[x] = l[x + 1]
  OBVIOUS
<1> HIDE DEF t, r
<1>2. \A x \in 1 .. Len(t) : t[x] = bytes[n + x]
  <2> SUFFICES ASSUME NEW x \in 1 .. Len(t) PROVE t[x] = bytes[n + x]
    OBVIOUS
  <2>1. CASE x = Len(s) + 1
    <3>1. 1 \in 1 .. Len(l) /\ n + Len(s) + 1 = n + x /\ t[x] = l[1]
      BY <1>1, <2>1
    <3> QED BY <3>1 DEF Rest
  <2>2. CASE x # Len(s) + 1
    <3>1. x \in 1 .. Len(s) /\ t[x] = s[x]
      BY <1>1, <2>2
    <3> QED BY <3>1 DEF Rest
  <2> QED BY <2>1, <2>2
<1>3. \A x \in 1 .. Len(r) : r[x] = bytes[n + Len(t) + x]
  <2> SUFFICES ASSUME NEW x \in 1 .. Len(r) PROVE r[x] = bytes[n + Len(t) + x]
    OBVIOUS
  <2>1. x + 1 \in 1 .. Len(l) /\ r[x] = l[x + 1] /\ n + Len(s) + (x + 1) = n + Len(t) + x
    BY <1>1
  <2> QED BY <2>1 DEF Rest
<1>4. n + Len(t) + Len(r) = n + Len(s) + Len(l)
  BY <1>1
<1> QED BY <1>2, <1>3, <1>4 DEF Rest, t, r

\* The next bytes are those of the next header.
LEMMA RestHeader ==
    ASSUME NEW at, NEW bytes, NEW n \in Nat, NEW R, NEW q \in Seq(R), NEW s \in Seq(Nat), NEW l \in Seq(Nat),
           Written(at, bytes, q), Rest(at, bytes, n, q, s, l),
           NEW k \in Nat, k <= Len(q), at[k + 1] = n, Len(s) > 0
    PROVE  /\ k + 1 \in 1 .. Len(q)
           /\ s[1] = q[k + 1].cmd
           /\ Len(s) >= 2 => s[2] = q[k + 1].length /\ at[k + 2] = n + 2 + s[2]
<1>1. Len(s) \in Nat /\ Len(l) \in Nat /\ Len(q) \in Nat
  OBVIOUS
<1>2. at[Len(q) + 1] # n
  BY <1>1 DEF Rest
<1>3. k # Len(q)
  BY <1>2
<1>4. k + 1 \in 1 .. Len(q)
  BY <1>1, <1>3
<1>5. 1 \in 1 .. Len(s) /\ (Len(s) >= 2 => 2 \in 1 .. Len(s))
  BY <1>1
<1>6. /\ bytes[n + 1] = q[k + 1].cmd /\ bytes[n + 2] = q[k + 1].length
      /\ at[(k + 1) + 1] = n + 2 + q[k + 1].length
  BY <1>4 DEF Written
<1>7. s[1] = bytes[n + 1] /\ (Len(s) >= 2 => s[2] = bytes[n + 2])
  BY <1>5 DEF Rest
<1>8. (k + 1) + 1 = k + 2
  OBVIOUS
<1> QED BY <1>4, <1>6, <1>7, <1>8

\* Nothing is left once every request was read to its end.
LEMMA RestNone ==
    ASSUME NEW at, NEW bytes, NEW n \in Nat, NEW q, NEW s \in Seq(Nat), NEW l \in Seq(Nat),
           Rest(at, bytes, n, q, s, l), at[Len(q) + 1] = n
    PROVE  l = <<>>
<1>1. Len(s) \in Nat /\ Len(l) \in Nat /\ (Len(l) = 0 => l = <<>>)
  OBVIOUS
<1> QED BY <1>1 DEF Rest

\* A function that goes on with a sequence after e.
LEMMA Extended ==
    ASSUME NEW bytes \in [Nat -> Nat], NEW e \in Nat, NEW msg \in Seq(Nat)
    PROVE  \E more \in [Nat -> Nat] : /\ \A x \in Nat : x <= e => more[x] = bytes[x]
                                     /\ \A x \in 1 .. Len(msg) : more[e + x] = msg[x]
<1> DEFINE len  == Len(msg)
           more == [x \in Nat |-> IF x <= e THEN bytes[x] ELSE IF x - e <= len THEN msg[x - e] ELSE 0]
<1>1. len \in Nat /\ \A x \in 1 .. len : msg[x] \in Nat
  BY LenProperties, ElementOfSeq
<1> HIDE DEF len
<1>2. \A x \in Nat : ~(x <= e) /\ x - e <= len => x - e \in 1 .. len
  BY <1>1
<1>3. more \in [Nat -> Nat]
  BY <1>1, <1>2
<1>4. \A x \in 1 .. len : more[e + x] = msg[x]
  <2> SUFFICES ASSUME NEW x \in 1 .. len PROVE more[e + x] = msg[x]
    OBVIOUS
  <2>1. e + x \in Nat /\ ~(e + x <= e) /\ (e + x) - e = x /\ x <= len
    BY <1>1
  <2> QED BY <2>1
<1>5. \A x \in Nat : x <= e => more[x] = bytes[x]
  OBVIOUS
<1> HIDE DEF more
<1> QED BY <1>3, <1>4, <1>5 DEF len

\* The bytes as they are with r after the requests of q, none of it sent.
Lengthened(at, n, q, s, r) ==
    \E new, more : /\ Written(new, more, Append(q, r))
                   /\ Rest(new, more, n, Append(q, r), s, Message(r))
                   /\ \A i \in Nat : i <= Len(q) + 1 => new[i] = at[i]

\* Another request is begun when the others have been sent.
LEMMA RestAsked ==
    ASSUME NEW at, NEW bytes, NEW n \in Nat, NEW R, NEW q \in Seq(R), NEW s \in Seq(Nat),
           Written(at, bytes, q), Rest(at, bytes, n, q, s, <<>>),
           NEW r \in R, r.cmd \in Nat, r.length \in Nat
    PROVE  Lengthened(at, n, q, s, r)
<1> DEFINE z   == Len(q)
           p   == Append(q, r)
           msg == Message(r)
           len == 2 + r.length
           e   == n + Len(s)
<1>1. /\ Len(p) = z + 1 /\ p[z + 1] = r /\ \A i \in 1 .. z : p[i] = q[i]
      /\ z \in Nat /\ z + 1 \in Nat /\ e \in Nat /\ Len(<<>>) = 0 /\ Len(s) \in Nat
  OBVIOUS
<1>2. len \in Nat /\ Len(msg) = len /\ msg \in Seq(Nat)
  BY MessageBytes
<1>3. msg[1] = r.cmd /\ msg[2] = r.length /\ 1 \in 1 .. len /\ 2 \in 1 .. len
  BY MessageBytes
<1>4. at \in [Nat -> Nat] /\ bytes \in [Nat -> Nat] /\ at[z + 1] = e
  <2>1. at[z + 1] = n + Len(s) + Len(<<>>)
    BY DEF Rest
  <2>2. e + 0 = e
    BY <1>1
  <2> QED BY <1>1, <2>1, <2>2 DEF Written
<1>5. PICK more \in [Nat -> Nat] : /\ \A x \in Nat : x <= e => more[x] = bytes[x]
                                  /\ \A x \in 1 .. len : more[e + x] = msg[x]
  <2> HIDE DEF z, p, msg, len, e
  <2>1. bytes \in [Nat -> Nat] /\ e \in Nat /\ msg \in Seq(Nat)
    BY <1>1, <1>2, <1>4
  <2>2. \E more \in [Nat -> Nat] : /\ \A x \in Nat : x <= e => more[x] = bytes[x]
                                  /\ \A x \in 1 .. Len(msg) : more[e + x] = msg[x]
    BY ONLY <2>1, Extended, Zenon
  <2> QED BY <1>2, <2>2
<1> DEFINE new == [at EXCEPT ![z + 2] = e + len]
<1>6. new \in [Nat -> Nat] /\ new[z + 2] = e + len /\ \A i \in Nat : i <= z + 1 => new[i] = at[i]
  <2> HIDE DEF z, p, msg, len, e
  <2>1. \A x \in Nat : x + 2 \in Nat /\ \A i \in Nat : i <= x + 1 => i # x + 2
    OBVIOUS
  <2>2. z + 2 \in Nat /\ \A i \in Nat : i <= z + 1 => i # z + 2
    BY <1>1, <2>1
  <2>3. e + len \in Nat
    BY <1>1, <1>2
  <2> QED BY <1>4, <2>2, <2>3
<1>7. \A i \in 1 .. z : /\ at[i + 1] = at[i] + 2 + q[i].length
                        /\ bytes[at[i] + 1] = q[i].cmd
                        /\ bytes[at[i] + 2] = q[i].length
                        /\ at[i] + 2 <= e
  BY <1>4 DEF Written
<1>8. e + len = e + 2 + r.length
  <2>1. \A x, y \in Nat : x + (2 + y) = x + 2 + y
    OBVIOUS
  <2> QED BY <1>1, <2>1
<1>9. \A x \in 1 .. Len(s) : s[x] = bytes[n + x] /\ n + x \in Nat /\ n + x <= e
  <2>1. \A y \in Nat : \A x \in 1 .. y : n + x \in Nat /\ n + x <= n + y
    OBVIOUS
  <2> QED BY <1>1, <2>1 DEF Rest
<1> HIDE DEF z, p, msg, len, e, new
<1>10. new[Len(p) + 1] = e + len /\ new[z + 1] = e
  BY <1>1, <1>4, <1>6
<1>11. Written(new, more, p)
  <2> SUFFICES ASSUME NEW i \in 1 .. Len(p)
               PROVE  /\ new[i + 1] = new[i] + 2 + p[i].length
                      /\ more[new[i] + 1] = p[i].cmd
                      /\ more[new[i] + 2] = p[i].length
                      /\ new[i] + 2 <= new[Len(p) + 1]
    BY <1>5, <1>6 DEF Written
  <2>1. CASE i = z + 1
    <3>1. more[e + 1] = r.cmd /\ more[e + 2] = r.length
      BY <1>3, <1>5
    <3>2. e + 2 <= e + len
      BY <1>1, <1>2, <1>3
    <3>3. i + 1 = z + 2
      BY <1>1, <2>1
    <3> QED BY <1>1, <1>6, <1>8, <1>10, <2>1, <3>1, <3>2, <3>3
  <2>2. CASE i # z + 1
    <3>0. i \in 1 .. z
      BY <1>1, <2>2
    <3>1. i \in 1 .. z /\ p[i] = q[i]
      BY <1>1, <3>0
    <3>2. e + len \in Nat /\ e <= e + len /\ i \in Nat /\ i <= z + 1 /\ i + 1 \in Nat /\ i + 1 <= z + 1
      BY <1>1, <1>2, <3>1
    <3>3. new[i] = at[i] /\ new[i + 1] = at[i + 1] /\ at[i] \in Nat
      BY <1>4, <1>6, <3>2
    <3>4. \A x \in Nat : x + 2 <= e =>
             x + 1 \in Nat /\ x + 1 <= e /\ x + 2 \in Nat /\ x + 2 <= e + len
      BY <1>1, <1>2
    <3>5. at[i] + 1 \in Nat /\ at[i] + 1 <= e /\ at[i] + 2 \in Nat /\ at[i] + 2 <= e
            /\ at[i] + 2 <= e + len
      BY <1>7, <3>1, <3>3, <3>4
    <3>6. more[at[i] + 1] = bytes[at[i] + 1] /\ more[at[i] + 2] = bytes[at[i] + 2]
      BY <1>5, <3>5
    <3> QED BY <1>7, <1>10, <3>1, <3>3, <3>5, <3>6
  <2> QED BY <2>1, <2>2
<1>12. Rest(new, more, n, p, s, msg)
  <2>1. new[Len(p) + 1] = n + Len(s) + Len(msg)
    BY <1>2, <1>10 DEF e
  <2>2. \A x \in 1 .. Len(s) : s[x] = more[n + x]
    BY <1>5, <1>9
  <2>3. \A x \in 1 .. Len(msg) : msg[x] = more[n + Len(s) + x]
    BY <1>2, <1>5 DEF e
  <2> QED BY <2>1, <2>2, <2>3 DEF Rest
<1> QED BY <1>6, <1>11, <1>12 DEF p, msg, z, Lengthened
-----------------------------------------------------------------------------
(* One client's bytes.                                                     *)

\* With s and l the bytes of the requests of q go on where w bytes of data
\* come before the request after the k-th.
Placed(q, s, l, k, w) ==
    /\ k \in Nat /\ k <= Len(q)
    /\ \E at, bytes : \E n \in Nat :
         Written(at, bytes, q) /\ Rest(at, bytes, n, q, s, l) /\ at[k + 1] = n + w

LEMMA PlacedInit == Placed(<<>>, <<>>, <<>>, 0, 0)
<1> DEFINE at == [i \in Nat |-> 0]
<1>1. Len(<<>>) = 0 /\ at[1] = 0 /\ at \in [Nat -> Nat]
  OBVIOUS
<1> HIDE DEF at
<1>2. Written(at, at, <<>>) /\ Rest(at, at, 0, <<>>, <<>>, <<>>)
  BY <1>1 DEF Written, Rest
<1>3. at[0 + 1] = 0 + 0 /\ 0 \in Nat /\ 0 <= Len(<<>>)
  BY <1>1
<1> QED BY <1>2, <1>3 DEF Placed

LEMMA PlacedHeader ==
    ASSUME NEW R, NEW q \in Seq(R), NEW s \in Seq(Nat), NEW l \in Seq(Nat), NEW k,
           Placed(q, s, l, k, 0), Len(s) > 0
    PROVE  /\ k + 1 \in 1 .. Len(q) /\ s[1] = q[k + 1].cmd
           /\ Len(s) >= 2 => Placed(q, SubSeq(s, 3, Len(s)), l, k + 1, s[2])
<1>1. PICK at, bytes : \E n \in Nat :
         Written(at, bytes, q) /\ Rest(at, bytes, n, q, s, l) /\ at[k + 1] = n + 0
  BY DEF Placed
<1>2. PICK n \in Nat : Written(at, bytes, q) /\ Rest(at, bytes, n, q, s, l) /\ at[k + 1] = n + 0
  BY <1>1
<1>3. k \in Nat /\ k <= Len(q) /\ at[k + 1] = n
  BY <1>2 DEF Placed
<1>4. /\ k + 1 \in 1 .. Len(q) /\ s[1] = q[k + 1].cmd
      /\ Len(s) >= 2 => s[2] = q[k + 1].length /\ at[k + 2] = n + 2 + s[2]
  BY <1>2, <1>3, RestHeader
<1>5. ASSUME Len(s) >= 2 PROVE Placed(q, SubSeq(s, 3, Len(s)), l, k + 1, s[2])
  <2>1. Rest(at, bytes, n + 2, q, SubSeq(s, 2 + 1, Len(s)), l)
    BY <1>2, <1>5, RestAfter
  <2>2. 2 + 1 = 3 /\ (k + 1) + 1 = k + 2 /\ n + 2 \in Nat /\ k + 1 \in Nat /\ k + 1 <= Len(q)
    BY <1>3, <1>4
  <2>3. at[(k + 1) + 1] = (n + 2) + s[2]
    BY <1>4, <1>5, <2>2
  <2> QED BY <1>2, <2>1, <2>2, <2>3 DEF Placed
<1> QED BY <1>4, <1>5

LEMMA PlacedData ==
    ASSUME NEW q, NEW s \in Seq(Nat), NEW l \in Seq(Nat), NEW k, NEW w \in Nat,
           Placed(q, s, l, k, w), w <= Len(s)
    PROVE  Placed(q, SubSeq(s, w + 1, Len(s)), l, k, 0)
<1>1. PICK at, bytes : \E n \in Nat :
         Written(at, bytes, q) /\ Rest(at, bytes, n, q, s, l) /\ at[k + 1] = n + w
  BY DEF Placed
<1>2. PICK n \in Nat : Written(at, bytes, q) /\ Rest(at, bytes, n, q, s, l) /\ at[k + 1] = n + w
  BY <1>1
<1>3. Rest(at, bytes, n + w, q, SubSeq(s, w + 1, Len(s)), l)
  BY <1>2, RestAfter
<1>4. n + w \in Nat /\ n + w = (n + w) + 0
  OBVIOUS
<1> QED BY <1>2, <1>3, <1>4 DEF Placed

LEMMA PlacedSent ==
    ASSUME NEW q, NEW s \in Seq(Nat), NEW l \in Seq(Nat), NEW k, NEW w,
           Placed(q, s, l, k, w), l # <<>>
    PROVE  Placed(q, Append(s, Head(l)), Tail(l), k, w)
<1>1. PICK at, bytes : \E n \in Nat :
         Written(at, bytes, q) /\ Rest(at, bytes, n, q, s, l) /\ at[k + 1] = n + w
  BY DEF Placed
<1>2. PICK n \in Nat : Written(at, bytes, q) /\ Rest(at, bytes, n, q, s, l) /\ at[k + 1] = n + w
  BY <1>1
<1>3. Rest(at, bytes, n, q, Append(s, Head(l)), Tail(l))
  BY <1>2, RestSent
<1> QED BY <1>2, <1>3 DEF Placed

LEMMA PlacedAsked ==
    ASSUME NEW R, NEW q \in Seq(R), NEW s \in Seq(Nat), NEW k, NEW w, Placed(q, s, <<>>, k, w),
           NEW r \in R, r.cmd \in Nat, r.length \in Nat
    PROVE  Placed(Append(q, r), s, Message(r), k, w)
<1>1. PICK at, bytes : \E n \in Nat :
         Written(at, bytes, q) /\ Rest(at, bytes, n, q, s, <<>>) /\ at[k + 1] = n + w
  BY DEF Placed
<1>2. PICK n \in Nat : Written(at, bytes, q) /\ Rest(at, bytes, n, q, s, <<>>) /\ at[k + 1] = n + w
  BY <1>1
<1>3. Lengthened(at, n, q, s, r)
  BY <1>2, RestAsked
<1>4. PICK new, more : /\ Written(new, more, Append(q, r))
                       /\ Rest(new, more, n, Append(q, r), s, Message(r))
                       /\ \A i \in Nat : i <= Len(q) + 1 => new[i] = at[i]
  BY <1>3 DEF Lengthened
<1>5. Len(q) \in Nat /\ Len(Append(q, r)) = Len(q) + 1
  OBVIOUS
<1>6. k \in Nat /\ k <= Len(Append(q, r)) /\ k + 1 \in Nat /\ k + 1 <= Len(q) + 1
  BY <1>5 DEF Placed
<1>7. new[k + 1] = n + w
  BY <1>2, <1>4, <1>6
<1> QED BY <1>4, <1>6, <1>7 DEF Placed

LEMMA PlacedLast ==
    ASSUME NEW q, NEW s \in Seq(Nat), NEW l \in Seq(Nat), Placed(q, s, l, Len(q), 0)
    PROVE  l = <<>>
<1>1. PICK at, bytes : \E n \in Nat :
         Written(at, bytes, q) /\ Rest(at, bytes, n, q, s, l) /\ at[Len(q) + 1] = n + 0
  BY DEF Placed
<1>2. PICK n \in Nat : Rest(at, bytes, n, q, s, l) /\ at[Len(q) + 1] = n + 0
  BY <1>1
<1>3. at[Len(q) + 1] = n
  BY <1>2
<1> QED BY <1>2, <1>3, RestNone
-----------------------------------------------------------------------------
(* The invariant.                                                          *)

\* How many headers the thread of c has read, and how much data it waits for.
Taken(c)   == Len(answers[c]) + (IF Busy(c) THEN 1 ELSE 0)
Awaited(c) == IF thread[c] = "data" THEN stack[c].length ELSE 0

Aligned(c) == Placed(asked[c], stream[c], left[c], Taken(c), Awaited(c))

\* The thread took a part of a header for the whole: nothing follows, or it
\* answers once more and ends.
Adrift(c) ==
    \/ gone[c] /\ stream[c] = <<>>
    \/ signalled /\ ~running /\ Busy(c)

\* AnswersMatch, of one client.
Matched(c) ==
    /\ Len(answers[c]) <= Len(asked[c])
    /\ \A n \in DOMAIN answers[c] : answers[c][n].cmd = asked[c][n].cmd
    /\ Len(answers[c]) > Whole(c) => gone[c] \/ signalled

\* A thread that is not done stands at a request, or has lost its place.
InPlace(c) ==
    /\ Taken(c) <= Len(asked[c])
    /\ Aligned(c) \/ Adrift(c)
    /\ Busy(c) => stack[c].cmd = asked[c][Taken(c)].cmd

BytesInv == \A c \in Clients : Matched(c) /\ (thread[c] # "done" => InPlace(c))

LEMMA BytesInvImplies == BytesInv => AnswersMatch
  BY DEF BytesInv, Matched, AnswersMatch

LEMMA BytesInvInit == ServerInit => BytesInv
<1> SUFFICES ASSUME ServerInit, NEW c \in Clients PROVE Matched(c) /\ InPlace(c)
  BY DEF BytesInv
<1>1. /\ asked[c] = <<>> /\ answers[c] = <<>> /\ stream[c] = <<>> /\ left[c] = <<>>
      /\ thread[c] = "none"
  BY DEF ServerInit
<1>2. Len(<<>>) = 0 /\ DOMAIN <<>> = {}
  OBVIOUS
<1>3. Whole(c) = 0 /\ Taken(c) = 0 /\ Awaited(c) = 0 /\ ~Busy(c)
  BY <1>1, <1>2 DEF Whole, Taken, Awaited, Busy
<1>4. Matched(c)
  BY <1>1, <1>2, <1>3 DEF Matched
<1>5. InPlace(c)
  BY <1>1, <1>2, <1>3, PlacedInit DEF InPlace, Aligned
<1> QED BY <1>4, <1>5

\* What a step of somebody else leaves a client.
Left(c) ==
    /\ asked'[c] = asked[c] /\ stream'[c] = stream[c] /\ left'[c] = left[c]
    /\ answers'[c] = answers[c] /\ stack'[c] = stack[c]
    /\ gone[c] => gone'[c]
    /\ \/ thread'[c] = thread[c]
       \/ thread'[c] = "done"
       \/ thread[c] = "none" /\ ~Busy(c)'

\* A thread that answers after a signal does so while the server is stopped.
Stopped == \A c \in Clients : Busy(c) /\ ~running => ~running'

LEMMA StoppedStays == ServerInv /\ Flags => Stopped
  BY DEF ServerInv, ThreadInv, Flags, Stopped, Busy, Quiet

LEMMA LeftKeeps ==
    ASSUME NEW c \in Clients, Stopped, signalled => signalled', Left(c),
           Matched(c), thread[c] # "done" => InPlace(c)
    PROVE  Matched(c)' /\ (thread'[c] # "done" => InPlace(c)')
<1>1. Matched(c)'
  BY DEF Matched, Whole, Left
<1>2. ASSUME thread'[c] # "done" PROVE InPlace(c)'
  <2>1. thread[c] # "done" /\ (Busy(c)' <=> Busy(c)) /\ (thread'[c] = "data" <=> thread[c] = "data")
    BY <1>2 DEF Left, Busy
  <2>2. Taken(c)' = Taken(c) /\ Awaited(c)' = Awaited(c)
    BY <2>1 DEF Taken, Awaited, Left
  <2>3. Aligned(c) => Aligned(c)'
    BY <2>2 DEF Aligned, Left
  <2>4. Adrift(c) => Adrift(c)'
    BY <2>1 DEF Adrift, Left, Stopped
  <2> QED BY <2>1, <2>2, <2>3, <2>4 DEF InPlace, Left
<1> QED BY <1>1, <1>2

LEMMA BytesTypes ==
    ASSUME ContentsOK, NEW c \in Clients
    PROVE  /\ asked[c] \in Seq(Requests[c]) /\ stream[c] \in Seq(Nat) /\ left[c] \in Seq(Nat)
           /\ answers[c] \in Seq(Response)
           /\ Len(answers[c]) \in Nat /\ Len(asked[c]) \in Nat /\ Len(stream[c]) \in Nat
           /\ Taken(c) \in Nat /\ (Busy(c) => Taken(c) = Len(answers[c]) + 1)
           /\ (~Busy(c) => Taken(c) = Len(answers[c]))
<1>1. /\ asked[c] \in Seq(Requests[c]) /\ stream[c] \in Seq(Nat) /\ left[c] \in Seq(Nat)
      /\ answers[c] \in Seq(Response)
  BY DEF ContentsOK
<1>2. Len(answers[c]) \in Nat /\ Len(asked[c]) \in Nat /\ Len(stream[c]) \in Nat
  BY <1>1, LenProperties
<1>3. \A x \in Nat : x + 0 = x /\ x + 1 \in Nat
  OBVIOUS
<1>4. /\ Taken(c) \in Nat /\ (Busy(c) => Taken(c) = Len(answers[c]) + 1)
      /\ (~Busy(c) => Taken(c) = Len(answers[c]))
  BY <1>2, <1>3 DEF Taken
<1> QED BY <1>1, <1>2, <1>4

\* What a thread leaves of its client's state when it sends nothing.
LEMMA MatchedStays ==
    ASSUME NEW c \in Clients, UNCHANGED <<gone, left, asked, answers>>, signalled => signalled',
           Matched(c)
    PROVE  Matched(c)'
  BY DEF Matched, Whole

\* Where a thread goes that has read a header.
LEMMA HeaderTaken ==
    ASSUME ContentsOK, ConnectionsOK, NEW c \in Clients, NEW cmd, NEW length \in Nat,
           TakeHeader(c, cmd, length), thread'[c] # "done"
    PROVE  /\ thread'[c] \in {"data", "process"} /\ Busy(c)'
           /\ stack'[c].cmd = cmd /\ stack'[c].length = length
           /\ thread'[c] = "process" => length = 0
<1>1. stack'[c] = [stack[c] EXCEPT !.cmd = cmd, !.length = length]
  BY DEF TakeHeader, ContentsOK
<1>2. stack'[c].cmd = cmd /\ stack'[c].length = length
  BY <1>1 DEF ContentsOK, Buffers
<1>3. ~(length > BUFFER_SIZE)
  BY DEF TakeHeader, Close, NextRound, ConnectionsOK
<1>4. thread'[c] = IF length > 0 THEN "data" ELSE "process"
  BY <1>3 DEF TakeHeader, Go, ReadsData, ConnectionsOK
<1>5. thread'[c] \in {"data", "process"} /\ (thread'[c] = "process" => length = 0)
  BY <1>4
<1> QED BY <1>2, <1>5 DEF Busy

LEMMA BeginsBytes ==
    ASSUME ContentsOK, ConnectionsOK, NEW c \in Clients, Begins(c), thread'[c] # "done", InPlace(c)
    PROVE  InPlace(c)'
<1> DEFINE q == asked[c]
           s == stream[c]
           l == left[c]
           k == Taken(c)
<1>1. ~Busy(c) /\ thread[c] = "header" /\ Len(s) >= 2 /\ s # <<>>
  BY DEF Begins, Busy
<1>2. Placed(q, s, l, k, 0)
  BY <1>1 DEF InPlace, Adrift, Aligned, Awaited
<1>3. /\ q \in Seq(Requests[c]) /\ s \in Seq(Nat) /\ l \in Seq(Nat) /\ Len(s) \in Nat
      /\ k \in Nat /\ k = Len(answers[c]) /\ Len(q) \in Nat
  BY <1>1, BytesTypes
<1>4. s[1] \in Nat /\ s[2] \in Nat /\ Len(s) > 0
  BY <1>1, <1>3, SMTT(30)
<1> HIDE DEF q, s, l, k
<1>5. /\ k + 1 \in 1 .. Len(q) /\ s[1] = q[k + 1].cmd
      /\ Placed(q, SubSeq(s, 3, Len(s)), l, k + 1, s[2])
  BY <1>1, <1>2, <1>3, <1>4, PlacedHeader
<1>6. /\ thread'[c] \in {"data", "process"} /\ Busy(c)'
      /\ stack'[c].cmd = s[1] /\ stack'[c].length = s[2]
      /\ thread'[c] = "process" => s[2] = 0
  BY <1>4, HeaderTaken DEF Begins, s
<1>7. asked'[c] = q /\ stream'[c] = SubSeq(s, 3, Len(s)) /\ left'[c] = l /\ answers' = answers
  BY DEF Begins, clientVars, ContentsOK, q, s, l
<1>8. Taken(c)' = k + 1 /\ Awaited(c)' = s[2]
  BY <1>3, <1>6, <1>7 DEF Taken, Awaited
<1>9. Aligned(c)'
  BY <1>5, <1>7, <1>8 DEF Aligned
<1>10. k + 1 <= Len(q)
  BY <1>5
<1> QED BY <1>5, <1>6, <1>7, <1>8, <1>9, <1>10 DEF InPlace

LEMMA BeginsShortBytes ==
    ASSUME ContentsOK, ConnectionsOK, NEW c \in Clients, BeginsShort(c), thread'[c] # "done", InPlace(c)
    PROVE  InPlace(c)'
<1> DEFINE q == asked[c]
           s == stream[c]
           l == left[c]
           k == Taken(c)
<1>1. ~Busy(c) /\ thread[c] = "header" /\ Len(s) = 1 /\ s # <<>>
  BY DEF BeginsShort, ShortHeader, Busy
<1>2. Placed(q, s, l, k, 0)
  BY <1>1 DEF InPlace, Adrift, Aligned, Awaited
<1>3. /\ q \in Seq(Requests[c]) /\ s \in Seq(Nat) /\ l \in Seq(Nat) /\ Len(s) \in Nat
      /\ k \in Nat /\ k = Len(answers[c]) /\ Len(q) \in Nat
  BY <1>1, BytesTypes
<1>4. Head(s) = s[1] /\ Len(s) > 0
  BY <1>1, <1>3
<1>5. PICK length \in OldLengths(c) : TakeHeader(c, Head(s), length)
  BY DEF BeginsShort, ShortHeader
<1>6. /\ asked'[c] = q /\ stream'[c] = <<>> /\ answers' = answers /\ gone' = gone
      /\ gone[c] \/ (signalled' /\ ~running')
  BY DEF BeginsShort, ShortHeader, clientVars, ContentsOK
<1> HIDE DEF q, s, l, k
<1>7. k + 1 \in 1 .. Len(q) /\ s[1] = q[k + 1].cmd
  BY <1>2, <1>3, <1>4, PlacedHeader
<1>8. Busy(c)' /\ stack'[c].cmd = s[1]
  BY <1>4, <1>5, HeaderTaken, OldLengthsType
<1>9. Taken(c)' = k + 1
  BY <1>3, <1>6, <1>8 DEF Taken
<1>10. Adrift(c)'
  BY <1>6, <1>8 DEF Adrift
<1>11. k + 1 <= Len(q)
  BY <1>7
<1> QED BY <1>6, <1>7, <1>8, <1>9, <1>10, <1>11 DEF InPlace

LEMMA TakesDataBytes ==
    ASSUME ContentsOK, ConnectionsOK, Stopped, signalled => signalled',
           NEW c \in Clients, TakesData(c), InPlace(c)
    PROVE  InPlace(c)'
<1> DEFINE s == stream[c]
           w == stack[c].length
<1>1. Busy(c) /\ thread[c] = "data" /\ w <= Len(s)
  BY BytesTypes DEF TakesData, Busy, ContentsOK
<1>2. w \in 1 .. BUFFER_SIZE /\ s \in Seq(Nat) /\ left[c] \in Seq(Nat)
  BY <1>1 DEF ContentsOK
<1>3. w \in Nat /\ w > 0 /\ s # <<>>
  BY <1>1, <1>2
<1>4. /\ asked'[c] = asked[c] /\ stream'[c] = SubSeq(s, w + 1, Len(s)) /\ left'[c] = left[c]
      /\ answers' = answers /\ stack' = stack /\ gone' = gone /\ thread'[c] = "process"
  BY DEF TakesData, Go, clientVars, ContentsOK, ConnectionsOK
<1> HIDE DEF s, w
<1>5. Busy(c)' /\ Taken(c)' = Taken(c) /\ Awaited(c)' = 0 /\ Awaited(c) = w
  BY <1>1, <1>4 DEF Busy, Taken, Awaited, w
<1>6. Aligned(c) => Aligned(c)'
  BY <1>1, <1>2, <1>3, <1>4, <1>5, PlacedData DEF Aligned, s
<1>7. Adrift(c) => Adrift(c)'
  BY <1>1, <1>3, <1>5 DEF Adrift, Stopped, s
<1> QED BY <1>1, <1>4, <1>5, <1>6, <1>7 DEF InPlace

\* A thread that goes on with the request.
LEMMA GoesOnBytes ==
    ASSUME ContentsOK, ConnectionsOK, Stopped, signalled => signalled',
           NEW c \in Clients, Looks(c) \/ Composes(c), InPlace(c)
    PROVE  InPlace(c)'
<1>1. Busy(c) /\ thread[c] # "data" /\ thread'[c] \in {"look", "send"}
  BY DEF Looks, Composes, Respond, Go, Busy, ConnectionsOK
<1>2. UNCHANGED <<asked, stream, left, answers, gone>>
  BY DEF Looks, Composes, clientVars
<1>3. stack'[c].cmd = stack[c].cmd
  BY DEF Looks, Composes, Respond, ContentsOK, Buffers
<1>4. Busy(c)' /\ Taken(c)' = Taken(c) /\ Awaited(c)' = 0 /\ Awaited(c) = 0
  BY <1>1, <1>2 DEF Busy, Taken, Awaited
<1>5. (Aligned(c) => Aligned(c)') /\ (Adrift(c) => Adrift(c)')
  BY <1>1, <1>2, <1>4 DEF Aligned, Adrift, Stopped
<1> QED BY <1>1, <1>2, <1>3, <1>4, <1>5 DEF InPlace

LEMMA AnswersBytes ==
    ASSUME ContentsOK, ConnectionsOK, signalled => signalled',
           NEW c \in Clients, Answers(c), Matched(c), InPlace(c)
    PROVE  Matched(c)' /\ (thread'[c] # "done" => InPlace(c)')
<1> DEFINE q == asked[c]
           a == [cmd |-> stack[c].cmd, size |-> stack[c].size, announced |-> stack[c].size % BYTE]
           z == Len(answers[c])
<1>1. Busy(c) /\ thread[c] = "send"
  BY DEF Answers, Busy
<1>2. /\ q \in Seq(Requests[c]) /\ Len(q) \in Nat /\ z \in Nat /\ Taken(c) = z + 1
      /\ stream[c] \in Seq(Nat) /\ left[c] \in Seq(Nat) /\ answers[c] \in Seq(Response)
  BY <1>1, BytesTypes
<1>3. z + 1 <= Len(q) /\ a.cmd = q[z + 1].cmd
  BY <1>1, <1>2 DEF InPlace
<1>4. /\ answers'[c] = Append(answers[c], a) /\ UNCHANGED <<gone, left, asked, stream>>
  BY DEF Answers, clientVars, ContentsOK
<1>5. a \in Response
  <2>1. stack[c].cmd \in Nat /\ stack[c].size \in Nat
    BY <1>1 DEF ContentsOK, Buffers
  <2>2. stack[c].size % BYTE \in 0 .. BYTE - 1
    BY <2>1, ServerAssumption
  <2> QED BY <2>1, <2>2 DEF Response
<1> HIDE DEF q, a, z
<1>6. /\ Len(answers'[c]) = z + 1 /\ answers'[c][z + 1] = a
      /\ \A n \in 1 .. z : answers'[c][n] = answers[c][n]
      /\ DOMAIN answers'[c] = 1 .. z + 1 /\ DOMAIN answers[c] = 1 .. z
  BY <1>2, <1>4, <1>5, Appended DEF z
<1>7. \A n \in DOMAIN answers'[c] : answers'[c][n].cmd = asked'[c][n].cmd
  <2> SUFFICES ASSUME NEW n \in 1 .. z + 1 PROVE answers'[c][n].cmd = q[n].cmd
    BY <1>4, <1>6 DEF q
  <2>1. CASE n = z + 1
    BY <1>3, <1>6, <2>1
  <2>2. CASE n # z + 1
    <3>1. n \in 1 .. z
      BY <1>2, <2>2
    <3> QED BY <1>6, <3>1 DEF Matched, q
  <2> QED BY <2>1, <2>2
<1>8. Len(answers'[c]) > Whole(c)' => gone'[c] \/ signalled'
  <2> SUFFICES ASSUME z + 1 > Whole(c), ~Adrift(c) PROVE FALSE
    BY <1>4, <1>6 DEF Whole, Adrift
  <2>1. Placed(q, stream[c], left[c], z + 1, 0)
    BY <1>1, <1>2 DEF InPlace, Aligned, Awaited, q
  <2>2. left[c] # <<>> => z + 1 = Len(q)
    BY <1>2, <1>3 DEF Whole, q
  <2>3. left[c] = <<>>
    BY <1>2, <2>1, <2>2, PlacedLast
  <2> QED BY <1>2, <1>3, <2>3 DEF Whole, q
<1>9. Matched(c)'
  BY <1>3, <1>4, <1>6, <1>7, <1>8 DEF Matched, q
<1>10. ASSUME thread'[c] # "done" PROVE InPlace(c)'
  <2>1. running /\ thread'[c] = "header"
    BY <1>10 DEF Answers, NextRound, ConnectionsOK
  <2>2. ~Busy(c)' /\ Taken(c)' = Taken(c) /\ Awaited(c) = 0 /\ Awaited(c)' = 0
    BY <1>1, <1>2, <1>6, <2>1 DEF Busy, Taken, Awaited
  <2>3. (Aligned(c) => Aligned(c)') /\ (Adrift(c) => Adrift(c)')
    BY <1>4, <2>1, <2>2 DEF Aligned, Adrift
  <2> QED BY <1>4, <2>2, <2>3 DEF InPlace
<1> QED BY <1>9, <1>10

LEMMA ThreadBytes ==
    ASSUME ContentsOK, ConnectionsOK, Stopped, signalled => signalled', NEW c \in Clients, ByThread(c),
           Matched(c), thread[c] # "done" => InPlace(c)
    PROVE  Matched(c)' /\ (thread'[c] # "done" => InPlace(c)')
<1>1. thread[c] # "done"
  BY DEF ByThread, Begins, BeginsShort, ShortHeader, Quits, TakesData, Looks, Composes, Answers
<1>2. ~Answers(c) => Matched(c)'
  BY MatchedStays DEF ByThread, Begins, BeginsShort, Quits, TakesData, Looks, Composes, clientVars
<1>3. Quits(c) => thread'[c] = "done"
  BY DEF Quits, Close, NextRound, ConnectionsOK
<1> QED BY <1>1, <1>2, <1>3, BeginsBytes, BeginsShortBytes, TakesDataBytes, GoesOnBytes, AnswersBytes
        DEF ByThread

\* The client's own steps.
LEMMA AskBytes ==
    ASSUME ContentsOK, ConnectionsOK, Stopped, signalled => signalled',
           NEW c \in Clients, NEW r \in Requests[c], Ask(c, r),
           Matched(c), thread[c] # "done" => InPlace(c)
    PROVE  Matched(c)' /\ (thread'[c] # "done" => InPlace(c)')
<1> DEFINE q == asked[c]
           p == Append(q, r)
           z == Len(q)
<1>1. /\ ~gone[c] /\ left[c] = <<>> /\ left'[c] = Message(r) /\ asked'[c] = p
      /\ UNCHANGED <<gone, stream, answers, thread, stack, signalled>>
  BY DEF Ask, Reachable, ByClient, Message, ContentsOK
<1>2. /\ q \in Seq(Requests[c]) /\ z \in Nat /\ Len(answers[c]) \in Nat /\ Taken(c) \in Nat
      /\ (Busy(c) => Taken(c) = Len(answers[c]) + 1) /\ stream[c] \in Seq(Nat)
      /\ answers[c] \in Seq(Response)
  BY BytesTypes
<1>3. r.cmd \in Nat /\ r.length \in Nat
  BY ServerAssumption
<1> HIDE DEF q, z
<1>4. Len(p) = z + 1 /\ \A i \in 1 .. z : p[i] = q[i]
  BY <1>2, Appended DEF z
<1> HIDE DEF p
<1>5. Message(r) # <<>>
  BY <1>3, MessageBytes
<1>6. Whole(c) = z /\ Whole(c)' = z
  BY <1>1, <1>2, <1>4, <1>5 DEF Whole, q, z
<1>7. Matched(c)'
  <2>1. DOMAIN answers[c] = 1 .. Len(answers[c]) /\ Len(answers[c]) <= z
    BY <1>2 DEF Matched, q, z
  <2>2. Len(answers[c]) <= z + 1 /\ DOMAIN answers[c] \subseteq 1 .. z
    BY <1>2, <2>1
  <2>3. \A n \in DOMAIN answers[c] : answers[c][n].cmd = p[n].cmd
    BY <1>4, <2>2 DEF Matched, q
  <2> QED BY <1>1, <1>4, <1>6, <2>2, <2>3 DEF Matched
<1>8. ASSUME thread'[c] # "done" PROVE InPlace(c)'
  <2>1. InPlace(c)
    BY <1>1, <1>8
  <2>2. /\ (Busy(c)' <=> Busy(c)) /\ Taken(c)' = Taken(c) /\ Awaited(c)' = Awaited(c)
    BY <1>1 DEF Busy, Taken, Awaited
  <2>3. Taken(c) <= z + 1 /\ (Busy(c) => Taken(c) \in 1 .. z)
    BY <1>2, <2>1 DEF InPlace, q, z
  <2>4. Aligned(c) => Aligned(c)'
    <3>1. Aligned(c) => Placed(q, stream[c], <<>>, Taken(c), Awaited(c))
      BY <1>1 DEF Aligned, q
    <3>2. Aligned(c) => Placed(p, stream[c], Message(r), Taken(c), Awaited(c))
      BY <1>2, <1>3, <3>1, PlacedAsked DEF p
    <3> QED BY <1>1, <2>2, <3>2 DEF Aligned
  <2>5. Adrift(c) => Adrift(c)'
    BY <1>1, <2>2 DEF Adrift, Stopped
  <2> QED BY <1>1, <1>4, <2>1, <2>2, <2>3, <2>4, <2>5 DEF InPlace, q
<1> QED BY <1>7, <1>8

LEMMA SendByteBytes ==
    ASSUME ContentsOK, ConnectionsOK, Stopped, signalled => signalled',
           NEW c \in Clients, SendByte(c), Matched(c), thread[c] # "done" => InPlace(c)
    PROVE  Matched(c)' /\ (thread'[c] # "done" => InPlace(c)')
<1>1. /\ ~gone[c] /\ left[c] # <<>> /\ left'[c] = Tail(left[c])
      /\ stream'[c] = Append(stream[c], Head(left[c]))
      /\ UNCHANGED <<gone, asked, answers, thread, stack, signalled>>
  BY DEF SendByte, Reachable, ByClient, ContentsOK
<1>2. stream[c] \in Seq(Nat) /\ left[c] \in Seq(Nat) /\ Len(asked[c]) \in Nat /\ Len(answers[c]) \in Nat
  BY BytesTypes
<1>3. Whole(c) \in Nat \cup {-1} /\ Whole(c)' >= Whole(c) /\ Whole(c)' \in Nat \cup {-1}
  BY <1>1, <1>2 DEF Whole
<1>4. Matched(c)'
  BY <1>1, <1>2, <1>3 DEF Matched
<1>5. ASSUME thread'[c] # "done" PROVE InPlace(c)'
  <2>1. InPlace(c)
    BY <1>1, <1>5
  <2>2. /\ (Busy(c)' <=> Busy(c)) /\ Taken(c)' = Taken(c) /\ Awaited(c)' = Awaited(c)
    BY <1>1 DEF Busy, Taken, Awaited
  <2>3. Aligned(c) => Aligned(c)'
    BY <1>1, <1>2, <2>2, PlacedSent DEF Aligned
  <2>4. Adrift(c) => Adrift(c)'
    BY <1>1, <2>2 DEF Adrift, Stopped
  <2> QED BY <1>1, <2>1, <2>2, <2>3, <2>4 DEF InPlace
<1> QED BY <1>4, <1>5

LEMMA BytesStep ==
    ASSUME ContentsOK, ConnectionsOK, ServerInv, Flags, ServerEffect, BytesInv PROVE BytesInv'
<1> SUFFICES ASSUME NEW d \in Clients PROVE Matched(d)' /\ (thread'[d] # "done" => InPlace(d)')
  BY DEF BytesInv
<1>1. Stopped /\ (signalled => signalled') /\ Matched(d) /\ (thread[d] # "done" => InPlace(d))
  BY StoppedStays DEF Flags, BytesInv
<1>2. Left(d) => Matched(d)' /\ (thread'[d] # "done" => InPlace(d)')
  BY <1>1, LeftKeeps
<1>3. CASE Stays \/ Resets
  BY <1>2, <1>3 DEF Stays, Resets, Left, clientVars
<1>4. CASE Exit
  BY <1>2, <1>4 DEF Exit, Left, clientVars, Busy
<1>5. CASE Accepts
  <2>1. UNCHANGED <<clientVars, stream, answers, stack>>
    BY <1>5 DEF Accepts
  <2>2. thread'[d] = thread[d] \/ (thread[d] = "none" /\ ~Busy(d)')
    <3>1. backlog # <<>> /\ backlog \in Seq(Clients)
      BY <1>5 DEF Accepts, ConnectionsOK
    <3>2. 1 \in DOMAIN backlog /\ Head(backlog) = backlog[1] /\ Head(backlog) \in Clients
      BY <3>1
    <3>3. thread[Head(backlog)] = "none"
      BY <3>2 DEF ConnectionsOK, ConnectionOK
    <3> QED BY <1>5, <3>3 DEF Accepts, NextRound, ConnectionsOK, Busy
  <2> QED BY <1>2, <2>1, <2>2 DEF Left, clientVars
<1>6. ASSUME NEW c \in Clients, ByThread(c)
      PROVE  Matched(d)' /\ (thread'[d] # "done" => InPlace(d)')
  <2>1. CASE c = d
    BY <1>1, <1>6, <2>1, ThreadBytes
  <2>2. CASE c # d
    <3>1. UNCHANGED clientVars
      BY <1>6 DEF ByThread, Begins, BeginsShort, Quits, TakesData, Looks, Composes, Answers
    <3>2. thread'[d] = thread[d] /\ stack'[d] = stack[d]
      <4>1. DOMAIN thread = Clients /\ DOMAIN stack = Clients
        BY DEF ConnectionsOK, ContentsOK
      <4>2. ASSUME NEW l, Go(c, l) PROVE thread'[d] = thread[d]
        BY <2>2, <4>1, <4>2 DEF Go
      <4>3. ASSUME NEW on, NextRound(c, on) PROVE thread'[d] = thread[d]
        BY <2>2, <4>1, <4>3 DEF NextRound
      <4>4. ASSUME NEW b, stack' = [stack EXCEPT ![c] = b] PROVE stack'[d] = stack[d]
        BY <2>2, <4>1, <4>4
      <4>5. ASSUME NEW cmd, NEW length, TakeHeader(c, cmd, length)
            PROVE  thread'[d] = thread[d] /\ stack'[d] = stack[d]
        BY <4>2, <4>3, <4>4, <4>5 DEF TakeHeader, Close
      <4>6. ASSUME NEW code, NEW size, Respond(c, code, size)
            PROVE  thread'[d] = thread[d] /\ stack'[d] = stack[d]
        BY <4>2, <4>4, <4>6 DEF Respond
      <4>7. CASE Begins(c) \/ BeginsShort(c) \/ Composes(c)
        BY <4>5, <4>6, <4>7 DEF Begins, BeginsShort, ShortHeader, Composes
      <4>8. CASE Quits(c) \/ TakesData(c) \/ Looks(c)
        BY <4>2, <4>3, <4>8 DEF Quits, Close, TakesData, Looks
      <4>9. CASE Answers(c)
        BY <4>3, <4>4, <4>9 DEF Answers
      <4> QED BY <1>6, <4>7, <4>8, <4>9 DEF ByThread
    <3>3. stream'[d] = stream[d] /\ answers'[d] = answers[d]
      BY <1>6, <2>2 DEF ByThread, Begins, BeginsShort, ShortHeader, Quits, TakesData, Looks, Composes,
           Answers, ContentsOK
    <3> QED BY <1>2, <3>1, <3>2, <3>3 DEF Left, clientVars
  <2> QED BY <2>1, <2>2
<1>7. ASSUME NEW c \in Clients, Connect(c) \/ Disconnect(c)
      PROVE  Matched(d)' /\ (thread'[d] # "done" => InPlace(d)')
  <2>1. UNCHANGED <<left, stream, asked, answers, thread, stack>>
    BY <1>7 DEF Connect, Disconnect, ByClient, clientVars
  <2>2. gone[d] => gone'[d]
    BY <1>7 DEF Connect, Disconnect, clientVars, ContentsOK
  <2> QED BY <1>2, <2>1, <2>2 DEF Left
<1>8. ASSUME NEW c \in Clients, SendByte(c)
      PROVE  Matched(d)' /\ (thread'[d] # "done" => InPlace(d)')
  <2>1. CASE c = d
    BY <1>1, <1>8, <2>1, SendByteBytes
  <2>2. c # d => Left(d)
    BY <1>8 DEF SendByte, ByClient, Left, ContentsOK
  <2> QED BY <1>2, <2>1, <2>2
<1>9. ASSUME NEW c \in Clients, NEW r \in Requests[c], Ask(c, r)
      PROVE  Matched(d)' /\ (thread'[d] # "done" => InPlace(d)')
  <2>1. CASE c = d
    BY <1>1, <1>9, <2>1, AskBytes
  <2>2. c # d => Left(d)
    BY <1>9 DEF Ask, ByClient, Left, ContentsOK
  <2> QED BY <1>2, <2>1, <2>2
<1> QED BY <1>3, <1>4, <1>5, <1>6, <1>7, <1>8, <1>9 DEF ServerEffect

\* However many clients there are, whatever they send and however slowly, and
\* wherever they are cut off: the n-th response is that to the n-th request.
\* handle_client never takes data for a header, and one whose request was not
\* sent whole is answered only when its client is gone or a signal has come.
THEOREM AnswersAreMatched == ServerSpec => []AnswersMatch
<1>1. ServerSpec => []ServerInv
  BY ServerInvInit, ServerInvStep, PTL DEF ServerSpec
<1>2. TypesInv /\ ServerInv /\ TypeOK' /\ BytesInv /\ [ServerNext]_allVars => BytesInv'
  BY ServerEffects, ServerFlags, BytesStep DEF TypesInv, MainOK, TypeOK
<1> QED BY <1>1, <1>2, LibraryTypes, TypesAlways, BytesInvInit, BytesInvImplies, PTL DEF ServerSpec
=============================================================================
