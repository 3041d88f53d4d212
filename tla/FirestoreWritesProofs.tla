------------------------ MODULE FirestoreWritesProofs -------------------------
(***************************************************************************)
(* What is written reaches the server, for any number of users, writes,    *)
(* changes of the user, broken streams and restarts, and any size of the   *)
(* pipeline: under the token of its user, in the order it was issued, with *)
(* nothing lost or left behind, and with its own outcome.                  *)
(*                                                                         *)
(* The first half follows the user through the queues.  The main queue     *)
(* holds the changes that lead from knownUser to authUser, the worker      *)
(* queue those that lead from user to knownUser.  A write or a token in    *)
(* the worker queue belongs to the user the queue has led to by then, so   *)
(* that it is the current user's when its turn comes; a token in the main  *)
(* queue does, or the token counter will have moved on when its turn comes.*)
(*                                                                         *)
(* The second half follows a write from the worker queue through its       *)
(* user's queue and the pipeline into the log: each of them goes on, in    *)
(* ascending order, where the next one ends, and the pipeline is always    *)
(* the front of the queue.  So the answer that comes first is about the    *)
(* first batch of the queue, although it does not say so.  A future that   *)
(* has ended is of a write that is queued no more (Decisions), and with    *)
(* that every step is one of DocumentWrites.                               *)
(***************************************************************************)
EXTENDS FirestoreWrites, SequenceTheorems, FiniteSetTheorems,
        WellFoundedInduction, TLAPS

-----------------------------------------------------------------------------
(* Queues that change the user. *)

\* In the queue s, which starts with the user start, u is the user at position
\* i: the one of the last change before i.
At(s, i, start, u) ==
    \/ u = start /\ \A k \in 1 .. i - 1 : s[k].op # "user"
    \/ \E j \in 1 .. i - 1 :
        /\ s[j].op = "user" /\ s[j].user = u
        /\ \A k \in j + 1 .. i - 1 : s[k].op # "user"

\* The worker queue s leads from the user start to the user end, and its writes,
\* of the authors a, and tokens belong to the user of their position.
InOrder(s, a, start, end) ==
    /\ At(s, Len(s) + 1, start, end)
    /\ \A i \in 1 .. Len(s) :
        /\ s[i].op = "token" => At(s, i, start, s[i].user)
        /\ s[i].op = "write" => /\ s[i].write \in 1 .. Len(a)
                                /\ At(s, i, start, a[s[i].write])

\* A change of the user comes before position i of s.
Changing(s, i) == \E j \in 1 .. i - 1 : s[j].op = "user"

\* The main queue s leads from the user start to the user end; a token in it, or
\* one that is asked for, is of start, or a change comes before it.
Announced(s, requested, start, end) ==
    /\ At(s, Len(s) + 1, start, end)
    /\ \A i \in 1 .. Len(s) :
        s[i].op = "token" /\ ~s[i].changed =>
            s[i].user = start \/ Changing(s, i)
    /\ \A r \in requested :
        r.read /\ ~r.changed => r.user = start \/ Changing(s, Len(s) + 1)

\* t is s with some of its tokens changed or made void.
SameUsers(s, t) ==
    /\ Len(t) = Len(s)
    /\ \A i \in 1 .. Len(s) :
        \/ t[i] = s[i]
        \/ s[i].op # "user" /\ t[i].op \in {"void", "token"}

LEMMA AtStart ==
    ASSUME NEW s, NEW start, NEW u, At(s, 1, start, u)
    PROVE  u = start
BY DEF At

LEMMA AtAppend ==
    ASSUME NEW S, NEW s \in Seq(S), NEW e \in S, NEW start, NEW u
    PROVE  /\ \A i \in 1 .. Len(s) + 1 :
                At(s, i, start, u) => At(Append(s, e), i, start, u)
           /\ e.op # "user" /\ At(s, Len(s) + 1, start, u)
                => At(Append(s, e), Len(s) + 2, start, u)
           /\ e.op = "user" => At(Append(s, e), Len(s) + 2, start, e.user)
<1>1. /\ Len(s) \in Nat
      /\ \A i \in 1 .. Len(s) : Append(s, e)[i] = s[i]
      /\ Append(s, e)[Len(s) + 1] = e
  BY AppendProperties, LenProperties
<1>2. ASSUME NEW i \in 1 .. Len(s) + 1, At(s, i, start, u)
      PROVE  At(Append(s, e), i, start, u)
  BY <1>1, <1>2 DEF At
<1>3. ASSUME e.op # "user", At(s, Len(s) + 1, start, u)
      PROVE  At(Append(s, e), Len(s) + 2, start, u)
  BY <1>1, <1>3 DEF At
<1>4. ASSUME e.op = "user"
      PROVE  At(Append(s, e), Len(s) + 2, start, e.user)
  BY <1>1, <1>4 DEF At
<1> QED
  BY <1>2, <1>3, <1>4

LEMMA AtTail ==
    ASSUME NEW S, NEW s \in Seq(S), s # <<>>, NEW start, NEW u,
           NEW i \in 1 .. Len(s), At(s, i + 1, start, u)
    PROVE  At(Tail(s), i, IF s[1].op = "user" THEN s[1].user ELSE start, u)
<1>1. /\ Len(s) \in Nat
      /\ Len(Tail(s)) = Len(s) - 1
      /\ \A k \in 1 .. Len(s) - 1 : Tail(s)[k] = s[k + 1]
  BY HeadTailProperties, LenProperties
<1>2. CASE u = start /\ \A k \in 1 .. i : s[k].op # "user"
  BY <1>1, <1>2 DEF At
<1>3. CASE \E j \in 1 .. i :
            /\ s[j].op = "user" /\ s[j].user = u
            /\ \A k \in j + 1 .. i : s[k].op # "user"
  <2>1. PICK j \in 1 .. i :
            /\ s[j].op = "user" /\ s[j].user = u
            /\ \A k \in j + 1 .. i : s[k].op # "user"
    BY <1>3
  <2>2. CASE j = 1
    BY <1>1, <2>1, <2>2 DEF At
  <2>3. CASE j # 1
    <3>1. /\ j - 1 \in 1 .. i - 1
          /\ Tail(s)[j - 1].op = "user" /\ Tail(s)[j - 1].user = u
          /\ \A k \in (j - 1) + 1 .. i - 1 : Tail(s)[k].op # "user"
      BY <1>1, <2>1, <2>3
    <3> QED
      BY <3>1 DEF At
  <2> QED
    BY <2>2, <2>3
<1> QED
  BY <1>2, <1>3 DEF At

LEMMA AtSame ==
    ASSUME NEW s, NEW t, SameUsers(s, t), Len(s) \in Nat, NEW start, NEW u,
           NEW i \in 1 .. Len(s) + 1, At(s, i, start, u)
    PROVE  At(t, i, start, u)
BY DEF At, SameUsers

-----------------------------------------------------------------------------
(* What the steps do to the two queues. *)

LEMMA InOrderAppend ==
    ASSUME NEW S, NEW s \in Seq(S), NEW e \in S,
           NEW a, NEW start, NEW end, InOrder(s, a, start, end)
    PROVE  /\ e.op = "user" => InOrder(Append(s, e), a, start, e.user)
           /\ e.op = "token" /\ e.user = end
                => InOrder(Append(s, e), a, start, end)
           /\ e.op = "write" /\ e.write \in 1 .. Len(a) /\ a[e.write] = end
                => InOrder(Append(s, e), a, start, end)
<1> DEFINE t == Append(s, e)
<1>1. /\ Len(s) \in Nat
      /\ Len(t) = Len(s) + 1
      /\ \A i \in 1 .. Len(s) : t[i] = s[i]
      /\ t[Len(s) + 1] = e
  BY AppendProperties, LenProperties
<1>2. ASSUME NEW i \in 1 .. Len(s) + 1, NEW u, At(s, i, start, u)
      PROVE  At(t, i, start, u)
  BY <1>2, AtAppend
<1>3. /\ At(s, Len(s) + 1, start, end)
      /\ At(t, Len(s) + 1, start, end)
  BY <1>1, <1>2 DEF InOrder
<1>4. ASSUME NEW i \in 1 .. Len(s)
      PROVE  /\ t[i].op = "token" => At(t, i, start, t[i].user)
             /\ t[i].op = "write" => /\ t[i].write \in 1 .. Len(a)
                                     /\ At(t, i, start, a[t[i].write])
  BY <1>1, <1>2 DEF InOrder
<1>5. /\ e.op # "user" => At(t, Len(t) + 1, start, end)
      /\ e.op = "user" => At(t, Len(t) + 1, start, e.user)
  BY <1>1, <1>3, AtAppend
<1> HIDE DEF t
<1>6. ASSUME e.op = "user"
      PROVE  InOrder(t, a, start, e.user)
  BY <1>1, <1>4, <1>5, <1>6 DEF InOrder
<1>7. ASSUME e.op = "token", e.user = end
      PROVE  InOrder(t, a, start, end)
  BY <1>1, <1>3, <1>4, <1>5, <1>7 DEF InOrder
<1>8. ASSUME e.op = "write", e.write \in 1 .. Len(a), a[e.write] = end
      PROVE  InOrder(t, a, start, end)
  BY <1>1, <1>3, <1>4, <1>5, <1>8 DEF InOrder
<1> QED
  BY <1>6, <1>7, <1>8 DEF t

LEMMA InOrderTail ==
    ASSUME NEW S, NEW s \in Seq(S), s # <<>>,
           NEW a, NEW start, NEW end, InOrder(s, a, start, end)
    PROVE  InOrder(Tail(s), a,
                   IF s[1].op = "user" THEN s[1].user ELSE start, end)
<1> DEFINE t == Tail(s)
           next == IF s[1].op = "user" THEN s[1].user ELSE start
<1>1. /\ Len(s) \in Nat /\ Len(s) >= 1
      /\ Len(t) = Len(s) - 1
      /\ \A i \in 1 .. Len(t) : t[i] = s[i + 1]
  BY HeadTailProperties, LenProperties, EmptySeq
<1>2. ASSUME NEW i \in 1 .. Len(s), NEW u, At(s, i + 1, start, u)
      PROVE  At(t, i, next, u)
  BY <1>2, AtTail
<1>3. At(t, Len(t) + 1, next, end)
  BY <1>1, <1>2 DEF InOrder
<1>4. ASSUME NEW i \in 1 .. Len(t)
      PROVE  /\ t[i].op = "token" => At(t, i, next, t[i].user)
             /\ t[i].op = "write" => /\ t[i].write \in 1 .. Len(a)
                                     /\ At(t, i, next, a[t[i].write])
  BY <1>1, <1>2 DEF InOrder
<1> HIDE DEF t, next
<1>5. InOrder(t, a, next, end)
  BY <1>3, <1>4 DEF InOrder
<1> QED
  BY <1>5 DEF t, next

LEMMA InOrderVoid ==
    ASSUME NEW S, NEW s \in Seq(S),
           NEW a, NEW start, NEW end, InOrder(s, a, start, end)
    PROVE  InOrder([i \in DOMAIN s |-> Void(s[i])], a, start, end)
<1> DEFINE t == [i \in DOMAIN s |-> Void(s[i])]
<1>1. /\ Len(s) \in Nat /\ DOMAIN s = 1 .. Len(s)
      /\ Len(t) = Len(s)
      /\ \A i \in 1 .. Len(s) : t[i] = Void(s[i])
  BY LenProperties
<1>2. \A i \in 1 .. Len(s) :
        t[i] = IF s[i].op = "token" THEN [op |-> "void"] ELSE s[i]
  BY <1>1 DEF Void
<1> HIDE DEF t
<1>3. SameUsers(s, t)
  BY <1>1, <1>2 DEF SameUsers
<1>4. \A i \in 1 .. Len(s) + 1 : \A u : At(s, i, start, u) => At(t, i, start, u)
  BY <1>1, <1>3, AtSame
<1>5. InOrder(t, a, start, end)
  BY <1>1, <1>2, <1>4 DEF InOrder
<1> QED
  BY <1>5 DEF t

LEMMA InOrderIssued ==
    ASSUME NEW s, NEW start, NEW end, NEW a, NEW b,
           Len(a) \in Nat, Len(b) \in Nat, Len(b) >= Len(a),
           \A w \in 1 .. Len(a) : b[w] = a[w],
           InOrder(s, a, start, end)
    PROVE  InOrder(s, b, start, end)
BY DEF InOrder

LEMMA AnnouncedAppend ==
    ASSUME NEW S, NEW s \in Seq(S), NEW e \in S,
           NEW requested, NEW start, NEW end, Announced(s, requested, start, end)
    PROVE  /\ e.op = "user" => Announced(Append(s, e), requested, start, e.user)
           /\ \A r \in requested :
                (/\ r.read /\ e.op = "token"
                 /\ e.user = r.user /\ e.changed = r.changed)
                    => Announced(Append(s, e), requested \ {r}, start, end)
<1> DEFINE t == Append(s, e)
<1>1. /\ Len(s) \in Nat
      /\ Len(t) = Len(s) + 1
      /\ \A i \in 1 .. Len(s) : t[i] = s[i]
      /\ t[Len(s) + 1] = e
  BY AppendProperties, LenProperties
<1>2. /\ e.op # "user" => At(t, Len(t) + 1, start, end)
      /\ e.op = "user" => At(t, Len(t) + 1, start, e.user)
  BY <1>1, AtAppend DEF Announced
<1>3. \A i \in 1 .. Len(s) + 1 :
        /\ Changing(s, i) => Changing(t, i)
        /\ Changing(s, i) => Changing(t, Len(t) + 1)
        /\ Changing(s, i) => Changing(t, Len(t))
  BY <1>1 DEF Changing
<1>4. \A i \in 1 .. Len(s) :
        t[i].op = "token" /\ ~t[i].changed => t[i].user = start \/ Changing(t, i)
  BY <1>1, <1>3 DEF Announced
<1>5. \A r \in requested :
        r.read /\ ~r.changed =>
            r.user = start \/ (Changing(t, Len(t)) /\ Changing(t, Len(t) + 1))
  <2>1. Len(s) + 1 \in 1 .. Len(s) + 1
    BY <1>1
  <2> QED
    BY <1>3, <2>1 DEF Announced
<1> HIDE DEF t
<1>6. ASSUME e.op = "user"
      PROVE  Announced(t, requested, start, e.user)
  BY <1>1, <1>2, <1>4, <1>5, <1>6 DEF Announced
<1>7. ASSUME NEW r \in requested, r.read, e.op = "token",
             e.user = r.user, e.changed = r.changed
      PROVE  Announced(t, requested \ {r}, start, end)
  <2>1. t[Len(t)].op = "token" /\ ~t[Len(t)].changed =>
            t[Len(t)].user = start \/ Changing(t, Len(t))
    BY <1>1, <1>5, <1>7
  <2>2. \A i \in 1 .. Len(t) :
          t[i].op = "token" /\ ~t[i].changed =>
            t[i].user = start \/ Changing(t, i)
    BY <1>1, <1>4, <2>1
  <2> QED
    BY <1>2, <1>5, <1>7, <2>2 DEF Announced
<1> QED
  BY <1>6, <1>7 DEF t

\* A request reads the user at the end of the queue, or is new.
LEMMA AnnouncedRequests ==
    ASSUME NEW s, NEW old, NEW new, NEW start, NEW end,
           Announced(s, old, start, end), Len(s) \in Nat,
           \A r \in new : r \in old \/ r.user = end \/ ~r.read
    PROVE  Announced(s, new, start, end)
<1>1. end = start \/ Changing(s, Len(s) + 1)
  BY DEF Announced, At, Changing
<1> QED
  BY <1>1 DEF Announced

\* The head was not a change of the user.
LEMMA AnnouncedTail ==
    ASSUME NEW S, NEW s \in Seq(S), s # <<>>, s[1].op # "user",
           NEW requested, NEW start, NEW end, Announced(s, requested, start, end)
    PROVE  Announced(Tail(s), requested, start, end)
<1> DEFINE t == Tail(s)
<1>1. /\ Len(s) \in Nat /\ Len(s) >= 1
      /\ Len(t) = Len(s) - 1
      /\ \A i \in 1 .. Len(t) : t[i] = s[i + 1]
  BY HeadTailProperties, LenProperties, EmptySeq
<1>2. At(t, Len(t) + 1, start, end)
  BY <1>1, AtTail DEF Announced
<1>3. \A i \in 1 .. Len(t) + 1 : Changing(s, i + 1) => Changing(t, i)
  <2> SUFFICES ASSUME NEW i \in 1 .. Len(t) + 1, NEW j \in 1 .. i,
                      s[j].op = "user"
               PROVE  Changing(t, i)
    BY DEF Changing
  <2>1. j - 1 \in 1 .. i - 1 /\ t[j - 1].op = "user"
    BY <1>1
  <2> QED
    BY <2>1 DEF Changing
<1> HIDE DEF t
<1>4. Announced(t, requested, start, end)
  BY <1>1, <1>2, <1>3 DEF Announced
<1> QED
  BY <1>4 DEF t

LEMMA ChangedToken ==
    ASSUME NEW m \in [op : {"token"}, user : Owner, changed : BOOLEAN]
    PROVE  /\ Changed(m) \in [op : {"token"}, user : Owner, changed : BOOLEAN]
           /\ Changed(m).op = "token"
           /\ Changed(m).changed
BY DEF Changed

\* The head was: whatever is left has changed.
LEMMA AnnouncedTold ==
    ASSUME NEW S, NEW s \in Seq(S), s # <<>>, s[1].op = "user",
           NEW requested, NEW start, NEW end, Announced(s, requested, start, end),
           NEW t, Len(t) = Len(s) - 1,
           \A i \in 1 .. Len(t) : t[i] = Changed(s[i + 1]),
           \A i \in 1 .. Len(s) : s[i].op = "token" => s[i] \in
                [op : {"token"}, user : Owner, changed : BOOLEAN],
           NEW new, \A r \in new : r.changed
    PROVE  Announced(t, new, s[1].user, end)
<1>1. /\ Len(s) \in Nat /\ Len(s) >= 1
      /\ Len(Tail(s)) = Len(s) - 1
      /\ \A i \in 1 .. Len(Tail(s)) : Tail(s)[i] = s[i + 1]
  BY HeadTailProperties, LenProperties, EmptySeq
<1>2. At(Tail(s), Len(t) + 1, s[1].user, end)
  BY <1>1, AtTail DEF Announced
<1>3. \A i \in 1 .. Len(t) :
        /\ s[i + 1].op # "token" => t[i] = s[i + 1]
        /\ s[i + 1].op = "token" => t[i].op = "token" /\ t[i].changed
  <2> SUFFICES ASSUME NEW i \in 1 .. Len(t)
               PROVE  /\ s[i + 1].op # "token" => t[i] = s[i + 1]
                      /\ s[i + 1].op = "token"
                            => t[i].op = "token" /\ t[i].changed
    OBVIOUS
  <2>1. i + 1 \in 1 .. Len(s)
    BY <1>1
  <2>2. CASE s[i + 1].op = "token"
    BY <2>1, <2>2, ChangedToken
  <2>3. CASE s[i + 1].op # "token"
    BY <2>3 DEF Changed
  <2> QED
    BY <2>2, <2>3
<1>4. SameUsers(Tail(s), t)
  BY <1>1, <1>3 DEF SameUsers
<1>5. At(t, Len(t) + 1, s[1].user, end)
  <2>1. Len(Tail(s)) \in Nat /\ Len(t) + 1 \in 1 .. Len(Tail(s)) + 1
    BY <1>1
  <2> QED
    BY <1>2, <1>4, <2>1, AtSame
<1> QED
  BY <1>1, <1>3, <1>5 DEF Announced

\* No token is left.
LEMMA AnnouncedVoid ==
    ASSUME NEW S, NEW s \in Seq(S),
           NEW old, NEW start, NEW end, Announced(s, old, start, end),
           NEW new, \A r \in new : ~r.read
    PROVE  Announced([i \in DOMAIN s |-> Void(s[i])], new, start, end)
<1> DEFINE t == [i \in DOMAIN s |-> Void(s[i])]
<1>1. /\ Len(s) \in Nat /\ DOMAIN s = 1 .. Len(s)
      /\ Len(t) = Len(s)
      /\ \A i \in 1 .. Len(s) : t[i] = Void(s[i])
  BY LenProperties
<1>2. \A i \in 1 .. Len(s) :
        t[i] = IF s[i].op = "token" THEN [op |-> "void"] ELSE s[i]
  BY <1>1 DEF Void
<1> HIDE DEF t
<1>3. SameUsers(s, t)
  BY <1>1, <1>2 DEF SameUsers
<1>4. At(t, Len(t) + 1, start, end)
  BY <1>1, <1>3, AtSame DEF Announced
<1>5. Announced(t, new, start, end)
  BY <1>1, <1>2, <1>4 DEF Announced
<1> QED
  BY <1>5 DEF t

-----------------------------------------------------------------------------
(* Tokens under way. *)

HasToken(s) == \E i \in 1 .. Len(s) : s[i].op = "token"

OneToken(s) ==
    \A i, j \in 1 .. Len(s) : s[i].op = "token" /\ s[j].op = "token" => i = j

LEMMA TokenAppend ==
    ASSUME NEW S, NEW s \in Seq(S), NEW e \in S
    PROVE  /\ e.op # "token" /\ OneToken(s) => OneToken(Append(s, e))
           /\ e.op # "token" /\ ~HasToken(s) => ~HasToken(Append(s, e))
           /\ ~HasToken(s) => OneToken(Append(s, e))
<1>1. /\ Len(s) \in Nat
      /\ Len(Append(s, e)) = Len(s) + 1
      /\ \A i \in 1 .. Len(s) : Append(s, e)[i] = s[i]
      /\ Append(s, e)[Len(s) + 1] = e
  BY AppendProperties, LenProperties
<1> QED
  BY <1>1 DEF OneToken, HasToken

LEMMA TokenTail ==
    ASSUME NEW S, NEW s \in Seq(S), s # <<>>, OneToken(s)
    PROVE  /\ OneToken(Tail(s))
           /\ HasToken(Tail(s)) => HasToken(s)
           /\ s[1].op = "token" => HasToken(s) /\ ~HasToken(Tail(s))
<1>1. /\ Len(s) \in Nat /\ Len(s) >= 1
      /\ Len(Tail(s)) = Len(s) - 1
      /\ \A i \in 1 .. Len(s) - 1 : Tail(s)[i] = s[i + 1]
  BY HeadTailProperties, LenProperties, EmptySeq
<1>2. \A i \in 1 .. Len(s) - 1 : i + 1 \in 1 .. Len(s) /\ i + 1 # 1
  BY <1>1
<1>3. OneToken(Tail(s))
  BY <1>1, <1>2 DEF OneToken
<1>4. HasToken(Tail(s)) => HasToken(s)
  BY <1>1, <1>2 DEF HasToken
<1>5. s[1].op = "token" => HasToken(s) /\ ~HasToken(Tail(s))
  BY <1>1, <1>2 DEF HasToken, OneToken
<1> QED
  BY <1>3, <1>4, <1>5

LEMMA TokenSame ==
    ASSUME NEW s, NEW t, Len(t) = Len(s),
           \A i \in 1 .. Len(s) : t[i].op = "token" => s[i].op = "token"
    PROVE  /\ OneToken(s) => OneToken(t)
           /\ ~HasToken(s) => ~HasToken(t)
BY DEF OneToken, HasToken

LEMMA Voided ==
    ASSUME NEW S, NEW s \in Seq(S), [op |-> "void"] \in S
    PROVE  /\ [i \in DOMAIN s |-> Void(s[i])] \in Seq(S)
           /\ OneToken([i \in DOMAIN s |-> Void(s[i])])
           /\ ~HasToken([i \in DOMAIN s |-> Void(s[i])])
<1> DEFINE t == [i \in DOMAIN s |-> Void(s[i])]
<1>1. /\ Len(s) \in Nat /\ DOMAIN s = 1 .. Len(s)
      /\ \A i \in 1 .. Len(s) : s[i] \in S
  BY LenProperties, ElementOfSeq
<1>2. \A i \in 1 .. Len(s) : Void(s[i]) \in S /\ Void(s[i]).op # "token"
  BY <1>1 DEF Void
<1>3. t \in [1 .. Len(s) -> S]
  BY <1>1, <1>2
<1>4. t \in Seq(S) /\ Len(t) = Len(s)
  BY <1>1, <1>3
<1>5. \A i \in 1 .. Len(t) : t[i].op # "token"
  BY <1>1, <1>2, <1>4
<1> QED
  BY <1>4, <1>5 DEF OneToken, HasToken

-----------------------------------------------------------------------------
(* Sequences of batches. *)

\* s is a sequence of batches of the writes in W.
Batches(s, W) ==
    /\ s \in Seq(ToSet(s))
    /\ \A i \in 1 .. Len(s) : s[i].write \in W

LEMMA BatchesOf ==
    ASSUME NEW S, NEW W, \A b \in S : b.write \in W, NEW s \in Seq(S)
    PROVE  Batches(s, W)
<1>1. /\ Len(s) \in Nat /\ DOMAIN s = 1 .. Len(s)
      /\ s \in [1 .. Len(s) -> S]
      /\ \A i \in 1 .. Len(s) : s[i] \in S
  BY LenProperties, ElementOfSeq
<1>2. s \in [1 .. Len(s) -> ToSet(s)]
  BY <1>1 DEF ToSet
<1> QED
  BY <1>1, <1>2 DEF Batches

\* The batches of s are batches of the writes in W.
LEMMA BatchesAre ==
    ASSUME NEW s, NEW W, Batches(s, W)
    PROVE  /\ s \in Seq(ToSet(s))
           /\ \A b \in ToSet(s) : b.write \in W
           /\ Len(s) \in Nat /\ DOMAIN s = 1 .. Len(s)
           /\ \A i \in 1 .. Len(s) : s[i] \in ToSet(s)
<1>1. /\ s \in Seq(ToSet(s))
      /\ Len(s) \in Nat /\ DOMAIN s = 1 .. Len(s)
  BY LenProperties DEF Batches
<1> QED
  BY <1>1 DEF Batches, ToSet

LEMMA BatchesMore ==
    ASSUME NEW s, NEW W, NEW V, W \subseteq V, Batches(s, W)
    PROVE  Batches(s, V)
BY DEF Batches

LEMMA BatchesEmpty ==
    ASSUME NEW W
    PROVE  Batches(<<>>, W)
<1>1. <<>> \in Seq({})
  BY EmptySeq
<1> QED
  BY <1>1, BatchesOf

LEMMA BatchesAppend ==
    ASSUME NEW s, NEW W, Batches(s, W), NEW b, b.write \in W
    PROVE  Batches(Append(s, b), W)
<1>1. s \in Seq(ToSet(s) \cup {b})
  BY BatchesAre, SeqMonotonic
<1>2. Append(s, b) \in Seq(ToSet(s) \cup {b})
  BY <1>1, AppendProperties
<1> QED
  BY <1>2, BatchesAre, BatchesOf

LEMMA BatchesTail ==
    ASSUME NEW s, NEW W, Batches(s, W), s # <<>>
    PROVE  /\ Batches(Tail(s), W)
           /\ Len(Tail(s)) = Len(s) - 1
<1>1. Tail(s) \in Seq(ToSet(s)) /\ Len(Tail(s)) = Len(s) - 1
  BY BatchesAre, HeadTailProperties
<1> QED
  BY <1>1, BatchesAre, BatchesOf

LEMMA BeforeBound ==
    ASSUME NEW s, Len(s) \in Nat, DOMAIN s = 1 .. Len(s), NEW id
    PROVE  Before(s, id) \in 0 .. Len(s)
<1> DEFINE I == {i \in DOMAIN s : s[i].id < id}
<1>1. IsFiniteSet(1 .. Len(s)) /\ Cardinality(1 .. Len(s)) = Len(s)
  <2>1. /\ IsFiniteSet(1 .. Len(s))
        /\ Cardinality(1 .. Len(s)) = IF 1 > Len(s) THEN 0 ELSE Len(s) - 1 + 1
    <3>1. 1 \in Int /\ Len(s) \in Int
      OBVIOUS
    <3> QED
      BY <3>1, FS_Interval
  <2> QED
    BY <2>1
<1>2. I \in SUBSET (1 .. Len(s))
  OBVIOUS
<1>3. IsFiniteSet(I) /\ Cardinality(I) <= Len(s)
  BY <1>1, <1>2, FS_Subset
<1>4. Cardinality(I) \in Nat
  BY <1>3, FS_CardinalityType
<1> QED
  BY <1>3, <1>4 DEF Before

LEMMA BatchesRemove ==
    ASSUME NEW s, NEW W, Batches(s, W), NEW id
    PROVE  Batches(RemoveAt(s, 1 + Before(s, id)), W)
<1> DEFINE n == Before(s, id)
           S == ToSet(s)
<1>1. Len(s) \in Nat /\ \A i \in 1 .. Len(s) : s[i] \in S
  BY BatchesAre
<1>2. n \in 0 .. Len(s)
  BY BatchesAre, BeforeBound
<1> HIDE DEF n
<1>3. SubSeq(s, 1, n) \in Seq(S) /\ SubSeq(s, n + 2, Len(s)) \in Seq(S)
  <2>1. \A i \in 1 .. n : s[i] \in S
    BY <1>1, <1>2
  <2>2. \A i \in n + 2 .. Len(s) : s[i] \in S
    BY <1>1, <1>2
  <2> QED
    BY <1>1, <1>2, <2>1, <2>2, SubSeqProperties
<1>4. SubSeq(s, 1, n) \o SubSeq(s, n + 2, Len(s)) \in Seq(S)
  BY <1>3, ConcatProperties
<1>5. RemoveAt(s, 1 + n) = SubSeq(s, 1, n) \o SubSeq(s, n + 2, Len(s))
  <2>1. (1 + n) - 1 = n /\ (1 + n) + 1 = n + 2
    BY <1>1, <1>2
  <2> QED
    BY <2>1 DEF RemoveAt
<1> QED
  BY <1>4, <1>5, BatchesAre, BatchesOf DEF n

\* FillWritePipeline takes batches of the queue and keeps those it has.
LEMMA BatchesFilled ==
    ASSUME NEW p, NEW q, NEW W, Batches(p, W), Batches(q, W)
    PROVE  /\ Batches(Filled(p, q), W)
           /\ Len(Filled(p, q)) >= Len(p)
           /\ Filled(p, q) # p => Len(Filled(p, q)) > Len(p)
<1> DEFINE n == IF p = <<>> THEN 0 ELSE Before(q, Last(p).id + 1)
           m == n + Smaller(kMaxPendingWrites - Len(p), Len(q) - n)
           S == ToSet(p) \cup ToSet(q)
<1>1. /\ Len(p) \in Nat /\ Len(q) \in Nat
      /\ \A i \in 1 .. Len(q) : q[i] \in S
      /\ \A b \in S : b.write \in W
  BY BatchesAre
<1>2. p \in Seq(S)
  BY BatchesAre, SeqMonotonic
<1>3. n \in 0 .. Len(q)
  BY <1>1, BatchesAre, BeforeBound
<1> HIDE DEF n, S
<1>4. m \in Int /\ m <= Len(q)
  BY <1>1, <1>3, FirestoreWritesAssumption DEF Smaller
<1> HIDE DEF m
<1> DEFINE r == SubSeq(q, n + 1, m)
<1>5. r \in Seq(S)
  <2>1. \A i \in n + 1 .. m : q[i] \in S
    BY <1>1, <1>3, <1>4
  <2> QED
    BY <1>3, <1>4, <2>1, SubSeqProperties
<1>6. Filled(p, q) = p \o r
  BY DEF Filled, n, m
<1> HIDE DEF r
<1>7. Filled(p, q) \in Seq(S) /\ Len(Filled(p, q)) = Len(p) + Len(r)
  BY <1>2, <1>5, <1>6, ConcatProperties
<1>8. Len(r) \in Nat /\ (r # <<>> => Len(r) # 0)
  BY <1>5, LenProperties, EmptySeq
<1>9. Filled(p, q) # p => r # <<>>
  BY <1>2, <1>6, ConcatEmptySeq
<1>10. Batches(Filled(p, q), W)
  BY <1>1, <1>7, BatchesOf
<1> HIDE DEF Batches
<1> QED
  BY <1>1, <1>7, <1>8, <1>9, <1>10

\* What is sent of a pipeline, from its batch number m on.
LEMMA ToSendFrom ==
    ASSUME NEW p, NEW W, Batches(p, W), NEW m \in 1 .. Len(p) + 1
    PROVE  /\ ToSend(SubSeq(p, m, Len(p))) \in Seq(W)
           /\ Len(ToSend(SubSeq(p, m, Len(p)))) = Len(p) - m + 1
<1> DEFINE s == SubSeq(p, m, Len(p))
<1>1. Len(p) \in Nat /\ \A i \in 1 .. Len(p) : p[i] \in ToSet(p)
  BY BatchesAre
<1>2. s \in Seq(ToSet(p)) /\ Len(s) = Len(p) - m + 1
  BY <1>1, SubSeqProperties
<1>3. Batches(s, W)
  BY <1>2, BatchesAre, BatchesOf
<1> HIDE DEF s
<1>4. ToSend(s) \in [1 .. Len(s) -> W]
  BY <1>3, BatchesAre DEF ToSend, Batches
<1>5. Len(s) \in Nat
  BY <1>3, BatchesAre
<1>6. ToSend(s) \in Seq(W) /\ Len(ToSend(s)) = Len(s)
  BY <1>4, <1>5
<1> QED
  BY <1>2, <1>6 DEF s

LEMMA ToSendAll ==
    ASSUME NEW p, NEW W, Batches(p, W)
    PROVE  ToSend(p) \in Seq(W) /\ Len(ToSend(p)) = Len(p)
<1>1. Len(p) \in Nat /\ SubSeq(p, 1, Len(p)) = p
  BY BatchesAre, SubSeqFull
<1>2. 1 \in 1 .. Len(p) + 1
  BY <1>1
<1>3. /\ ToSend(SubSeq(p, 1, Len(p))) \in Seq(W)
      /\ Len(ToSend(SubSeq(p, 1, Len(p)))) = Len(p) - 1 + 1
  BY <1>2, ToSendFrom
<1>4. ToSend(p) \in Seq(W) /\ Len(ToSend(p)) = Len(p) - 1 + 1
  <2> HIDE DEF ToSend
  <2> QED
    BY <1>1, <1>3, Zenon
<1> QED
  BY <1>1, <1>4

-----------------------------------------------------------------------------
(* The invariant of the queues. *)

Asking == [read : BOOLEAN, user : Owner, changed : BOOLEAN]

Telling == [op : {"user"}, user : Owner]
            \cup [op : {"token"}, user : Owner, changed : BOOLEAN]
            \cup {[op |-> "void"]}

Task == [op : {"user", "token"}, user : Owner]
            \cup [op : {"write"}, write : Nat]
            \cup {[op |-> "void"]}

QueueTypes ==
    /\ author \in Seq(Owner)
    /\ authUser \in Owner /\ knownUser \in Owner /\ user \in Owner
    /\ asked \subseteq Asking
    /\ main \in Seq(Telling)
    /\ tasks \in Seq(Task)

\* At most one token is under way, for a stream that is starting.
TokenOnce ==
    /\ \A r1, r2 \in asked : r1 = r2
    /\ OneToken(main) /\ OneToken(tasks)
    /\ asked # {} => ~HasToken(main) /\ ~HasToken(tasks)
    /\ HasToken(main) => ~HasToken(tasks)
    /\ asked # {} \/ HasToken(main) \/ HasToken(tasks) => stream = "Starting"

QueuesInOrder ==
    /\ InOrder(tasks, author, user, knownUser)
    /\ Announced(main, asked, knownUser, authUser)

QueueInv == QueueTypes /\ TokenOnce /\ QueuesInOrder

LEMMA RequestType == Request \in Asking /\ ~Request.read
BY DEF Request, Asking, Owner

LEMMA UserChangesQueues ==
    ASSUME QueueInv, NEW u \in Owner, UserChanges(u)
    PROVE  QueueInv'
<1> DEFINE e == [op |-> "user", user |-> u]
<1>1. e \in Telling /\ e.op = "user" /\ e.user = u
  BY DEF Telling
<1> HIDE DEF e
<1>2. /\ main' = Append(main, e) /\ main \in Seq(Telling) /\ authUser' = u
      /\ UNCHANGED <<author, asked, knownUser, tasks, user, stream>>
  BY DEF UserChanges, QueueInv, QueueTypes, local, wire, e
<1>3. QueueTypes'
  BY <1>1, <1>2, AppendProperties DEF QueueInv, QueueTypes
<1>4. OneToken(main') /\ (~HasToken(main) => ~HasToken(main'))
  BY <1>1, <1>2, TokenAppend DEF QueueInv, TokenOnce
<1>5. TokenOnce'
  BY <1>2, <1>4 DEF QueueInv, TokenOnce
<1>6. Announced(main', asked, knownUser, u)
  BY <1>1, <1>2, AnnouncedAppend DEF QueueInv, QueuesInOrder
<1>7. QueuesInOrder'
  BY <1>2, <1>6 DEF QueueInv, QueuesInOrder
<1> QED
  BY <1>3, <1>5, <1>7 DEF QueueInv

LEMMA TokenReadQueues ==
    ASSUME QueueInv, NEW r \in asked, TokenRead(r)
    PROVE  QueueInv'
<1> DEFINE e == [r EXCEPT !.read = TRUE, !.user = authUser]
<1>1. r \in Asking /\ e \in Asking /\ e.user = authUser
  BY DEF QueueInv, QueueTypes, Asking
<1> HIDE DEF e
<1>2. /\ asked' = (asked \ {r}) \cup {e}
      /\ UNCHANGED <<author, authUser, main, knownUser, tasks, user, stream>>
  BY DEF TokenRead, local, wire, e
<1>3. QueueTypes'
  BY <1>1, <1>2 DEF QueueInv, QueueTypes
<1>4. asked' = {e} /\ asked # {}
  BY <1>2 DEF QueueInv, TokenOnce
<1>5. TokenOnce'
  BY <1>2, <1>4 DEF QueueInv, TokenOnce
<1>6. Announced(main, asked', knownUser, authUser)
  <2>1. Len(main) \in Nat
    BY LenProperties DEF QueueInv, QueueTypes
  <2> QED
    BY <1>1, <1>2, <2>1, AnnouncedRequests DEF QueueInv, QueuesInOrder
<1>7. QueuesInOrder'
  BY <1>2, <1>6 DEF QueueInv, QueuesInOrder
<1> QED
  BY <1>3, <1>5, <1>7 DEF QueueInv

LEMMA TokenComesQueues ==
    ASSUME QueueInv, NEW r \in asked, TokenComes(r)
    PROVE  QueueInv'
<1> DEFINE e == [op |-> "token", user |-> r.user, changed |-> r.changed]
<1>1. r \in Asking
  BY DEF QueueInv, QueueTypes
<1>2. /\ e \in Telling /\ e.op = "token"
      /\ e.user = r.user /\ e.changed = r.changed
  BY <1>1 DEF Telling, Asking
<1> HIDE DEF e
<1>3. /\ r.read
      /\ asked' = asked \ {r}
      /\ main' = Append(main, e) /\ main \in Seq(Telling)
      /\ UNCHANGED <<author, authUser, knownUser, tasks, user, stream>>
  BY DEF TokenComes, QueueInv, QueueTypes, local, wire, e
<1>4. QueueTypes'
  BY <1>2, <1>3, AppendProperties DEF QueueInv, QueueTypes
<1>5. /\ asked' = {}
      /\ ~HasToken(main) /\ ~HasToken(tasks) /\ stream = "Starting"
  BY <1>3 DEF QueueInv, TokenOnce
<1>6. OneToken(main')
  BY <1>2, <1>3, <1>5, TokenAppend
<1>7. TokenOnce'
  BY <1>3, <1>5, <1>6 DEF QueueInv, TokenOnce
<1>8. Announced(main', asked', knownUser, authUser)
  BY <1>2, <1>3, AnnouncedAppend DEF QueueInv, QueuesInOrder
<1>9. QueuesInOrder'
  BY <1>3, <1>8 DEF QueueInv, QueuesInOrder
<1> QED
  BY <1>4, <1>7, <1>9 DEF QueueInv

LEMMA ChangedType ==
    ASSUME NEW m \in Telling
    PROVE  Changed(m) \in Telling /\ Changed(m).op = m.op
<1>1. CASE m.op = "token"
  <2>1. m \in [op : {"token"}, user : Owner, changed : BOOLEAN]
    BY <1>1 DEF Telling
  <2> QED
    BY <1>1, <2>1, ChangedToken DEF Telling
<1>2. CASE m.op # "token"
  BY <1>2 DEF Changed
<1> QED
  BY <1>1, <1>2

LEMMA UserToldOnQueues ==
    ASSUME QueueInv, MainQueue, Head(main).op = "user", UserToldOn(Head(main).user)
    PROVE  QueueInv'
<1> DEFINE u == main[1].user
           e == [op |-> "user", user |-> u]
           s == Tail(main)
<1>1. /\ main # <<>> /\ main \in Seq(Telling) /\ Len(main) \in Nat
      /\ main[1] \in Telling /\ main[1].op = "user" /\ Head(main) = main[1]
      /\ \A i \in 1 .. Len(main) : main[i] \in Telling
  BY LenProperties, ElementOfSeq, EmptySeq DEF MainQueue, QueueInv, QueueTypes
<1>2. u \in Owner
  BY <1>1 DEF Telling
<1>3. /\ knownUser' = u
      /\ main' = [i \in DOMAIN s |-> Changed(s[i])]
      /\ asked' = {[r EXCEPT !.changed = TRUE] : r \in asked}
      /\ tasks' = Append(tasks, e)
      /\ UNCHANGED <<author, authUser, user, stream>>
  BY <1>1 DEF MainQueue, UserToldOn, local, wire
<1>4. /\ s \in Seq(Telling) /\ Len(s) = Len(main) - 1 /\ DOMAIN s = 1 .. Len(s)
      /\ Len(s) \in Nat
      /\ \A i \in 1 .. Len(s) : s[i] = main[i + 1] /\ s[i] \in Telling
  BY <1>1, HeadTailProperties, LenProperties, ElementOfSeq
<1>5. e \in Task /\ e.op = "user" /\ e.user = u
  BY <1>2 DEF Task
<1> HIDE DEF u, e, s
<1>6. main' \in [1 .. Len(s) -> Telling]
  BY <1>3, <1>4, ChangedType
<1>7. /\ main' \in Seq(Telling) /\ Len(main') = Len(s)
      /\ \A i \in 1 .. Len(s) : main'[i] = Changed(main[i + 1])
  BY <1>3, <1>4, <1>6
<1>8. asked' \subseteq Asking /\ \A r \in asked' : r.changed
  BY <1>3 DEF QueueInv, QueueTypes, Asking
<1>9. QueueTypes'
  BY <1>2, <1>3, <1>5, <1>7, <1>8, AppendProperties DEF QueueInv, QueueTypes
<1>10. \A i \in 1 .. Len(s) : main'[i].op = s[i].op
  BY <1>4, <1>7, ChangedType
<1>11. /\ OneToken(main') /\ (HasToken(main') => HasToken(main))
       /\ OneToken(tasks') /\ (~HasToken(tasks) => ~HasToken(tasks'))
  <2>1. OneToken(s) /\ (HasToken(s) => HasToken(main))
    BY <1>1, TokenTail DEF s, QueueInv, TokenOnce
  <2>2. OneToken(main') /\ (~HasToken(s) => ~HasToken(main'))
    BY <1>7, <1>10, <2>1, TokenSame
  <2>3. OneToken(tasks') /\ (~HasToken(tasks) => ~HasToken(tasks'))
    BY <1>3, <1>5, TokenAppend DEF QueueInv, QueueTypes, TokenOnce
  <2> QED
    BY <2>1, <2>2, <2>3
<1>12. /\ asked' # {} => asked # {}
       /\ \A r1, r2 \in asked' : r1 = r2
  BY <1>3 DEF QueueInv, TokenOnce
<1>13. TokenOnce'
  BY <1>3, <1>11, <1>12 DEF QueueInv, TokenOnce
<1>14. InOrder(tasks', author, user, u)
  BY <1>3, <1>5, InOrderAppend DEF QueueInv, QueueTypes, QueuesInOrder
<1>15. Announced(main', asked', u, authUser)
  <2>1. \A i \in 1 .. Len(main) : main[i].op = "token" =>
            main[i] \in [op : {"token"}, user : Owner, changed : BOOLEAN]
    BY <1>1 DEF Telling
  <2>2. Announced(main, asked, knownUser, authUser)
    BY DEF QueueInv, QueuesInOrder
  <2> QED
    BY <1>1, <1>4, <1>7, <1>8, <2>1, <2>2, AnnouncedTold DEF u
<1>16. QueuesInOrder'
  BY <1>3, <1>14, <1>15 DEF QueuesInOrder
<1> QED
  BY <1>9, <1>13, <1>16 DEF QueueInv

LEMMA TokenToldOnQueues ==
    ASSUME QueueInv, MainQueue, Head(main).op = "token", TokenToldOn(Head(main))
    PROVE  QueueInv'
<1> DEFINE t == main[1]
           e == [op |-> "token", user |-> t.user]
<1>1. /\ main # <<>> /\ main \in Seq(Telling) /\ Len(main) \in Nat /\ Len(main) >= 1
      /\ t \in Telling /\ t.op = "token" /\ Head(main) = t
  BY LenProperties, ElementOfSeq, EmptySeq DEF MainQueue, QueueInv, QueueTypes
<1>2. t.user \in Owner
  BY <1>1 DEF Telling
<1>3. /\ main' = Tail(main)
      /\ UNCHANGED <<author, authUser, user, stream, knownUser>>
  BY <1>1 DEF MainQueue, TokenToldOn, local, wire
<1>4. \/ t.changed /\ asked' = asked \cup {Request} /\ tasks' = tasks
      \/ ~t.changed /\ tasks' = Append(tasks, e) /\ asked' = asked
  BY <1>1 DEF TokenToldOn
<1>5. e \in Task /\ e.op = "token" /\ e.user = t.user
  BY <1>2 DEF Task
<1>6. main' \in Seq(Telling)
  BY <1>1, <1>3, HeadTailProperties
<1>7. /\ HasToken(main) /\ OneToken(main') /\ ~HasToken(main')
  BY <1>1, <1>3, TokenTail DEF QueueInv, TokenOnce
<1>8. asked = {} /\ ~HasToken(tasks) /\ stream = "Starting"
  BY <1>7 DEF QueueInv, TokenOnce
<1>9. Announced(main', asked, knownUser, authUser)
  BY <1>1, <1>3, AnnouncedTail DEF QueueInv, QueuesInOrder
<1>10. ~t.changed => t.user = knownUser
  BY <1>1 DEF QueueInv, QueuesInOrder, Announced, Changing
<1> HIDE DEF t, e
<1>11. CASE t.changed /\ asked' = asked \cup {Request} /\ tasks' = tasks
  <2>1. QueueTypes'
    BY <1>3, <1>6, <1>11, RequestType DEF QueueInv, QueueTypes
  <2>2. TokenOnce'
    BY <1>3, <1>7, <1>8, <1>11 DEF QueueInv, TokenOnce
  <2>3. Announced(main', asked', knownUser, authUser)
    <3>1. Len(main') \in Nat
      BY <1>6, LenProperties
    <3> QED
      BY <1>9, <1>11, <3>1, RequestType, AnnouncedRequests
  <2> QED
    BY <1>3, <1>11, <2>1, <2>2, <2>3 DEF QueueInv, QueuesInOrder
<1>12. CASE ~t.changed /\ tasks' = Append(tasks, e) /\ asked' = asked
  <2>1. QueueTypes'
    BY <1>3, <1>5, <1>6, <1>12, AppendProperties DEF QueueInv, QueueTypes
  <2>2. OneToken(tasks')
    BY <1>5, <1>8, <1>12, TokenAppend DEF QueueInv, QueueTypes
  <2>3. TokenOnce'
    BY <1>3, <1>7, <1>8, <1>12, <2>2 DEF QueueInv, TokenOnce
  <2>4. InOrder(tasks', author, user, knownUser)
    BY <1>5, <1>10, <1>12, InOrderAppend DEF QueueInv, QueueTypes, QueuesInOrder
  <2> QED
    BY <1>3, <1>9, <1>12, <2>1, <2>3, <2>4 DEF QueueInv, QueuesInOrder
<1> QED
  BY <1>4, <1>11, <1>12

LEMMA VoidToldOnQueues ==
    ASSUME QueueInv, MainQueue, Head(main).op = "void",
           main' = Tail(main), UNCHANGED <<asked, knownUser, tasks>>
    PROVE  QueueInv'
<1>1. /\ main # <<>> /\ main \in Seq(Telling)
      /\ Head(main) = main[1] /\ main[1].op = "void"
  BY EmptySeq DEF MainQueue, QueueInv, QueueTypes
<1>2. UNCHANGED <<author, authUser, user, stream>>
  BY DEF MainQueue, local, wire
<1>3. QueueTypes'
  BY <1>1, <1>2, HeadTailProperties DEF QueueInv, QueueTypes
<1>4. OneToken(main') /\ (HasToken(main') => HasToken(main))
  BY <1>1, TokenTail DEF QueueInv, TokenOnce
<1>5. TokenOnce'
  BY <1>2, <1>4 DEF QueueInv, TokenOnce
<1>6. Announced(main', asked, knownUser, authUser)
  BY <1>1, AnnouncedTail DEF QueueInv, QueuesInOrder
<1>7. QueuesInOrder'
  BY <1>2, <1>6 DEF QueueInv, QueuesInOrder
<1> QED
  BY <1>3, <1>5, <1>7 DEF QueueInv

LEMMA SetDocumentQueues ==
    ASSUME QueueInv, SetDocument
    PROVE  QueueInv'
<1> DEFINE e == [op |-> "write", write |-> Len(author')]
<1>1. /\ author' = Append(author, knownUser) /\ author \in Seq(Owner)
      /\ knownUser \in Owner
      /\ tasks' = Append(tasks, e) /\ tasks \in Seq(Task)
      /\ UNCHANGED <<authUser, asked, main, knownUser, user, stream>>
  BY DEF SetDocument, QueueInv, QueueTypes, auth, local, wire
<1>2. /\ author' \in Seq(Owner)
      /\ Len(author) \in Nat /\ Len(author') = Len(author) + 1
      /\ \A w \in 1 .. Len(author) : author'[w] = author[w]
      /\ author'[Len(author')] = knownUser
  BY <1>1, AppendProperties, LenProperties
<1>3. e \in Task /\ e.op = "write" /\ e.write = Len(author')
  BY <1>2 DEF Task
<1> HIDE DEF e
<1>4. QueueTypes'
  BY <1>1, <1>2, <1>3, AppendProperties DEF QueueInv, QueueTypes
<1>5. OneToken(tasks') /\ (~HasToken(tasks) => ~HasToken(tasks'))
  BY <1>1, <1>3, TokenAppend DEF QueueInv, TokenOnce
<1>6. TokenOnce'
  BY <1>1, <1>5 DEF QueueInv, TokenOnce
<1>7. InOrder(tasks, author', user, knownUser)
  BY <1>2, InOrderIssued DEF QueueInv, QueuesInOrder
<1>8. InOrder(tasks', author', user, knownUser)
  <2>1. e.write \in 1 .. Len(author') /\ author'[e.write] = knownUser
    BY <1>2, <1>3
  <2> QED
    BY <1>1, <1>3, <1>7, <2>1, InOrderAppend
<1>9. QueuesInOrder'
  BY <1>1, <1>8 DEF QueueInv, QueuesInOrder
<1> QED
  BY <1>4, <1>6, <1>9 DEF QueueInv

\* RunTask takes a task that changes no user.
LEMMA TaskTaken ==
    ASSUME QueueInv, tasks # <<>>, Head(tasks).op # "user", tasks' = Tail(tasks),
           UNCHANGED <<author, authUser, main, knownUser, user>>
    PROVE  /\ tasks \in Seq(Task) /\ tasks' \in Seq(Task) /\ Len(tasks) \in Nat
           /\ Len(tasks) >= 1 /\ Head(tasks) = tasks[1] /\ tasks[1] \in Task
           /\ OneToken(tasks') /\ (HasToken(tasks') => HasToken(tasks))
           /\ Head(tasks).op = "token" => HasToken(tasks) /\ ~HasToken(tasks')
           /\ InOrder(tasks', author', user', knownUser')
<1>1. /\ tasks \in Seq(Task) /\ Len(tasks) \in Nat /\ Len(tasks) >= 1
      /\ Head(tasks) = tasks[1] /\ tasks[1] \in Task
  BY LenProperties, ElementOfSeq, EmptySeq DEF QueueInv, QueueTypes
<1>2. tasks' \in Seq(Task)
  BY <1>1, HeadTailProperties
<1>3. /\ OneToken(tasks') /\ (HasToken(tasks') => HasToken(tasks))
      /\ tasks[1].op = "token" => HasToken(tasks) /\ ~HasToken(tasks')
  BY <1>1, TokenTail DEF QueueInv, TokenOnce
<1>4. InOrder(tasks', author, user, knownUser)
  BY <1>1, InOrderTail DEF QueueInv, QueuesInOrder
<1> QED
  BY <1>1, <1>2, <1>3, <1>4

LEMMA WriteMutationsQueues ==
    ASSUME QueueInv, RunTask, Head(tasks).op = "write",
           WriteMutations(Head(tasks).write)
    PROVE  QueueInv'
<1>1. /\ tasks # <<>> /\ tasks' = Tail(tasks)
      /\ UNCHANGED <<author, authUser, main, knownUser, user>>
  BY DEF RunTask, WriteMutations
<1>2. PICK p : /\ stream' = AfterStart(stream, p)
               /\ asked' = asked \cup Requested(stream, p)
  BY DEF WriteMutations
<1>3. asked' = asked \/ asked' = asked \cup {Request}
  BY <1>2 DEF Requested
<1>4. QueueTypes'
  BY <1>1, <1>3, TaskTaken, RequestType DEF QueueInv, QueueTypes
<1>5. stream = "Starting" => stream' = "Starting" /\ asked' = asked
  BY <1>2 DEF AfterStart, Requested
<1>6. asked' # asked => stream = "Initial" /\ stream' = "Starting"
  BY <1>2 DEF AfterStart, Requested
<1>7. TokenOnce'
  <2>1. OneToken(tasks') /\ (HasToken(tasks') => HasToken(tasks))
    BY <1>1, TaskTaken
  <2>2. CASE stream = "Starting"
    BY <1>1, <1>5, <2>1, <2>2 DEF QueueInv, TokenOnce
  <2>3. CASE stream # "Starting"
    <3>1. asked = {} /\ ~HasToken(main) /\ ~HasToken(tasks)
      BY <2>3 DEF QueueInv, TokenOnce
    <3> QED
      BY <1>1, <1>3, <1>6, <2>1, <3>1 DEF QueueInv, TokenOnce
  <2> QED
    BY <2>2, <2>3
<1>8. Announced(main, asked', knownUser, authUser)
  <2>1. Len(main) \in Nat
    BY LenProperties DEF QueueInv, QueueTypes
  <2> QED
    BY <1>3, <2>1, RequestType, AnnouncedRequests DEF QueueInv, QueuesInOrder
<1>9. QueuesInOrder'
  BY <1>1, <1>8, TaskTaken DEF QueuesInOrder
<1> QED
  BY <1>4, <1>7, <1>9 DEF QueueInv

LEMMA TokenTakenQueues ==
    ASSUME QueueInv, RunTask,
           \/ /\ Head(tasks).op = "token"
              /\ ResumeStartWithCredentials(Head(tasks).user)
           \/ Head(tasks).op = "void" /\ Dropped
    PROVE  QueueInv'
<1>1. /\ tasks # <<>> /\ Head(tasks).op # "user" /\ tasks' = Tail(tasks)
      /\ UNCHANGED <<author, authUser, asked, main, knownUser, user>>
      /\ Head(tasks).op = "token" \/ stream' = stream
  BY DEF RunTask, ResumeStartWithCredentials, Dropped, local, wire
<1>2. QueueTypes'
  BY <1>1, TaskTaken DEF QueueInv, QueueTypes
<1>3. TokenOnce'
  <2>1. /\ OneToken(tasks') /\ (HasToken(tasks') => HasToken(tasks))
        /\ Head(tasks).op = "token" => HasToken(tasks) /\ ~HasToken(tasks')
    BY <1>1, TaskTaken
  <2> QED
    BY <1>1, <2>1 DEF QueueInv, TokenOnce
<1>4. QueuesInOrder'
  BY <1>1, TaskTaken DEF QueueInv, QueuesInOrder
<1> QED
  BY <1>2, <1>3, <1>4 DEF QueueInv

\* Whatever restarts the stream makes the token under way void.
LEMMA RestartedQueues ==
    ASSUME QueueInv, NEW p, NEW s \in {"Initial", "Error"}, NEW queued \in Seq(Task),
           Restarted(s, p, queued), UNCHANGED <<author, authUser, knownUser>>,
           user' \in Owner, InOrder(queued, author, user', knownUser)
    PROVE  QueueInv'
<1>1. /\ stream' = AfterStart(s, p)
      /\ asked' = Requested(s, p)
      /\ main' = [i \in DOMAIN main |-> Void(main[i])]
      /\ tasks' = [i \in DOMAIN queued |-> Void(queued[i])]
  BY DEF Restarted
<1>2. /\ \A r \in asked' : r = Request
      /\ asked' # {} => stream' = "Starting"
  BY <1>1 DEF Requested, AfterStart
<1>3. main \in Seq(Telling) /\ [op |-> "void"] \in Telling /\ [op |-> "void"] \in Task
  BY DEF QueueInv, QueueTypes, Telling, Task
<1>4. /\ main' \in Seq(Telling) /\ tasks' \in Seq(Task)
      /\ OneToken(main') /\ ~HasToken(main')
      /\ OneToken(tasks') /\ ~HasToken(tasks')
  BY <1>1, <1>3, Voided
<1>5. QueueTypes'
  BY <1>2, <1>4, RequestType DEF QueueInv, QueueTypes
<1>6. TokenOnce'
  BY <1>2, <1>4 DEF TokenOnce
<1>7. InOrder(tasks', author, user', knownUser)
  BY <1>1, InOrderVoid
<1>8. Announced(main', asked', knownUser, authUser)
  BY <1>1, <1>2, <1>3, RequestType, AnnouncedVoid DEF QueueInv, QueuesInOrder
<1>9. QueuesInOrder'
  BY <1>7, <1>8 DEF QueuesInOrder
<1> QED
  BY <1>5, <1>6, <1>9 DEF QueueInv

LEMMA CredentialChangeQueues ==
    ASSUME QueueInv, RunTask, Head(tasks).op = "user",
           HandleCredentialChange(Head(tasks).user)
    PROVE  QueueInv' /\ user' \in Owner
<1>1. /\ tasks # <<>> /\ tasks \in Seq(Task)
      /\ Head(tasks) = tasks[1] /\ tasks[1].op = "user" /\ tasks[1] \in Task
  BY LenProperties, ElementOfSeq, EmptySeq DEF RunTask, QueueInv, QueueTypes
<1>2. /\ user' = tasks[1].user
      /\ Restarted("Initial", Filled(<<>>, queue[user']), Tail(tasks))
      /\ UNCHANGED <<author, authUser, knownUser>>
  BY <1>1 DEF HandleCredentialChange, RunTask
<1>3. user' \in Owner
  BY <1>1, <1>2 DEF Task
<1>4. Tail(tasks) \in Seq(Task)
  BY <1>1, HeadTailProperties
<1>5. InOrder(Tail(tasks), author, user', knownUser)
  BY <1>1, <1>2, InOrderTail DEF QueueInv, QueuesInOrder
<1> QED
  BY <1>2, <1>3, <1>4, <1>5, RestartedQueues

\* The stream breaks, stops or is closed over a write.
LEMMA ClosedQueues ==
    ASSUME QueueInv, NEW p, NEW s \in {"Initial", "Error"}, Restarted(s, p, tasks),
           UNCHANGED <<author, authUser, knownUser, user>>
    PROVE  QueueInv'
BY RestartedQueues DEF QueueInv, QueueTypes, QueuesInOrder

LEMMA TryRestartingQueues ==
    ASSUME QueueInv, TryRestarting
    PROVE  QueueInv'
<1>1. /\ stream = "Backoff" /\ stream' = "Starting"
      /\ asked' = asked \cup {Request}
      /\ UNCHANGED <<author, authUser, main, knownUser, tasks, user>>
  BY DEF TryRestarting, local
<1>2. asked = {} /\ ~HasToken(main) /\ ~HasToken(tasks)
  BY <1>1 DEF QueueInv, TokenOnce
<1>3. QueueTypes'
  BY <1>1, RequestType DEF QueueInv, QueueTypes
<1>4. TokenOnce'
  BY <1>1, <1>2 DEF QueueInv, TokenOnce
<1>5. Announced(main, asked', knownUser, authUser)
  <2>1. Len(main) \in Nat
    BY LenProperties DEF QueueInv, QueueTypes
  <2> QED
    BY <1>1, <2>1, RequestType, AnnouncedRequests DEF QueueInv, QueuesInOrder
<1>6. QueuesInOrder'
  BY <1>1, <1>5 DEF QueueInv, QueuesInOrder
<1> QED
  BY <1>3, <1>4, <1>6 DEF QueueInv

LEMMA EmptyQueues ==
    ASSUME NEW a, NEW u, NEW requested, \A r \in requested : ~r.read
    PROVE  /\ InOrder(<<>>, a, u, u)
           /\ Announced(<<>>, requested, u, u)
           /\ OneToken(<<>>) /\ ~HasToken(<<>>)
<1>1. Len(<<>>) = 0
  OBVIOUS
<1> QED
  BY <1>1 DEF InOrder, Announced, At, OneToken, HasToken

LEMMA CrashQueues ==
    ASSUME QueueInv, Crash
    PROVE  QueueInv'
<1>1. PICK p : /\ stream' = AfterStart("Initial", p)
               /\ asked' = Requested("Initial", p)
  BY DEF Crash
<1>2. /\ main' = <<>> /\ tasks' = <<>>
      /\ knownUser' = authUser /\ user' = authUser
      /\ UNCHANGED <<author, authUser>>
  BY DEF Crash
<1>3. /\ \A r \in asked' : r = Request
      /\ asked' # {} => stream' = "Starting"
  BY <1>1 DEF Requested, AfterStart
<1>4. QueueTypes'
  BY <1>2, <1>3, RequestType, EmptySeq DEF QueueInv, QueueTypes
<1>5. TokenOnce'
  BY <1>2, <1>3, EmptyQueues DEF TokenOnce
<1>6. QueuesInOrder'
  BY <1>2, <1>3, RequestType, EmptyQueues DEF QueuesInOrder
<1> QED
  BY <1>4, <1>5, <1>6 DEF QueueInv

LEMMA InitQueues ==
    ASSUME Init
    PROVE  QueueInv
<1>1. /\ author = <<>> /\ asked = {} /\ main = <<>> /\ tasks = <<>>
      /\ authUser \in Owner /\ knownUser = authUser /\ user = authUser
  BY DEF Init
<1>2. QueueTypes
  BY <1>1, EmptySeq DEF QueueTypes
<1>3. TokenOnce /\ QueuesInOrder
  BY <1>1, EmptyQueues DEF TokenOnce, QueuesInOrder
<1> QED
  BY <1>2, <1>3 DEF QueueInv

\* Steps of the server, and those of its messages that leave the stream open.
LEMMA OtherQueues ==
    ASSUME QueueInv,
           UNCHANGED <<author, authUser, asked, main, knownUser, tasks, user, stream>>
    PROVE  QueueInv'
BY DEF QueueInv, QueueTypes, TokenOnce, QueuesInOrder

LEMMA QueueStep ==
    ASSUME QueueInv, [Next]_vars
    PROVE  QueueInv'
<1>1. ASSUME NEW u \in Owner, UserChanges(u)
      PROVE  QueueInv'
  BY <1>1, UserChangesQueues
<1>2. ASSUME NEW r \in asked, TokenRead(r) \/ TokenComes(r)
      PROVE  QueueInv'
  BY <1>2, TokenReadQueues, TokenComesQueues
<1>3. CASE MainQueue
  <2>1. CASE Head(main).op = "user" /\ UserToldOn(Head(main).user)
    BY <1>3, <2>1, UserToldOnQueues
  <2>2. CASE Head(main).op = "token" /\ TokenToldOn(Head(main))
    BY <1>3, <2>2, TokenToldOnQueues
  <2>3. CASE /\ Head(main).op = "void" /\ main' = Tail(main)
             /\ UNCHANGED <<asked, knownUser, tasks>>
    BY <1>3, <2>3, VoidToldOnQueues
  <2> QED
    BY <1>3, <2>1, <2>2, <2>3 DEF MainQueue
<1>4. CASE SetDocument
  BY <1>4, SetDocumentQueues
<1>5. CASE RunTask
  <2>1. CASE Head(tasks).op = "write" /\ WriteMutations(Head(tasks).write)
    BY <1>5, <2>1, WriteMutationsQueues
  <2>2. CASE Head(tasks).op = "user" /\ HandleCredentialChange(Head(tasks).user)
    BY <1>5, <2>2, CredentialChangeQueues
  <2>3. CASE \/ /\ Head(tasks).op = "token"
                /\ ResumeStartWithCredentials(Head(tasks).user)
             \/ Head(tasks).op = "void" /\ Dropped
    BY <1>5, <2>3, TokenTakenQueues
  <2> QED
    BY <1>5, <2>1, <2>2, <2>3 DEF RunTask
<1>6. CASE TryRestarting
  BY <1>6, TryRestartingQueues
<1>7. CASE OnWriteStreamClose
  BY <1>7, ClosedQueues DEF OnWriteStreamClose, local
<1>8. CASE IdleTimeout
  BY <1>8, ClosedQueues DEF IdleTimeout, local
<1>9. CASE OnStreamRead
  <2>1. CASE OnHandshakeComplete
    BY <1>9, <2>1, OtherQueues DEF OnStreamRead, OnHandshakeComplete, local
  <2>2. CASE OnMutationResult
    BY <1>9, <2>2, OtherQueues DEF OnStreamRead, OnMutationResult, Finish
  <2>3. CASE OnWriteRejected
    BY <1>9, <2>3, ClosedQueues DEF OnStreamRead, OnWriteRejected, Finish
  <2> QED
    BY <1>9, <2>1, <2>2, <2>3 DEF OnStreamRead
<1>10. CASE ServerHandles
  BY <1>10, OtherQueues DEF ServerHandles, auth, local
<1>11. CASE Crash
  BY <1>11, CrashQueues
<1>12. CASE UNCHANGED vars
  BY <1>12, OtherQueues DEF vars, auth, local, wire
<1> QED
  BY <1>1, <1>2, <1>3, <1>4, <1>5, <1>6, <1>7, <1>8, <1>9, <1>10, <1>11, <1>12
     DEF Next

-----------------------------------------------------------------------------
(* The invariant of the pipeline and its stream. *)

\* The writes u has issued, where a holds the author of each write.
Issued(a, u) == {w \in 1 .. Len(a) : a[w] = u}

\* Queues and pipeline hold writes of their users.
OwnBatches ==
    /\ DOMAIN queue = Owner
    /\ \A u \in Owner : Batches(queue[u], Issued(author, u))
    /\ Batches(pipeline, Issued(author, user))

\* What is under way belongs to the current user, and to the pipeline: first the
\* handshake goes out and comes back, then every message is about a batch of the
\* pipeline.
OwnStream ==
    /\ refused \subseteq Write /\ handshake \in BOOLEAN
    /\ stream = "Open" => token = user
    /\ stream # "Open" => ~handshake /\ requests = <<>> /\ responses = <<>>
    /\ stream = "Open" /\ ~handshake =>
        \/ requests = <<Handshake>> /\ responses = <<>>
        \/ requests = <<>> /\ responses = <<"handshake">>
    /\ handshake =>
        /\ requests \in Seq(Issued(author, user))
        /\ responses \in Seq({"result", "error"})
        /\ Len(requests) + Len(responses) <= Len(pipeline)

OwnLog ==
    /\ log \in Seq([write : Nat, token : Owner])
    /\ \A i \in 1 .. Len(log) : log[i].write \in Issued(author, log[i].token)

WireInv == OwnBatches /\ OwnStream /\ OwnLog

\* Steps that change nothing of it.
LEMMA OtherWire ==
    ASSUME WireInv, UNCHANGED <<author, server, user, queue, wire>>
    PROVE  WireInv'
BY DEF WireInv, OwnBatches, OwnStream, OwnLog, server, wire

LEMMA SetDocumentWire ==
    ASSUME QueueInv, WireInv, SetDocument
    PROVE  WireInv'
<1>1. /\ author' = Append(author, knownUser) /\ author \in Seq(Owner)
      /\ knownUser \in Owner /\ user \in Owner
      /\ UNCHANGED <<server, local, wire>>
  BY DEF SetDocument, QueueInv, QueueTypes
<1>2. /\ Len(author) \in Nat /\ Len(author') = Len(author) + 1
      /\ \A w \in 1 .. Len(author) : author'[w] = author[w]
  BY <1>1, AppendProperties, LenProperties
<1>3. \A u : Issued(author, u) \subseteq Issued(author', u)
  BY <1>2 DEF Issued
<1>4. OwnBatches'
  <2>1. \A u \in Owner : Batches(queue[u], Issued(author', u))
    BY <1>3, BatchesMore DEF WireInv, OwnBatches
  <2>2. Batches(pipeline, Issued(author', user))
    BY <1>3, BatchesMore DEF WireInv, OwnBatches
  <2> QED
    BY <1>1, <2>1, <2>2 DEF WireInv, OwnBatches, local, wire
<1>5. OwnStream'
  <2>1. handshake => requests \in Seq(Issued(author', user))
    BY <1>3, SeqMonotonic DEF WireInv, OwnStream
  <2> QED
    BY <1>1, <2>1 DEF WireInv, OwnStream, server, local, wire
<1>6. OwnLog'
  BY <1>1, <1>3 DEF WireInv, OwnLog, server
<1> QED
  BY <1>4, <1>5, <1>6 DEF WireInv

\* The queue of the current user changes.
LEMMA QueueChanged ==
    ASSUME QueueInv, OwnBatches, NEW q, Batches(q, Issued(author, user)),
           queue' = [queue EXCEPT ![user] = q]
    PROVE  /\ DOMAIN queue' = Owner
           /\ \A u \in Owner : Batches(queue'[u], Issued(author, u))
           /\ queue'[user] = q
<1>1. user \in Owner /\ DOMAIN queue = Owner
  BY DEF QueueInv, QueueTypes, OwnBatches
<1>2. /\ DOMAIN queue' = Owner
      /\ \A u \in Owner : queue'[u] = IF u = user THEN q ELSE queue[u]
  BY <1>1
<1> QED
  BY <1>1, <1>2 DEF OwnBatches

LEMMA WriteMutationsWire ==
    ASSUME QueueInv, WireInv, RunTask, Head(tasks).op = "write",
           WriteMutations(Head(tasks).write)
    PROVE  WireInv'
<1> DEFINE w == Head(tasks).write
           W == Issued(author, user)
           b == [id |-> nextId, write |-> w]
           q == Append(queue[user], b)
           p == Filled(pipeline, q)
<1>1. /\ tasks # <<>> /\ tasks \in Seq(Task)
      /\ Len(tasks) \in Nat /\ Len(tasks) >= 1 /\ Head(tasks) = tasks[1]
      /\ user \in Owner
  BY LenProperties, EmptySeq DEF RunTask, QueueInv, QueueTypes
<1>2. w \in W
  <2>1. w \in 1 .. Len(author) /\ At(tasks, 1, user, author[w])
    BY <1>1 DEF QueueInv, QueuesInOrder, InOrder
  <2> QED
    BY <2>1, AtStart DEF Issued
<1>3. /\ queue' = [queue EXCEPT ![user] = q]
      /\ pipeline' = p
      /\ \/ handshake /\ p # pipeline /\ requests' = Append(requests, w)
         \/ (~handshake \/ p = pipeline) /\ requests' = requests
      /\ stream' = AfterStart(stream, p)
      /\ UNCHANGED <<author, server, user, handshake, token, responses>>
  BY DEF WriteMutations, RunTask
<1>4. b.write = w
  OBVIOUS
<1> HIDE DEF w, b
<1>5. Batches(q, W)
  BY <1>1, <1>2, <1>4, BatchesAppend DEF WireInv, OwnBatches
<1> HIDE DEF q
<1>6. /\ Batches(p, W) /\ Len(p) >= Len(pipeline)
      /\ p # pipeline => Len(p) > Len(pipeline)
  BY <1>5, BatchesFilled DEF WireInv, OwnBatches
<1>7. Len(p) \in Nat /\ Len(pipeline) \in Nat
  BY <1>6, BatchesAre DEF WireInv, OwnBatches
<1> HIDE DEF p
<1>8. OwnBatches'
  <2>1. /\ DOMAIN queue' = Owner
        /\ \A u \in Owner : Batches(queue'[u], Issued(author, u))
    BY <1>3, <1>5, QueueChanged DEF WireInv
  <2> QED
    BY <1>3, <1>6, <2>1 DEF OwnBatches
<1>9. OwnStream'
  <2>1. (stream' = "Open" <=> stream = "Open") /\ (handshake => stream = "Open")
    BY <1>3 DEF AfterStart, WireInv, OwnStream
  <2>2. ASSUME handshake
        PROVE  /\ requests' \in Seq(W)
               /\ Len(requests') + Len(responses) <= Len(p)
    <3>1. /\ requests \in Seq(W) /\ Len(requests) \in Nat
          /\ Len(responses) \in Nat
          /\ Len(requests) + Len(responses) <= Len(pipeline)
      BY <2>2, LenProperties DEF WireInv, OwnStream
    <3>2. CASE p # pipeline /\ requests' = Append(requests, w)
      <4>1. requests' \in Seq(W) /\ Len(requests') = Len(requests) + 1
        BY <1>2, <3>1, <3>2, AppendProperties
      <4> QED
        BY <1>6, <1>7, <3>1, <3>2, <4>1
    <3>3. CASE requests' = requests
      BY <1>6, <1>7, <3>1, <3>3
    <3> QED
      BY <1>3, <2>2, <3>2, <3>3
  <2>3. ~handshake => requests' = requests
    BY <1>3
  <2> QED
    BY <1>3, <2>1, <2>2, <2>3 DEF WireInv, OwnStream, server
<1>10. OwnLog'
  BY <1>3 DEF WireInv, OwnLog, server
<1> QED
  BY <1>8, <1>9, <1>10 DEF WireInv

\* A stream that is restarted has nothing under way.
LEMMA RestartedWire ==
    ASSUME WireInv, NEW p, NEW s \in {"Initial", "Error"}, NEW queued,
           Restarted(s, p, queued), UNCHANGED <<author, server>>,
           DOMAIN queue' = Owner,
           \A u \in Owner : Batches(queue'[u], Issued(author, u)),
           Batches(p, Issued(author, user'))
    PROVE  WireInv'
<1>1. /\ pipeline' = p /\ stream' = AfterStart(s, p)
      /\ requests' = <<>> /\ responses' = <<>> /\ handshake' = FALSE
      /\ UNCHANGED <<author, refused, log>>
  BY DEF Restarted, server
<1>2. OwnBatches'
  BY <1>1 DEF OwnBatches
<1>3. OwnStream'
  BY <1>1 DEF AfterStart, WireInv, OwnStream
<1>4. OwnLog'
  BY <1>1 DEF WireInv, OwnLog
<1> QED
  BY <1>2, <1>3, <1>4 DEF WireInv

LEMMA CredentialChangeWire ==
    ASSUME QueueInv, WireInv, RunTask, Head(tasks).op = "user",
           HandleCredentialChange(Head(tasks).user)
    PROVE  WireInv'
<1>1. user' \in Owner
  BY CredentialChangeQueues
<1>2. /\ Restarted("Initial", Filled(<<>>, queue[user']), Tail(tasks))
      /\ UNCHANGED <<author, server, queue>>
  BY DEF HandleCredentialChange, RunTask
<1>3. Batches(Filled(<<>>, queue[user']), Issued(author, user'))
  BY <1>1, BatchesEmpty, BatchesFilled DEF WireInv, OwnBatches
<1> QED
  BY <1>2, <1>3, RestartedWire DEF WireInv, OwnBatches

LEMMA ClosedWire ==
    ASSUME WireInv, NEW s \in {"Initial", "Error"}, Restarted(s, pipeline, tasks),
           UNCHANGED <<author, server, user, queue>>
    PROVE  WireInv'
BY RestartedWire DEF WireInv, OwnBatches

\* The token that opens the stream is the current user's, since the change that
\* makes another one the current user comes after it or makes it void.
LEMMA ResumeStartWire ==
    ASSUME QueueInv, WireInv, RunTask, Head(tasks).op = "token",
           ResumeStartWithCredentials(Head(tasks).user)
    PROVE  WireInv'
<1>1. /\ tasks # <<>> /\ tasks \in Seq(Task)
      /\ Len(tasks) \in Nat /\ Len(tasks) >= 1 /\ Head(tasks) = tasks[1]
  BY LenProperties, EmptySeq DEF RunTask, QueueInv, QueueTypes
<1>2. Head(tasks).user = user
  <2>1. At(tasks, 1, user, tasks[1].user)
    BY <1>1 DEF QueueInv, QueuesInOrder, InOrder
  <2> QED
    BY <1>1, <2>1, AtStart
<1>3. HasToken(tasks)
  BY <1>1 DEF HasToken
<1>4. stream = "Starting"
  BY <1>3 DEF QueueInv, TokenOnce
<1>5. /\ stream' = "Open" /\ token' = Head(tasks).user
      /\ requests' = Append(requests, Handshake)
      /\ UNCHANGED <<author, server, user, queue, pipeline, handshake, responses>>
  BY DEF RunTask, ResumeStartWithCredentials, local
<1>6. ~handshake /\ requests = <<>> /\ responses = <<>>
  BY <1>4 DEF WireInv, OwnStream
<1>7. requests' = <<Handshake>>
  BY <1>5, <1>6
<1>8. OwnBatches'
  BY <1>5 DEF WireInv, OwnBatches
<1>9. OwnStream'
  BY <1>2, <1>5, <1>6, <1>7 DEF WireInv, OwnStream, server
<1>10. OwnLog'
  BY <1>5 DEF WireInv, OwnLog, server
<1> QED
  BY <1>8, <1>9, <1>10 DEF WireInv

LEMMA HandshakeCompleteWire ==
    ASSUME WireInv, OnStreamRead, Head(responses) = "handshake", OnHandshakeComplete
    PROVE  WireInv'
<1>1. /\ responses # <<>>
      /\ handshake' = TRUE
      /\ requests' = requests \o ToSend(pipeline)
      /\ responses' = Tail(responses)
      /\ UNCHANGED <<author, server, user, queue, pipeline, stream, token>>
  BY DEF OnStreamRead, OnHandshakeComplete, local
<1>2. ~handshake
  <2> SUFFICES ASSUME handshake
               PROVE  FALSE
    OBVIOUS
  <2>1. responses \in Seq({"result", "error"})
    BY DEF WireInv, OwnStream
  <2>2. Head(responses) \in {"result", "error"}
    BY <1>1, <2>1, HeadTailProperties
  <2> QED
    BY <2>2
<1>3. stream = "Open" /\ requests = <<>> /\ responses = <<"handshake">>
  BY <1>1, <1>2 DEF WireInv, OwnStream
<1>4. /\ ToSend(pipeline) \in Seq(Issued(author, user))
      /\ Len(ToSend(pipeline)) = Len(pipeline)
      /\ Len(pipeline) \in Nat
  BY ToSendAll, BatchesAre DEF WireInv, OwnBatches
<1>5. requests' = ToSend(pipeline)
  <2> HIDE DEF ToSend
  <2> QED
    BY <1>1, <1>3, <1>4, ConcatEmptySeq
<1>6. responses' = <<>>
  BY <1>1, <1>3
<1>7. OwnBatches'
  BY <1>1 DEF WireInv, OwnBatches
<1>8. OwnStream'
  <2>1. responses' \in Seq({"result", "error"}) /\ Len(responses') = 0
    BY <1>6, EmptySeq
  <2>2. /\ requests' \in Seq(Issued(author, user))
        /\ Len(requests') + Len(responses') <= Len(pipeline)
    BY <1>4, <1>5, <2>1
  <2> QED
    BY <1>1, <1>3, <2>1, <2>2 DEF WireInv, OwnStream, server
<1>9. OwnLog'
  BY <1>1 DEF WireInv, OwnLog, server
<1> QED
  BY <1>7, <1>8, <1>9 DEF WireInv

\* A message about a write has a front of the pipeline to be about.
LEMMA ReadsAnAnswer ==
    ASSUME WireInv, responses # <<>>, Head(responses) \in {"result", "error"}
    PROVE  /\ handshake /\ stream = "Open"
           /\ responses \in Seq({"result", "error"})
           /\ Tail(responses) \in Seq({"result", "error"})
           /\ Len(Tail(responses)) = Len(responses) - 1 /\ Len(responses) \in Nat
           /\ requests \in Seq(Issued(author, user)) /\ Len(requests) \in Nat
           /\ Len(requests) + Len(responses) <= Len(pipeline)
           /\ pipeline # <<>>
<1>1. handshake
  <2> SUFFICES ASSUME ~handshake
               PROVE  FALSE
    OBVIOUS
  <2>1. responses = <<"handshake">>
    BY DEF WireInv, OwnStream
  <2>2. Head(responses) = "handshake"
    BY <2>1
  <2> QED
    BY <2>2
<1>2. /\ responses \in Seq({"result", "error"})
      /\ requests \in Seq(Issued(author, user))
      /\ Len(requests) + Len(responses) <= Len(pipeline)
      /\ stream = "Open"
  BY <1>1 DEF WireInv, OwnStream
<1>3. /\ Tail(responses) \in Seq({"result", "error"})
      /\ Len(Tail(responses)) = Len(responses) - 1
      /\ Len(responses) \in Nat /\ Len(responses) >= 1 /\ Len(requests) \in Nat
  BY <1>2, HeadTailProperties, LenProperties, EmptySeq
<1>4. pipeline # <<>>
  <2>1. Len(pipeline) >= 1
    <3>1. Len(pipeline) \in Nat
      BY BatchesAre DEF WireInv, OwnBatches
    <3> QED
      BY <1>2, <1>3, <3>1
  <2> QED
    BY <2>1
<1> QED
  BY <1>1, <1>2, <1>3, <1>4

LEMMA MutationResultWire ==
    ASSUME QueueInv, WireInv, OnStreamRead, Head(responses) = "result",
           OnMutationResult
    PROVE  WireInv'
<1> DEFINE W == Issued(author, user)
           b == Head(pipeline)
           q == RemoveAt(queue[user], 1 + Before(queue[user], b.id))
           p == Filled(Tail(pipeline), q)
           sent == ToSend(SubSeq(p, Len(pipeline), Len(p)))
<1>1. /\ handshake /\ stream = "Open"
      /\ Tail(responses) \in Seq({"result", "error"})
      /\ Len(Tail(responses)) = Len(responses) - 1 /\ Len(responses) \in Nat
      /\ requests \in Seq(W) /\ Len(requests) \in Nat
      /\ Len(requests) + Len(responses) <= Len(pipeline)
      /\ pipeline # <<>>
  BY ReadsAnAnswer DEF OnStreamRead
<1>2. user \in Owner
  BY DEF QueueInv, QueueTypes
<1>3. Batches(q, W)
  BY <1>2, BatchesRemove DEF WireInv, OwnBatches
<1>4. /\ queue' = [queue EXCEPT ![user] = q]
      /\ UNCHANGED <<author, server, user, stream, handshake, token>>
      /\ responses' = Tail(responses)
  BY DEF OnStreamRead, OnMutationResult, Finish
<1> HIDE DEF q
<1>5. /\ DOMAIN queue' = Owner
      /\ \A u \in Owner : Batches(queue'[u], Issued(author, u))
      /\ queue'[user] = q
  BY <1>3, <1>4, QueueChanged DEF WireInv
<1>6. pipeline' = p
  BY <1>5 DEF OnMutationResult
<1>7. requests' = requests \o sent
  BY <1>6 DEF OnMutationResult
<1>8. /\ Batches(Tail(pipeline), W) /\ Len(Tail(pipeline)) = Len(pipeline) - 1
      /\ Len(pipeline) \in Nat /\ Len(pipeline) >= 1
  <2>1. pipeline \in Seq(ToSet(pipeline)) /\ Len(pipeline) \in Nat
    BY BatchesAre DEF WireInv, OwnBatches
  <2>2. Len(pipeline) # 0
    BY <1>1, <2>1, EmptySeq
  <2> QED
    BY <1>1, <2>1, <2>2, BatchesTail DEF WireInv, OwnBatches
<1>9. Batches(p, W) /\ Len(p) >= Len(pipeline) - 1
  BY <1>3, <1>8, BatchesFilled
<1>10. Len(p) \in Nat
  BY <1>9, BatchesAre
<1> HIDE DEF p
<1>11. sent \in Seq(W) /\ Len(sent) = Len(p) - Len(pipeline) + 1
  <2>1. Len(pipeline) \in 1 .. Len(p) + 1
    BY <1>8, <1>9, <1>10
  <2> QED
    BY <1>9, <2>1, ToSendFrom
<1> HIDE DEF sent
<1>12. requests' \in Seq(W) /\ Len(requests') = Len(requests) + Len(sent)
  BY <1>1, <1>7, <1>11, ConcatProperties
<1>13. OwnBatches'
  BY <1>4, <1>5, <1>6, <1>9 DEF OwnBatches
<1>14. OwnStream'
  <2>1. Len(requests') + Len(responses') <= Len(p)
    BY <1>1, <1>4, <1>8, <1>10, <1>11, <1>12
  <2> QED
    BY <1>1, <1>4, <1>6, <1>12, <2>1 DEF WireInv, OwnStream, server
<1>15. OwnLog'
  BY <1>4 DEF WireInv, OwnLog, server
<1> QED
  BY <1>13, <1>14, <1>15 DEF WireInv

LEMMA WriteRejectedWire ==
    ASSUME QueueInv, WireInv, OnStreamRead, Head(responses) = "error",
           OnWriteRejected
    PROVE  WireInv'
<1> DEFINE W == Issued(author, user)
           q == RemoveAt(queue[user],
                         1 + Before(queue[user], Head(pipeline).id))
           p == Filled(Tail(pipeline), q)
<1>1. pipeline # <<>> /\ user \in Owner
  BY ReadsAnAnswer DEF OnStreamRead, QueueInv, QueueTypes
<1>2. Batches(q, W)
  BY <1>1, BatchesRemove DEF WireInv, OwnBatches
<1>3. /\ queue' = [queue EXCEPT ![user] = q]
      /\ UNCHANGED <<author, server, user>>
  BY DEF OnStreamRead, OnWriteRejected, Finish
<1> HIDE DEF q
<1>4. /\ DOMAIN queue' = Owner
      /\ \A u \in Owner : Batches(queue'[u], Issued(author, u))
      /\ queue'[user] = q
  BY <1>2, <1>3, QueueChanged DEF WireInv
<1>5. Restarted("Initial", p, tasks)
  BY <1>4 DEF OnWriteRejected
<1>6. Batches(p, W)
  BY <1>1, <1>2, BatchesTail, BatchesFilled DEF WireInv, OwnBatches
<1> HIDE DEF p
<1> QED
  BY <1>3, <1>4, <1>5, <1>6, RestartedWire

\* What the server applies came over the stream, with the stream's token.
LEMMA ServerHandlesWire ==
    ASSUME QueueInv, WireInv, ServerHandles
    PROVE  WireInv'
<1> DEFINE W == Issued(author, user)
           r == Head(requests)
           e == [write |-> r, token |-> token]
<1>1. /\ requests # <<>>
      /\ UNCHANGED <<author, refused, user, queue, pipeline, stream, handshake,
                     token>>
      /\ refused \subseteq Write
  BY DEF ServerHandles, local, WireInv, OwnStream
<1>2. OwnBatches'
  BY <1>1 DEF WireInv, OwnBatches
<1>3. stream = "Open" /\ token = user /\ user \in Owner
  BY <1>1 DEF WireInv, OwnStream, QueueInv, QueueTypes
<1>4. CASE ~handshake
  <2>1. requests = <<Handshake>> /\ responses = <<>>
    BY <1>1, <1>3, <1>4 DEF WireInv, OwnStream
  <2>2. r = 0
    BY <2>1 DEF Handshake
  <2>3. r \notin Write
    BY <2>2 DEF Write
  <2>4. /\ responses' = Append(responses, "handshake")
        /\ requests' = Tail(requests)
        /\ log' = log
    BY <1>1, <2>3 DEF ServerHandles
  <2>5. requests' = <<>> /\ responses' = <<"handshake">>
    BY <2>1, <2>4
  <2>6. OwnStream'
    BY <1>1, <1>3, <1>4, <2>5 DEF WireInv, OwnStream
  <2>7. OwnLog'
    BY <1>1, <2>4 DEF WireInv, OwnLog
  <2> QED
    BY <1>2, <2>6, <2>7 DEF WireInv
<1>5. CASE handshake
  <2>1. /\ requests \in Seq(W) /\ responses \in Seq({"result", "error"})
        /\ Len(requests) + Len(responses) <= Len(pipeline)
    BY <1>5 DEF WireInv, OwnStream
  <2>2. /\ r \in W /\ Tail(requests) \in Seq(W)
        /\ Len(Tail(requests)) = Len(requests) - 1
        /\ Len(requests) \in Nat /\ Len(requests) >= 1
        /\ Len(responses) \in Nat /\ Len(pipeline) \in Nat
    <3>1. Len(pipeline) \in Nat
      BY BatchesAre DEF WireInv, OwnBatches
    <3>2. /\ r \in W /\ Tail(requests) \in Seq(W)
          /\ Len(Tail(requests)) = Len(requests) - 1
      BY <1>1, <2>1, HeadTailProperties
    <3>3. Len(requests) \in Nat /\ Len(responses) \in Nat /\ Len(requests) # 0
      BY <1>1, <2>1, LenProperties, EmptySeq
    <3> QED
      BY <3>1, <3>2, <3>3
  <2>3. r \in Nat /\ r # 0
    <3>1. Len(author) \in Nat
      BY LenProperties DEF QueueInv, QueueTypes
    <3> QED
      BY <2>2, <3>1 DEF Issued
  <2>4. \/ /\ log' = log \/ log' = Append(log, e)
           /\ responses' = Append(responses, "result")
           /\ requests' = Tail(requests)
        \/ /\ responses' = Append(responses, "error")
           /\ requests' = <<>>
           /\ log' = log
    BY <2>3 DEF ServerHandles, Handshake
  <2>5. /\ requests' \in Seq(W) /\ responses' \in Seq({"result", "error"})
        /\ Len(requests') + Len(responses') <= Len(pipeline)
    <3>1. \A x \in {"result", "error"} :
            /\ Append(responses, x) \in Seq({"result", "error"})
            /\ Len(Append(responses, x)) = Len(responses) + 1
      BY <2>1, AppendProperties
    <3>2. CASE /\ responses' = Append(responses, "result")
               /\ requests' = Tail(requests)
      BY <2>1, <2>2, <3>1, <3>2
    <3>3. CASE responses' = Append(responses, "error") /\ requests' = <<>>
      <4>1. requests' \in Seq(W) /\ Len(requests') = 0
        BY <3>3, EmptySeq
      <4> QED
        BY <2>1, <2>2, <3>1, <3>3, <4>1
    <3> QED
      BY <2>4, <3>2, <3>3
  <2>6. OwnStream'
    BY <1>1, <1>3, <1>5, <2>5 DEF WireInv, OwnStream
  <2>7. OwnLog'
    <3>1. e \in [write : Nat, token : Owner] /\ e.write = r /\ e.token = user
      BY <1>3, <2>3
    <3>2. CASE log' = log
      BY <1>1, <3>2 DEF WireInv, OwnLog
    <3>3. CASE log' = Append(log, e)
      <4> HIDE DEF e, r
      <4>1. /\ log' \in Seq([write : Nat, token : Owner])
            /\ Len(log) \in Nat /\ Len(log') = Len(log) + 1
            /\ \A i \in 1 .. Len(log) : log'[i] = log[i]
            /\ log'[Len(log) + 1] = e
        BY <3>1, <3>3, AppendProperties, LenProperties DEF WireInv, OwnLog
      <4>2. \A i \in 1 .. Len(log') :
                log'[i].write \in Issued(author, log'[i].token)
        <5> TAKE i \in 1 .. Len(log')
        <5>1. CASE i = Len(log) + 1
          <6>1. log'[i] = e
            BY <4>1, <5>1
          <6> QED
            BY <2>2, <3>1, <6>1
        <5>2. CASE i # Len(log) + 1
          <6>1. i \in 1 .. Len(log) /\ log'[i] = log[i]
            BY <4>1, <5>2
          <6> QED
            BY <6>1 DEF WireInv, OwnLog
        <5> QED
          BY <5>1, <5>2
      <4> QED
        BY <1>1, <4>1, <4>2 DEF OwnLog
    <3> QED
      BY <2>4, <3>2, <3>3
  <2> QED
    BY <1>2, <2>6, <2>7 DEF WireInv
<1> QED
  BY <1>4, <1>5 DEF WireInv, OwnStream

LEMMA CrashWire ==
    ASSUME QueueInv, WireInv, Crash
    PROVE  WireInv'
<1> DEFINE p == Filled(<<>>, queue[authUser])
<1>1. /\ user' = authUser /\ authUser \in Owner
      /\ pipeline' = p /\ stream' = AfterStart("Initial", p)
      /\ requests' = <<>> /\ responses' = <<>> /\ handshake' = FALSE
      /\ UNCHANGED <<author, refused, log, queue>>
  BY DEF Crash, QueueInv, QueueTypes, server
<1>2. Batches(p, Issued(author, authUser))
  BY <1>1, BatchesEmpty, BatchesFilled DEF WireInv, OwnBatches
<1> HIDE DEF p
<1>3. OwnBatches'
  BY <1>1, <1>2 DEF WireInv, OwnBatches
<1>4. OwnStream'
  BY <1>1 DEF AfterStart, WireInv, OwnStream
<1>5. OwnLog'
  BY <1>1 DEF WireInv, OwnLog
<1> QED
  BY <1>3, <1>4, <1>5 DEF WireInv

LEMMA InitWire ==
    ASSUME Init
    PROVE  WireInv
<1>1. /\ queue = [u \in Owner |-> <<>>] /\ pipeline = <<>>
      /\ refused \subseteq Write /\ log = <<>>
      /\ stream = "Initial" /\ handshake = FALSE
      /\ requests = <<>> /\ responses = <<>>
  BY DEF Init
<1>2. OwnBatches
  BY <1>1, BatchesEmpty DEF OwnBatches
<1>3. OwnStream
  BY <1>1 DEF OwnStream
<1>4. OwnLog
  BY <1>1, EmptySeq DEF OwnLog
<1> QED
  BY <1>2, <1>3, <1>4 DEF WireInv

LEMMA WireStep ==
    ASSUME QueueInv, WireInv, [Next]_vars
    PROVE  WireInv'
<1>1. ASSUME NEW u \in Owner, UserChanges(u)
      PROVE  WireInv'
  BY <1>1, OtherWire DEF UserChanges, local
<1>2. ASSUME NEW r \in asked, TokenRead(r) \/ TokenComes(r)
      PROVE  WireInv'
  BY <1>2, OtherWire DEF TokenRead, TokenComes, local
<1>3. CASE MainQueue
  BY <1>3, OtherWire DEF MainQueue, local
<1>4. CASE SetDocument
  BY <1>4, SetDocumentWire
<1>5. CASE RunTask
  <2>1. CASE Head(tasks).op = "write" /\ WriteMutations(Head(tasks).write)
    BY <1>5, <2>1, WriteMutationsWire
  <2>2. CASE Head(tasks).op = "user" /\ HandleCredentialChange(Head(tasks).user)
    BY <1>5, <2>2, CredentialChangeWire
  <2>3. CASE /\ Head(tasks).op = "token"
             /\ ResumeStartWithCredentials(Head(tasks).user)
    BY <1>5, <2>3, ResumeStartWire
  <2>4. CASE Head(tasks).op = "void" /\ Dropped
    BY <1>5, <2>4, OtherWire DEF RunTask, Dropped, local
  <2> QED
    BY <1>5, <2>1, <2>2, <2>3, <2>4 DEF RunTask
<1>6. CASE TryRestarting
  <2>1. /\ stream = "Backoff" /\ stream' = "Starting"
        /\ UNCHANGED <<author, refused, log, user, queue, pipeline, handshake,
                       token, requests, responses>>
    BY <1>6 DEF TryRestarting, server, local
  <2> QED
    BY <2>1 DEF WireInv, OwnBatches, OwnStream, OwnLog
<1>7. CASE OnWriteStreamClose
  BY <1>7, ClosedWire DEF OnWriteStreamClose, local
<1>8. CASE IdleTimeout
  BY <1>8, ClosedWire DEF IdleTimeout, local
<1>9. CASE OnStreamRead
  BY <1>9, HandshakeCompleteWire, MutationResultWire, WriteRejectedWire
     DEF OnStreamRead
<1>10. CASE ServerHandles
  BY <1>10, ServerHandlesWire
<1>11. CASE Crash
  BY <1>11, CrashWire
<1>12. CASE UNCHANGED vars
  BY <1>12, OtherWire DEF vars, local
<1> QED
  BY <1>1, <1>2, <1>3, <1>4, <1>5, <1>6, <1>7, <1>8, <1>9, <1>10, <1>11, <1>12
     DEF Next

-----------------------------------------------------------------------------

LEMMA WireOwnersToken ==
    ASSUME QueueInv, WireInv
    PROVE  OwnersToken
<1>1. DOMAIN log = 1 .. Len(log)
  BY LenProperties DEF WireInv, OwnLog
<1> QED
  BY <1>1 DEF WireInv, OwnLog, Issued, OwnersToken

\* A write reaches the server under the token of the user who issued it, in
\* whatever order the queue of FIRAuth, the main queue and the worker queue of
\* Firestore run (RemoteStore::HandleCredentialChange and the token counter of
\* FirebaseAuthCredentialsProvider), and over every broken stream and restart.
THEOREM OwnersTokenCorrect == Spec => []OwnersToken
<1>1. Init => QueueInv /\ WireInv
  BY InitQueues, InitWire
<1>2. QueueInv /\ WireInv /\ [Next]_vars => (QueueInv /\ WireInv)'
  BY QueueStep, WireStep
<1>3. QueueInv /\ WireInv => OwnersToken
  BY WireOwnersToken
<1> QED
  BY <1>1, <1>2, <1>3, PTL DEF Spec

-----------------------------------------------------------------------------
(* The invariant of what is delivered, and the front of a queue. *)

Batch == [id : Nat, write : Nat]

\* s is a queue: ids and writes ascend.
Ascending(s) ==
    /\ s \in Seq(Batch)
    /\ \A i, j \in 1 .. Len(s) :
        i < j => s[i].id < s[j].id /\ s[i].write < s[j].write

\* What the pipeline takes of the queue s.
Window(s) == SubSeq(s, 1, Smaller(kMaxPendingWrites, Len(s)))

\* The server has applied the write w.
Applied(w) == \E i \in 1 .. Len(log) : log[i].write = w

\* w comes before every write in the worker queue s.
Precedes(w, s) == \A i \in 1 .. Len(s) : s[i].op = "write" => w < s[i].write

\* A stream is on its way for a pipeline, and one that starts has its token under
\* way.
StreamFits ==
    /\ stream \in {"Initial", "Starting", "Open", "Backoff", "Error"}
    /\ pipeline # <<>> => stream \in {"Starting", "Open", "Backoff"}
    /\ idle \in BOOLEAN
    /\ idle => handshake /\ pipeline = <<>>
    /\ stream = "Starting" => asked # {} \/ HasToken(main) \/ HasToken(tasks)

\* Every queue ascends up to the next id, and the pipeline is the front of the
\* user's.
QueuesAscend ==
    /\ nextId \in Nat
    /\ \A u \in Owner :
        /\ Ascending(queue[u])
        /\ \A i \in 1 .. Len(queue[u]) : queue[u][i].id < nextId
    /\ pipeline = Window(queue[user])

\* The callbacks are those of batches that are queued: of all of them, unless the
\* application was killed.
CallbacksWait ==
    /\ bounds \in [switches : Nat, faults : Nat, crashes : Nat]
    /\ DOMAIN callbacks = Owner
    /\ \A u \in Owner :
        /\ callbacks[u] \subseteq ToSet(queue[u])
        /\ bounds.crashes = 0 => ToSet(queue[u]) \subseteq callbacks[u]

\* The writes in the worker queue s ascend.
WritesAscend(s) ==
    \A i, j \in 1 .. Len(s) :
        i < j /\ s[i].op = "write" /\ s[j].op = "write"
            => s[i].write < s[j].write

\* The writes in the worker queue ascend, past all that is queued or applied.
TasksFollow ==
    /\ WritesAscend(tasks)
    /\ \A u \in Owner : \A i \in 1 .. Len(queue[u]) :
        Precedes(queue[u][i].write, tasks)
    /\ \A i \in 1 .. Len(log) : Precedes(log[i].write, tasks)

\* What the server has applied for u comes before the writes of its queue s, but
\* for those that have reached it as well.
Behind(s, u) ==
    \A i \in 1 .. Len(log) : log[i].token = u =>
        \A k \in 1 .. Len(s) : log[i].write < s[k].write \/ Applied(s[k].write)

\* The writes of a user were applied in their order, and his queue goes on from
\* there.
LogAscends ==
    /\ \A i, j \in 1 .. Len(log) :
        i < j /\ log[i].token = log[j].token => log[i].write < log[j].write
    /\ \A u \in Owner : Behind(queue[u], u)

\* Once the handshake is complete, the answers under way are about the front of
\* the pipeline, one after the other, and the requests about the rest of it.
AnswersFit ==
    handshake =>
        /\ \A k \in 1 .. Len(responses) :
            /\ responses[k] = "result" => Applied(pipeline[k].write)
            /\ responses[k] = "error" => pipeline[k].write \in refused
        /\ ~Contains(responses, "error") =>
            /\ Len(responses) + Len(requests) = Len(pipeline)
            /\ \A k \in 1 .. Len(requests) :
                requests[k] = pipeline[Len(responses) + k].write

DeliveryInv ==
    /\ QueuesAscend
    /\ CallbacksWait
    /\ TasksFollow
    /\ LogAscends
    /\ AnswersFit
    /\ HonestOutcomes

-----------------------------------------------------------------------------

LEMMA SmallerIs ==
    ASSUME NEW a \in Int, NEW b \in Int
    PROVE  /\ Smaller(a, b) \in Int /\ Smaller(a, b) <= a /\ Smaller(a, b) <= b
           /\ Smaller(a, b) = a \/ Smaller(a, b) = b
BY DEF Smaller

LEMMA WindowIs ==
    ASSUME NEW s, Ascending(s)
    PROVE  /\ s \in Seq(Batch) /\ Len(s) \in Nat
           /\ Window(s) \in Seq(Batch)
           /\ Len(Window(s)) = Smaller(kMaxPendingWrites, Len(s))
           /\ Len(Window(s)) \in 0 .. Len(s)
           /\ Len(Window(s)) <= kMaxPendingWrites
           /\ \A i \in 1 .. Len(Window(s)) : Window(s)[i] = s[i]
           /\ s # <<>> => Window(s) # <<>>
<1> DEFINE m == Smaller(kMaxPendingWrites, Len(s))
<1>1. s \in Seq(Batch) /\ Len(s) \in Nat
  BY LenProperties DEF Ascending
<1>2. /\ m \in 0 .. Len(s) /\ m <= kMaxPendingWrites
      /\ Len(s) # 0 => m # 0
  BY <1>1, FirestoreWritesAssumption DEF Smaller
<1>3. Window(s) = SubSeq(s, 1, m)
  BY DEF Window
<1>4. m = Smaller(kMaxPendingWrites, Len(s))
  OBVIOUS
<1> HIDE DEF m
<1>5. /\ SubSeq(s, 1, m) \in Seq(Batch)
      /\ Len(SubSeq(s, 1, m)) = m
      /\ \A i \in 1 .. m : SubSeq(s, 1, m)[i] = s[i]
  BY <1>1, <1>2
<1>6. s # <<>> => Len(s) # 0
  BY <1>1, EmptySeq
<1>7. Window(s) # <<>> <=> m # 0
  BY <1>3, <1>5, EmptySeq
<1> QED
  BY <1>1, <1>2, <1>3, <1>4, <1>5, <1>6, <1>7

LEMMA AscendingAppend ==
    ASSUME NEW s, Ascending(s), NEW b \in Batch,
           \A i \in 1 .. Len(s) : s[i].id < b.id /\ s[i].write < b.write
    PROVE  Ascending(Append(s, b))
<1>1. s \in Seq(Batch) /\ Len(s) \in Nat
  BY LenProperties DEF Ascending
<1> DEFINE t == Append(s, b)
<1>2. /\ t \in Seq(Batch) /\ Len(t) = Len(s) + 1
      /\ \A i \in 1 .. Len(s) : t[i] = s[i]
      /\ t[Len(s) + 1] = b
  BY <1>1, AppendProperties
<1> HIDE DEF t
<1>3. \A i, j \in 1 .. Len(t) :
        i < j => t[i].id < t[j].id /\ t[i].write < t[j].write
  <2> SUFFICES ASSUME NEW i \in 1 .. Len(t), NEW j \in 1 .. Len(t), i < j
               PROVE  t[i].id < t[j].id /\ t[i].write < t[j].write
    OBVIOUS
  <2>1. i \in 1 .. Len(s) /\ t[i] = s[i]
    BY <1>1, <1>2
  <2>2. CASE j = Len(s) + 1
    BY <1>2, <2>1, <2>2
  <2>3. CASE j # Len(s) + 1
    <3>1. j \in 1 .. Len(s) /\ t[j] = s[j]
      BY <1>1, <1>2, <2>3
    <3> QED
      BY <2>1, <3>1 DEF Ascending
  <2> QED
    BY <2>2, <2>3
<1> QED
  BY <1>2, <1>3 DEF Ascending, t

LEMMA AscendingTail ==
    ASSUME NEW s, Ascending(s), s # <<>>
    PROVE  /\ Ascending(Tail(s))
           /\ s \in Seq(Batch) /\ Len(s) \in Nat /\ Len(s) >= 1
           /\ Len(Tail(s)) = Len(s) - 1
           /\ \A i \in 1 .. Len(s) - 1 : Tail(s)[i] = s[i + 1]
<1>1. s \in Seq(Batch) /\ Len(s) \in Nat /\ Len(s) >= 1
  BY LenProperties, EmptySeq DEF Ascending
<1>2. /\ Tail(s) \in Seq(Batch) /\ Len(Tail(s)) = Len(s) - 1
      /\ \A i \in 1 .. Len(s) - 1 : Tail(s)[i] = s[i + 1]
  BY <1>1, HeadTailProperties
<1>3. \A i, j \in 1 .. Len(Tail(s)) : i < j =>
        Tail(s)[i].id < Tail(s)[j].id /\ Tail(s)[i].write < Tail(s)[j].write
  <2> SUFFICES ASSUME NEW i \in 1 .. Len(s) - 1, NEW j \in 1 .. Len(s) - 1, i < j
               PROVE  /\ Tail(s)[i].id < Tail(s)[j].id
                      /\ Tail(s)[i].write < Tail(s)[j].write
    BY <1>2
  <2>1. i + 1 \in 1 .. Len(s) /\ j + 1 \in 1 .. Len(s) /\ i + 1 < j + 1
    BY <1>1
  <2>2. /\ s[i + 1].id < s[j + 1].id /\ s[i + 1].write < s[j + 1].write
    BY <2>1 DEF Ascending
  <2> QED
    BY <1>2, <2>2
<1> QED
  BY <1>1, <1>2, <1>3 DEF Ascending

\* The batches that come before the m-th and the m-th.
LEMMA BeforeIs ==
    ASSUME NEW s, Ascending(s), NEW m \in 0 .. Len(s), NEW id \in Nat,
           \A i \in 1 .. Len(s) : s[i].id < id <=> i <= m
    PROVE  Before(s, id) = m
<1>1. Len(s) \in Nat /\ DOMAIN s = 1 .. Len(s)
  BY LenProperties DEF Ascending
<1>2. {i \in DOMAIN s : s[i].id < id} = 1 .. m
  BY <1>1
<1>3. Cardinality(1 .. m) = m
  <2>1. Cardinality(1 .. m) = IF 1 > m THEN 0 ELSE m - 1 + 1
    <3>1. 1 \in Int /\ m \in Int
      BY <1>1
    <3> QED
      BY <3>1, FS_Interval
  <2> QED
    BY <1>1, <2>1
<1> QED
  BY <1>2, <1>3, Zenon DEF Before

\* Ids tell the order of batches.
LEMMA IdsAscend ==
    ASSUME NEW s, Ascending(s), NEW i \in 1 .. Len(s), NEW j \in 1 .. Len(s)
    PROVE  /\ s[i] \in Batch /\ s[i].id \in Nat /\ s[i].write \in Nat
           /\ s[i].id < s[j].id <=> i < j
           /\ s[i].id = s[j].id => i = j
           /\ s[i].write < s[j].write <=> i < j
<1>1. Len(s) \in Nat /\ s[i] \in Batch /\ s[j] \in Batch
  BY ElementOfSeq, LenProperties DEF Ascending
<1>2. /\ s[i].id \in Nat /\ s[j].id \in Nat
      /\ s[i].write \in Nat /\ s[j].write \in Nat
  BY <1>1 DEF Batch
<1>3. i < j \/ j < i \/ i = j
  BY <1>1
<1>4. /\ i < j => s[i].id < s[j].id /\ s[i].write < s[j].write
      /\ j < i => s[j].id < s[i].id /\ s[j].write < s[i].write
  BY DEF Ascending
<1> QED
  BY <1>1, <1>2, <1>3, <1>4

\* The front of a queue is taken out of it by its id.
LEMMA FrontRemoved ==
    ASSUME NEW s, Ascending(s), s # <<>>
    PROVE  RemoveAt(s, 1 + Before(s, s[1].id)) = Tail(s)
<1>1. /\ s \in Seq(Batch) /\ Len(s) \in Nat /\ Len(s) >= 1
      /\ Tail(s) \in Seq(Batch) /\ Len(Tail(s)) = Len(s) - 1
      /\ \A i \in 1 .. Len(s) - 1 : Tail(s)[i] = s[i + 1]
  BY AscendingTail DEF Ascending
<1>2. \A i \in 1 .. Len(s) : s[i].id < s[1].id <=> i <= 0
  <2> SUFFICES ASSUME NEW i \in 1 .. Len(s)
               PROVE  s[i].id < s[1].id <=> i <= 0
    OBVIOUS
  <2>1. s[i].id < s[1].id <=> i < 1
    BY <1>1, IdsAscend
  <2> QED
    BY <2>1
<1>3. Before(s, s[1].id) = 0
  <2>1. 0 \in 0 .. Len(s) /\ s[1].id \in Nat
    BY <1>1, IdsAscend
  <2> QED
    BY <1>2, <2>1, BeforeIs
<1>4. RemoveAt(s, 1) = SubSeq(s, 1, 0) \o SubSeq(s, 2, Len(s))
  BY DEF RemoveAt
<1>5. SubSeq(s, 1, 0) = <<>>
  BY <1>1
<1>6. SubSeq(s, 2, Len(s)) = Tail(s)
  <2> DEFINE t == SubSeq(s, 2, Len(s))
  <2>1. /\ t \in Seq(Batch) /\ Len(t) = Len(s) - 1
        /\ \A i \in 1 .. Len(s) - 1 : t[i] = s[i + 1]
    BY <1>1, SubSeqProperties
  <2> HIDE DEF t
  <2>2. t = Tail(s)
    BY <1>1, <2>1, SeqEqual
  <2> QED
    BY <2>2 DEF t
<1>7. <<>> \o Tail(s) = Tail(s)
  BY <1>1, ConcatEmptySeq
<1>8. 1 + Before(s, s[1].id) = 1
  BY <1>3
<1> QED
  BY <1>4, <1>5, <1>6, <1>7, <1>8

\* FillWritePipeline makes the pipeline the front of the queue again.
LEMMA FilledIsWindow ==
    ASSUME NEW s, Ascending(s), NEW p, p \in Seq(Batch), Len(p) <= Len(s),
           Len(p) <= kMaxPendingWrites, \A i \in 1 .. Len(p) : p[i] = s[i]
    PROVE  Filled(p, s) = Window(s)
<1> DEFINE m == Len(p)
           M == Smaller(kMaxPendingWrites, Len(s))
           n == IF p = <<>> THEN 0 ELSE Before(s, Last(p).id + 1)
           r == SubSeq(s, m + 1, M)
<1>1. /\ s \in Seq(Batch) /\ Len(s) \in Nat /\ m \in 0 .. Len(s)
      /\ kMaxPendingWrites \in Nat
      /\ Window(s) \in Seq(Batch) /\ Len(Window(s)) = M
      /\ \A i \in 1 .. Len(Window(s)) : Window(s)[i] = s[i]
  BY WindowIs, LenProperties, FirestoreWritesAssumption
<1>2. /\ M \in Nat /\ m <= M /\ M <= Len(s)
      /\ m + Smaller(kMaxPendingWrites - m, Len(s) - m) = M
  BY <1>1 DEF Smaller
<1>3. n = m
  <2>1. CASE p = <<>>
    BY <2>1
  <2>2. CASE p # <<>>
    <3>1. m \in 1 .. Len(s)
      BY <1>1, <2>2, EmptySeq
    <3>2. Last(p) = s[m] /\ s[m].id \in Nat
      BY <3>1, IdsAscend DEF Last
    <3>3. \A i \in 1 .. Len(s) : s[i].id < s[m].id + 1 <=> i <= m
      <4> SUFFICES ASSUME NEW i \in 1 .. Len(s)
                   PROVE  s[i].id < s[m].id + 1 <=> i <= m
        OBVIOUS
      <4>1. /\ s[i].id \in Nat
            /\ s[m].id < s[i].id <=> m < i
        BY <3>1, IdsAscend
      <4> QED
        BY <1>1, <3>1, <3>2, <4>1
    <3>4. Before(s, s[m].id + 1) = m
      <4>1. s[m].id + 1 \in Nat
        BY <3>2
      <4> QED
        BY <1>1, <3>3, <4>1, BeforeIs
    <3> QED
      BY <2>2, <3>2, <3>4
  <2> QED
    BY <2>1, <2>2
<1>4. Filled(p, s) = p \o SubSeq(s, n + 1, n + Smaller(kMaxPendingWrites - m, Len(s) - n))
  BY DEF Filled
<1>5. Filled(p, s) = p \o r
  BY <1>2, <1>3, <1>4, Zenon
<1>6. m = Len(p)
  OBVIOUS
<1> HIDE DEF n, M, m
<1>7. /\ r \in Seq(Batch) /\ Len(r) = M - m
      /\ \A i \in 1 .. M - m : r[i] = s[m + i]
  <2>1. \A i \in m + 1 .. M : s[i] \in Batch
    BY <1>1, <1>2, ElementOfSeq
  <2>2. m + 1 \in Int /\ M \in Int
    BY <1>1, <1>2
  <2>3. /\ r \in Seq(Batch)
        /\ Len(r) = IF m + 1 <= M THEN M - (m + 1) + 1 ELSE 0
        /\ \A i \in 1 .. M - (m + 1) + 1 : r[i] = s[m + 1 + i - 1]
    BY <2>1, <2>2, SubSeqProperties
  <2> QED
    BY <1>1, <1>2, <2>3
<1> HIDE DEF r
<1>8. /\ p \o r \in Seq(Batch) /\ Len(p \o r) = M
      /\ \A i \in 1 .. M : (p \o r)[i] = s[i]
  <2>1. /\ p \o r \in Seq(Batch) /\ Len(p \o r) = m + (M - m)
        /\ \A i \in 1 .. m + (M - m) :
            (p \o r)[i] = IF i <= m THEN p[i] ELSE r[i - m]
    BY <1>6, <1>7, ConcatProperties
  <2> QED
    BY <1>1, <1>2, <1>6, <1>7, <2>1
<1>9. p \o r = Window(s)
  <2> DEFINE t == p \o r
  <2>1. t \in Seq(Batch) /\ Len(t) = M /\ \A i \in 1 .. M : t[i] = Window(s)[i]
    BY <1>1, <1>2, <1>8
  <2> HIDE DEF t
  <2>2. t = Window(s)
    BY <1>1, <2>1, SeqEqual
  <2> QED
    BY <2>2 DEF t
<1> QED
  BY <1>5, <1>9

-----------------------------------------------------------------------------
(* A stream that has something to send is on its way. *)

LEMMA TokenKept ==
    ASSUME NEW S, NEW s \in Seq(S)
    PROVE  /\ \A e \in S : HasToken(s) => HasToken(Append(s, e))
           /\ \A e \in S : e.op = "token" => HasToken(Append(s, e))
           /\ s # <<>> /\ s[1].op # "token" /\ HasToken(s) => HasToken(Tail(s))
<1>1. Len(s) \in Nat
  BY LenProperties
<1>2. ASSUME NEW e \in S
      PROVE  /\ HasToken(s) => HasToken(Append(s, e))
             /\ e.op = "token" => HasToken(Append(s, e))
  <2>1. /\ Len(Append(s, e)) = Len(s) + 1
        /\ \A i \in 1 .. Len(s) : Append(s, e)[i] = s[i]
        /\ Append(s, e)[Len(s) + 1] = e
    BY AppendProperties
  <2> QED
    BY <1>1, <2>1 DEF HasToken
<1>3. ASSUME s # <<>>, s[1].op # "token", HasToken(s)
      PROVE  HasToken(Tail(s))
  <2>1. /\ Len(Tail(s)) = Len(s) - 1
        /\ \A i \in 1 .. Len(Tail(s)) : Tail(s)[i] = s[i + 1]
    BY <1>3, HeadTailProperties
  <2>2. PICK i \in 1 .. Len(s) : s[i].op = "token"
    BY <1>3 DEF HasToken
  <2>3. i - 1 \in 1 .. Len(Tail(s)) /\ Tail(s)[i - 1] = s[(i - 1) + 1]
    BY <1>1, <1>3, <2>1, <2>2
  <2>4. (i - 1) + 1 = i
    BY <2>2
  <2> QED
    BY <2>2, <2>3, <2>4 DEF HasToken
<1> QED
  BY <1>2, <1>3

\* A token is under way, somewhere.
Coming == asked # {} \/ HasToken(main) \/ HasToken(tasks)

\* Steps that only move the token.
LEMMA MovedFits ==
    ASSUME StreamFits, UNCHANGED <<stream, pipeline, idle, handshake>>,
           Coming => Coming'
    PROVE  StreamFits'
BY DEF StreamFits, Coming

LEMMA UserChangesFits ==
    ASSUME QueueInv, StreamFits, NEW u \in Owner, UserChanges(u)
    PROVE  StreamFits'
<1> DEFINE e == [op |-> "user", user |-> u]
<1>1. e \in Telling
  BY DEF Telling
<1> HIDE DEF e
<1>2. /\ main' = Append(main, e) /\ main \in Seq(Telling)
      /\ UNCHANGED <<asked, tasks, stream, pipeline, idle, handshake>>
  BY DEF UserChanges, QueueInv, QueueTypes, wire, e
<1>3. HasToken(main) => HasToken(main')
  BY <1>1, <1>2, TokenKept
<1> QED
  BY <1>2, <1>3, MovedFits DEF Coming

LEMMA TokenAskedFits ==
    ASSUME QueueInv, StreamFits, NEW r \in asked, TokenRead(r) \/ TokenComes(r)
    PROVE  StreamFits'
<1>1. CASE TokenRead(r)
  <2>1. /\ asked' # {}
        /\ UNCHANGED <<main, tasks, stream, pipeline, idle, handshake>>
    BY <1>1 DEF TokenRead, wire
  <2> QED
    BY <2>1, MovedFits DEF Coming
<1>2. CASE TokenComes(r)
  <2> DEFINE e == [op |-> "token", user |-> r.user, changed |-> r.changed]
  <2>1. e \in Telling /\ e.op = "token"
    BY DEF QueueInv, QueueTypes, Asking, Telling
  <2> HIDE DEF e
  <2>2. /\ main' = Append(main, e) /\ main \in Seq(Telling)
        /\ UNCHANGED <<stream, pipeline, idle, handshake>>
    BY <1>2 DEF TokenComes, QueueInv, QueueTypes, wire, e
  <2>3. HasToken(main')
    BY <2>1, <2>2, TokenKept
  <2> QED
    BY <2>2, <2>3, MovedFits DEF Coming
<1> QED
  BY <1>1, <1>2

LEMMA MainQueueFits ==
    ASSUME QueueInv, StreamFits, MainQueue
    PROVE  StreamFits'
<1>1. /\ main # <<>> /\ main \in Seq(Telling) /\ tasks \in Seq(Task)
      /\ Head(main) = main[1] /\ main[1] \in Telling
      /\ UNCHANGED <<stream, pipeline, idle, handshake>>
  BY LenProperties, ElementOfSeq, EmptySeq
     DEF MainQueue, QueueInv, QueueTypes, wire
<1>2. CASE Head(main).op = "user" /\ UserToldOn(Head(main).user)
  <2> DEFINE s == Tail(main)
             e == [op |-> "user", user |-> Head(main).user]
  <2>1. /\ main' = [i \in DOMAIN s |-> Changed(s[i])]
        /\ asked' = {[r EXCEPT !.changed = TRUE] : r \in asked}
        /\ tasks' = Append(tasks, e)
    BY <1>2 DEF UserToldOn
  <2>2. e \in Task
    BY <1>1, <1>2 DEF Telling, Task
  <2>3. /\ s \in Seq(Telling) /\ DOMAIN s = 1 .. Len(s) /\ Len(s) \in Nat
        /\ \A i \in 1 .. Len(s) : s[i] \in Telling
        /\ HasToken(main) => HasToken(s)
    <3>1. s \in Seq(Telling)
      BY <1>1, HeadTailProperties
    <3>2. HasToken(main) => HasToken(s)
      BY <1>1, <1>2, TokenKept
    <3> QED
      BY <3>1, <3>2, LenProperties, ElementOfSeq
  <2> HIDE DEF s, e
  <2>4. /\ Len(main') = Len(s)
        /\ \A i \in 1 .. Len(s) : main'[i].op = s[i].op
    BY <2>1, <2>3, ChangedType
  <2>5. HasToken(main) => HasToken(main')
    BY <2>3, <2>4 DEF HasToken
  <2>6. HasToken(tasks) => HasToken(tasks')
    BY <1>1, <2>1, <2>2, TokenKept
  <2>7. asked # {} => asked' # {}
    BY <2>1
  <2> QED
    BY <1>1, <2>5, <2>6, <2>7, MovedFits DEF Coming
<1>3. CASE Head(main).op = "token" /\ TokenToldOn(Head(main))
  <2> DEFINE e == [op |-> "token", user |-> Head(main).user]
  <2>1. e \in Task /\ e.op = "token"
    BY <1>1, <1>3 DEF Telling, Task
  <2>2. asked' = asked \cup {Request} \/ tasks' = Append(tasks, e)
    BY <1>3 DEF TokenToldOn
  <2> HIDE DEF e
  <2>3. asked' # {} \/ HasToken(tasks')
    BY <1>1, <2>1, <2>2, TokenKept
  <2> QED
    BY <1>1, <2>3, MovedFits DEF Coming
<1>4. CASE /\ Head(main).op = "void" /\ main' = Tail(main)
           /\ UNCHANGED <<asked, knownUser, tasks>>
  <2>1. HasToken(main) => HasToken(main')
    BY <1>1, <1>4, TokenKept
  <2> QED
    BY <1>1, <1>4, <2>1, MovedFits DEF Coming
<1> QED
  BY <1>2, <1>3, <1>4 DEF MainQueue

LEMMA SetDocumentFits ==
    ASSUME QueueInv, StreamFits, SetDocument
    PROVE  StreamFits'
<1> DEFINE e == [op |-> "write", write |-> Len(author')]
<1>1. author' \in Seq(Owner)
  BY AppendProperties DEF SetDocument, QueueInv, QueueTypes
<1>2. e \in Task
  BY <1>1, LenProperties DEF Task
<1>3. /\ tasks' = Append(tasks, e) /\ tasks \in Seq(Task)
      /\ UNCHANGED <<asked, main, stream, pipeline, idle, handshake>>
  BY DEF SetDocument, QueueInv, QueueTypes, auth, wire
<1> HIDE DEF e
<1>4. HasToken(tasks) => HasToken(tasks')
  BY <1>2, <1>3, TokenKept
<1> QED
  BY <1>3, <1>4, MovedFits DEF Coming

\* The stream starts with a pipeline, or is not started.
LEMMA StartedFits ==
    ASSUME NEW s \in {"Initial", "Error"}, NEW p, pipeline' = p,
           stream' = AfterStart(s, p), asked' = Requested(s, p), idle' = FALSE
    PROVE  StreamFits'
<1>1. CASE p = <<>>
  BY <1>1 DEF AfterStart, StreamFits
<1>2. CASE p # <<>> /\ s = "Initial"
  BY <1>2 DEF AfterStart, Requested, StreamFits
<1>3. CASE p # <<>> /\ s = "Error"
  BY <1>3 DEF AfterStart, StreamFits
<1> QED
  BY <1>1, <1>2, <1>3

LEMMA RestartedFits ==
    ASSUME NEW s \in {"Initial", "Error"}, NEW p, NEW queued,
           Restarted(s, p, queued)
    PROVE  StreamFits'
BY StartedFits DEF Restarted

LEMMA RunTaskFits ==
    ASSUME QueueInv, StreamFits, RunTask
    PROVE  StreamFits'
<1>1. /\ tasks # <<>> /\ tasks \in Seq(Task) /\ Head(tasks) = tasks[1]
  BY LenProperties, EmptySeq DEF RunTask, QueueInv, QueueTypes
<1>2. CASE Head(tasks).op = "write" /\ WriteMutations(Head(tasks).write)
  <2>1. PICK p : /\ pipeline' = p
                 /\ \/ handshake /\ p # pipeline /\ idle' = FALSE
                    \/ (~handshake \/ p = pipeline) /\ idle' = idle
                 /\ stream' = AfterStart(stream, p)
                 /\ asked' = asked \cup Requested(stream, p)
    BY <1>2 DEF WriteMutations
  <2>2. /\ main' = main /\ handshake' = handshake /\ tasks' = Tail(tasks)
    BY <1>2 DEF WriteMutations
  <2>3. HasToken(tasks) => HasToken(tasks')
    BY <1>1, <1>2, <2>2, TokenKept
  <2>4. /\ idle' \in BOOLEAN
        /\ idle' => handshake /\ p = <<>>
    <3>1. idle \in BOOLEAN /\ (idle => handshake /\ pipeline = <<>>)
      BY DEF StreamFits
    <3>2. CASE idle' = FALSE
      BY <3>2
    <3>3. CASE (~handshake \/ p = pipeline) /\ idle' = idle
      BY <3>1, <3>3, Zenon
    <3> QED
      BY <2>1, <3>2, <3>3
  <2>5. /\ stream' \in {"Initial", "Starting", "Open", "Backoff", "Error"}
        /\ p # <<>> => stream' \in {"Starting", "Open", "Backoff"}
    BY <2>1 DEF StreamFits, AfterStart
  <2>6. stream' = "Starting" => asked' # {} \/ stream = "Starting"
    BY <2>1 DEF AfterStart, Requested
  <2>7. stream' = "Starting" => Coming'
    BY <2>1, <2>2, <2>3, <2>6 DEF StreamFits, Coming
  <2> QED
    BY <2>1, <2>2, <2>4, <2>5, <2>7 DEF StreamFits, Coming
<1>3. CASE Head(tasks).op = "user" /\ HandleCredentialChange(Head(tasks).user)
  BY <1>3, RestartedFits DEF HandleCredentialChange
<1>4. CASE /\ Head(tasks).op = "token"
           /\ ResumeStartWithCredentials(Head(tasks).user)
  BY <1>4 DEF ResumeStartWithCredentials, StreamFits
<1>5. CASE Head(tasks).op = "void" /\ Dropped
  <2>1. HasToken(tasks) => HasToken(tasks')
    BY <1>1, <1>5, TokenKept DEF Dropped
  <2>2. UNCHANGED <<asked, main, stream, pipeline, idle, handshake>>
    BY <1>5 DEF Dropped, wire
  <2> QED
    BY <2>1, <2>2, MovedFits DEF Coming
<1> QED
  BY <1>2, <1>3, <1>4, <1>5 DEF RunTask

LEMMA OnStreamReadFits ==
    ASSUME QueueInv, WireInv, StreamFits, OnStreamRead
    PROVE  StreamFits'
<1>1. CASE OnHandshakeComplete
  <2>1. /\ idle' = FALSE
        /\ UNCHANGED <<asked, main, tasks, pipeline, stream>>
    BY <1>1 DEF OnHandshakeComplete
  <2> QED
    BY <2>1 DEF StreamFits
<1>2. CASE Head(responses) = "result" /\ OnMutationResult
  <2>1. handshake /\ stream = "Open"
    BY <1>2, ReadsAnAnswer DEF OnStreamRead
  <2>2. /\ idle' = (pipeline' = <<>>)
        /\ UNCHANGED <<asked, main, tasks, stream, handshake>>
    BY <1>2 DEF OnMutationResult
  <2> QED
    BY <2>1, <2>2 DEF StreamFits
<1>3. CASE OnWriteRejected
  BY <1>3, RestartedFits DEF OnWriteRejected
<1> QED
  BY <1>1, <1>2, <1>3 DEF OnStreamRead

LEMMA FitsStep ==
    ASSUME QueueInv, WireInv, StreamFits, [Next]_vars
    PROVE  StreamFits'
<1>1. CASE TryRestarting
  <2>1. /\ stream' = "Starting" /\ asked' # {}
        /\ UNCHANGED <<pipeline, idle, handshake>>
    BY <1>1 DEF TryRestarting
  <2> QED
    BY <2>1 DEF StreamFits
<1>2. CASE OnWriteStreamClose \/ IdleTimeout
  BY <1>2, RestartedFits DEF OnWriteStreamClose, IdleTimeout
<1>3. CASE ServerHandles
  <2>1. UNCHANGED <<asked, main, tasks, stream, pipeline, idle, handshake>>
    BY <1>3 DEF ServerHandles, auth
  <2> QED
    BY <2>1, MovedFits DEF Coming
<1>4. CASE Crash
  BY <1>4, StartedFits DEF Crash
<1>5. CASE UNCHANGED vars
  <2>1. UNCHANGED <<asked, main, tasks, stream, pipeline, idle, handshake>>
    BY <1>5 DEF vars, auth, wire
  <2> QED
    BY <2>1, MovedFits DEF Coming
<1> QED
  BY <1>1, <1>2, <1>3, <1>4, <1>5, UserChangesFits, TokenAskedFits,
     MainQueueFits, SetDocumentFits, RunTaskFits, OnStreamReadFits DEF Next

-----------------------------------------------------------------------------
(* Steps that touch no batch. *)

\* t is the worker queue s without some of its writes.
Thinner(s, t) ==
    /\ WritesAscend(s) => WritesAscend(t)
    /\ \A w \in Nat : Precedes(w, s) => Precedes(w, t)

LEMMA ThinnerAppend ==
    ASSUME NEW S, NEW s \in Seq(S), NEW e \in S, e.op # "write"
    PROVE  Thinner(s, Append(s, e))
<1>1. /\ Len(s) \in Nat /\ Len(Append(s, e)) = Len(s) + 1
      /\ \A i \in 1 .. Len(s) : Append(s, e)[i] = s[i]
      /\ Append(s, e)[Len(s) + 1] = e
  BY AppendProperties, LenProperties
<1>2. \A i \in 1 .. Len(Append(s, e)) : Append(s, e)[i].op = "write" =>
        i \in 1 .. Len(s) /\ Append(s, e)[i] = s[i]
  BY <1>1
<1> QED
  BY <1>2 DEF Thinner, WritesAscend, Precedes

LEMMA ThinnerTail ==
    ASSUME NEW S, NEW s \in Seq(S), s # <<>>
    PROVE  Thinner(s, Tail(s))
<1>1. /\ Len(s) \in Nat /\ Len(Tail(s)) = Len(s) - 1
      /\ \A i \in 1 .. Len(Tail(s)) : Tail(s)[i] = s[i + 1]
  BY HeadTailProperties, LenProperties
<1> DEFINE t == Tail(s)
<1>2. \A i \in 1 .. Len(t) : i + 1 \in 1 .. Len(s) /\ t[i] = s[i + 1]
  BY <1>1
<1> HIDE DEF t
<1>3. WritesAscend(s) => WritesAscend(t)
  <2> SUFFICES ASSUME WritesAscend(s),
                      NEW i \in 1 .. Len(t), NEW j \in 1 .. Len(t), i < j,
                      t[i].op = "write", t[j].op = "write"
               PROVE  t[i].write < t[j].write
    BY DEF WritesAscend
  <2>1. i + 1 \in 1 .. Len(s) /\ j + 1 \in 1 .. Len(s) /\ i + 1 < j + 1
    BY <1>2
  <2> QED
    BY <1>2, <2>1 DEF WritesAscend
<1>4. \A w \in Nat : Precedes(w, s) => Precedes(w, t)
  BY <1>2 DEF Precedes
<1> QED
  BY <1>3, <1>4 DEF Thinner, t

LEMMA ThinnerVoid ==
    ASSUME NEW S, NEW s \in Seq(S)
    PROVE  Thinner(s, [i \in DOMAIN s |-> Void(s[i])])
<1> DEFINE t == [i \in DOMAIN s |-> Void(s[i])]
<1>1. /\ Len(s) \in Nat /\ DOMAIN s = 1 .. Len(s)
      /\ Len(t) = Len(s)
      /\ \A i \in 1 .. Len(s) : t[i] = Void(s[i])
  BY LenProperties
<1>2. \A i \in 1 .. Len(s) :
        t[i] = IF s[i].op = "token" THEN [op |-> "void"] ELSE s[i]
  BY <1>1 DEF Void
<1> HIDE DEF t
<1>3. \A i \in 1 .. Len(t) : t[i].op = "write" => t[i] = s[i]
  BY <1>1, <1>2
<1>4. Thinner(s, t)
  BY <1>1, <1>3 DEF Thinner, WritesAscend, Precedes
<1> QED
  BY <1>4 DEF t

LEMMA ThinnerTwice ==
    ASSUME NEW r, NEW s, NEW t, Thinner(r, s), Thinner(s, t)
    PROVE  Thinner(r, t)
BY DEF Thinner

\* Every step but that of a new write takes tasks from the worker queue, adds
\* others or makes some void.
LEMMA TasksThin ==
    ASSUME QueueInv, [Next]_vars, ~SetDocument
    PROVE  Thinner(tasks, tasks')
<1>1. CASE tasks' = tasks
  BY <1>1 DEF Thinner
<1>2. tasks \in Seq(Task)
  BY DEF QueueInv, QueueTypes
<1>3. ASSUME NEW s, NEW p, Restarted(s, p, tasks)
      PROVE  Thinner(tasks, tasks')
  BY <1>2, <1>3, ThinnerVoid DEF Restarted
<1>4. CASE MainQueue
  <2>1. CASE Head(main).op = "user" /\ UserToldOn(Head(main).user)
    <3> DEFINE e == [op |-> "user", user |-> Head(main).user]
    <3>1. /\ main # <<>> /\ main \in Seq(Telling)
          /\ Head(main) = main[1] /\ main[1] \in Telling
      BY <1>4, LenProperties, ElementOfSeq, EmptySeq
         DEF MainQueue, QueueInv, QueueTypes
    <3>2. e \in Task /\ e.op # "write" /\ tasks' = Append(tasks, e)
      BY <2>1, <3>1 DEF UserToldOn, Telling, Task
    <3> HIDE DEF e
    <3> QED
      BY <1>2, <3>2, ThinnerAppend
  <2>2. CASE Head(main).op = "token" /\ TokenToldOn(Head(main))
    <3> DEFINE e == [op |-> "token", user |-> Head(main).user]
    <3>1. /\ main # <<>> /\ main \in Seq(Telling)
          /\ Head(main) = main[1] /\ main[1] \in Telling
      BY <1>4, LenProperties, ElementOfSeq, EmptySeq
         DEF MainQueue, QueueInv, QueueTypes
    <3>2. e \in Task /\ e.op # "write"
      BY <2>2, <3>1 DEF Telling, Task
    <3>3. tasks' = tasks \/ tasks' = Append(tasks, e)
      BY <2>2 DEF TokenToldOn
    <3> HIDE DEF e
    <3> QED
      BY <1>1, <1>2, <3>2, <3>3, ThinnerAppend
  <2>3. CASE Head(main).op = "void" /\ UNCHANGED <<asked, knownUser, tasks>>
    BY <1>1, <2>3
  <2> QED
    BY <1>4, <2>1, <2>2, <2>3 DEF MainQueue
<1>5. CASE RunTask
  <2>1. Tail(tasks) \in Seq(Task) /\ Thinner(tasks, Tail(tasks))
    BY <1>2, <1>5, HeadTailProperties, ThinnerTail DEF RunTask
  <2>2. CASE tasks' = Tail(tasks)
    BY <2>1, <2>2
  <2>3. CASE HandleCredentialChange(Head(tasks).user)
    <3>1. tasks' = [i \in DOMAIN Tail(tasks) |-> Void(Tail(tasks)[i])]
      BY <2>3 DEF HandleCredentialChange, Restarted
    <3>2. Thinner(Tail(tasks), tasks')
      BY <2>1, <3>1, ThinnerVoid
    <3> QED
      BY <2>1, <3>2, ThinnerTwice
  <2> QED
    BY <1>5, <2>2, <2>3
       DEF RunTask, WriteMutations, ResumeStartWithCredentials, Dropped
<1>6. CASE OnWriteStreamClose \/ IdleTimeout
  BY <1>3, <1>6 DEF OnWriteStreamClose, IdleTimeout
<1>7. CASE OnStreamRead
  BY <1>1, <1>3, <1>7
     DEF OnStreamRead, OnHandshakeComplete, OnMutationResult, OnWriteRejected
<1>8. CASE Crash
  <2>1. tasks' = <<>> /\ Len(<<>>) = 0
    BY <1>8 DEF Crash
  <2> QED
    BY <2>1 DEF Thinner, WritesAscend, Precedes
<1>9. ASSUME NEW u \in Owner, UserChanges(u)
      PROVE  tasks' = tasks
  BY <1>9 DEF UserChanges
<1>10. ASSUME NEW r \in asked, TokenRead(r) \/ TokenComes(r)
       PROVE  tasks' = tasks
  BY <1>10 DEF TokenRead, TokenComes
<1>11. CASE TryRestarting \/ ServerHandles \/ UNCHANGED vars
  BY <1>1, <1>11 DEF TryRestarting, ServerHandles, vars
<1> QED
  BY <1>1, <1>4, <1>5, <1>6, <1>7, <1>8, <1>9, <1>10, <1>11 DEF Next

-----------------------------------------------------------------------------

\* Steps that touch no write: the stream may close or stay as it is.
Untouched ==
    /\ UNCHANGED <<queue, nextId, callbacks, user, pipeline, refused, log,
                   outcome>>
    /\ bounds' \in [switches : Nat, faults : Nat, crashes : Nat]
    /\ bounds'.crashes = bounds.crashes
    /\ Thinner(tasks, tasks')
    /\ handshake' => handshake /\ UNCHANGED <<requests, responses>>

LEMMA WritesAreNumbers ==
    ASSUME WireInv, QueuesAscend
    PROVE  /\ \A u \in Owner : \A i \in 1 .. Len(queue[u]) :
                /\ queue[u][i] \in Batch
                /\ queue[u][i].id \in Nat /\ queue[u][i].write \in Nat
           /\ \A i \in 1 .. Len(log) :
                /\ log[i] \in [write : Nat, token : Owner]
                /\ log[i].write \in Nat /\ log[i].token \in Owner
           /\ Len(log) \in Nat /\ DOMAIN log = 1 .. Len(log)
<1>1. \A u \in Owner : \A i \in 1 .. Len(queue[u]) :
        /\ queue[u][i] \in Batch
        /\ queue[u][i].id \in Nat /\ queue[u][i].write \in Nat
  BY IdsAscend DEF QueuesAscend
<1>2. /\ Len(log) \in Nat /\ DOMAIN log = 1 .. Len(log)
      /\ \A i \in 1 .. Len(log) : log[i] \in [write : Nat, token : Owner]
  BY LenProperties, ElementOfSeq DEF WireInv, OwnLog
<1> QED
  BY <1>1, <1>2

LEMMA FollowKept ==
    ASSUME WireInv, QueuesAscend, TasksFollow, Thinner(tasks, tasks'),
           UNCHANGED log,
           \A u \in Owner : \A i \in 1 .. Len(queue'[u]) :
                \/ Precedes(queue'[u][i].write, tasks')
                \/ \E j \in 1 .. Len(queue[u]) : queue'[u][i] = queue[u][j]
    PROVE  TasksFollow'
<1>1. WritesAscend(tasks')
  BY DEF TasksFollow, Thinner
<1>2. \A u \in Owner : \A i \in 1 .. Len(queue[u]) :
        Precedes(queue[u][i].write, tasks')
  BY WritesAreNumbers DEF TasksFollow, Thinner
<1>3. \A i \in 1 .. Len(log) : Precedes(log[i].write, tasks')
  BY WritesAreNumbers DEF TasksFollow, Thinner
<1>4. \A u \in Owner : \A i \in 1 .. Len(queue'[u]) :
        Precedes(queue'[u][i].write, tasks')
  BY <1>2
<1> QED
  BY <1>1, <1>3, <1>4 DEF TasksFollow

LEMMA UntouchedKeeps ==
    ASSUME WireInv, DeliveryInv, Untouched
    PROVE  DeliveryInv'
<1>1. QueuesAscend'
  BY DEF DeliveryInv, Untouched, QueuesAscend
<1>2. CallbacksWait'
  BY DEF DeliveryInv, Untouched, CallbacksWait
<1>3. TasksFollow'
  BY FollowKept DEF DeliveryInv, Untouched
<1>4. LogAscends'
  <2>1. LogAscends /\ log' = log /\ queue' = queue
    BY DEF DeliveryInv, Untouched
  <2> QED
    BY <2>1 DEF LogAscends, Behind, Applied
<1>5. AnswersFit'
  BY DEF DeliveryInv, Untouched, AnswersFit, Applied
<1>6. HonestOutcomes'
  BY DEF DeliveryInv, Untouched, HonestOutcomes
<1> QED
  BY <1>1, <1>2, <1>3, <1>4, <1>5, <1>6 DEF DeliveryInv

LEMMA TokenMoves ==
    ASSUME NEW r \in asked, TokenRead(r) \/ TokenComes(r)
    PROVE  tasks' = tasks /\ UNCHANGED <<local, wire, server, outcome, bounds>>
<1>1. CASE TokenRead(r)
  BY <1>1 DEF TokenRead
<1>2. CASE TokenComes(r)
  BY <1>2 DEF TokenComes
<1> QED
  BY <1>1, <1>2

LEMMA OtherSteps ==
    ASSUME QueueInv, WireInv, DeliveryInv, [Next]_vars,
           \/ \E u \in Owner : UserChanges(u)
           \/ \E r \in asked : TokenRead(r) \/ TokenComes(r)
           \/ MainQueue \/ TryRestarting \/ OnWriteStreamClose \/ IdleTimeout
           \/ /\ RunTask /\ Head(tasks).op = "token"
              /\ ResumeStartWithCredentials(Head(tasks).user)
           \/ RunTask /\ Head(tasks).op = "void" /\ Dropped
           \/ UNCHANGED vars
    PROVE  DeliveryInv'
<1>1. bounds \in [switches : Nat, faults : Nat, crashes : Nat]
  BY DEF DeliveryInv, CallbacksWait
<1>2. ASSUME /\ UNCHANGED <<queue, nextId, callbacks, user, pipeline, refused,
                            log, outcome, bounds>>
             /\ handshake' => handshake /\ UNCHANGED <<requests, responses>>
             /\ ~SetDocument
      PROVE  DeliveryInv'
  BY <1>1, <1>2, TasksThin, UntouchedKeeps DEF Untouched
<1>3. ASSUME NEW u \in Owner, UserChanges(u)
      PROVE  DeliveryInv'
  <2>1. /\ bounds' \in [switches : Nat, faults : Nat, crashes : Nat]
        /\ bounds'.crashes = bounds.crashes
    BY <1>1, <1>3 DEF UserChanges
  <2>2. tasks' = tasks
    BY <1>3 DEF UserChanges
  <2>3. Thinner(tasks, tasks')
    BY <2>2 DEF Thinner
  <2> QED
    BY <1>3, <2>1, <2>3, UntouchedKeeps
       DEF Untouched, UserChanges, local, wire, server
<1>4. CASE OnWriteStreamClose
  <2>1. /\ bounds' \in [switches : Nat, faults : Nat, crashes : Nat]
        /\ bounds'.crashes = bounds.crashes
    BY <1>1, <1>4 DEF OnWriteStreamClose
  <2>2. Restarted("Error", pipeline, tasks) /\ tasks \in Seq(Task)
    BY <1>4 DEF OnWriteStreamClose, QueueInv, QueueTypes
  <2>3. Thinner(tasks, tasks') /\ pipeline' = pipeline /\ handshake' = FALSE
    BY <2>2, ThinnerVoid DEF Restarted
  <2> QED
    BY <1>4, <2>1, <2>3, UntouchedKeeps
       DEF Untouched, OnWriteStreamClose, local, server
<1>5. CASE IdleTimeout
  <2>1. Restarted("Initial", pipeline, tasks) /\ tasks \in Seq(Task)
    BY <1>5 DEF IdleTimeout, QueueInv, QueueTypes
  <2>2. Thinner(tasks, tasks') /\ pipeline' = pipeline /\ handshake' = FALSE
    BY <2>1, ThinnerVoid DEF Restarted
  <2> QED
    BY <1>1, <1>5, <2>2, UntouchedKeeps
       DEF Untouched, IdleTimeout, local, server
<1>6. CASE /\ RunTask /\ Head(tasks).op = "token"
           /\ ResumeStartWithCredentials(Head(tasks).user)
  <2>1. /\ tasks # <<>> /\ tasks \in Seq(Task)
        /\ Len(tasks) \in Nat /\ Len(tasks) >= 1 /\ Head(tasks) = tasks[1]
    BY <1>6, LenProperties, EmptySeq DEF RunTask, QueueInv, QueueTypes
  <2>2. HasToken(tasks)
    BY <1>6, <2>1 DEF HasToken
  <2>3. ~handshake
    BY <2>2 DEF QueueInv, TokenOnce, WireInv, OwnStream
  <2>4. Thinner(tasks, tasks')
    BY <1>6, <2>1, ThinnerTail DEF ResumeStartWithCredentials
  <2> QED
    BY <1>1, <1>6, <2>3, <2>4, UntouchedKeeps
       DEF Untouched, RunTask, ResumeStartWithCredentials, local, server
<1>7. CASE RunTask /\ Head(tasks).op = "void" /\ Dropped
  <2>1. tasks # <<>> /\ tasks \in Seq(Task)
    BY <1>7 DEF RunTask, QueueInv, QueueTypes
  <2>2. Thinner(tasks, tasks')
    BY <1>7, <2>1, ThinnerTail DEF Dropped
  <2> QED
    BY <1>1, <1>7, <2>2, UntouchedKeeps
       DEF Untouched, RunTask, Dropped, local, wire, server
<1>8. ASSUME NEW r \in asked, TokenRead(r) \/ TokenComes(r)
      PROVE  DeliveryInv'
  <2>1. tasks' = tasks /\ UNCHANGED <<local, wire, server, outcome, bounds>>
    BY <1>8, TokenMoves
  <2>2. Thinner(tasks, tasks')
    BY <2>1 DEF Thinner
  <2> QED
    BY <1>1, <2>1, <2>2, UntouchedKeeps DEF Untouched, local, wire, server
<1>9. CASE MainQueue
  <2>1. author' = author
    BY <1>9 DEF MainQueue
  <2>2. ~SetDocument
    <3>1. Append(author, knownUser) # author
      <4>1. Len(Append(author, knownUser)) = Len(author) + 1 /\ Len(author) \in Nat
        BY AppendProperties, LenProperties DEF QueueInv, QueueTypes
      <4> QED
        BY <4>1
    <3> QED
      BY <2>1, <3>1 DEF SetDocument
  <2> QED
    BY <1>2, <1>9, <2>2 DEF MainQueue, local, wire, server
<1>10. CASE TryRestarting \/ UNCHANGED vars
  <2>1. tasks' = tasks
    BY <1>10 DEF TryRestarting, vars
  <2>2. Thinner(tasks, tasks')
    BY <2>1 DEF Thinner
  <2> QED
    BY <1>1, <1>10, <2>2, UntouchedKeeps
       DEF Untouched, TryRestarting, vars, local, wire, server
<1> QED
  BY <1>3, <1>4, <1>5, <1>6, <1>7, <1>8, <1>9, <1>10

-----------------------------------------------------------------------------
(* New writes, other users and restarts. *)

\* The writes of queues and log have been issued.
LEMMA WritesIssued ==
    ASSUME QueueInv, WireInv, QueuesAscend
    PROVE  /\ Len(author) \in Nat
           /\ \A u \in Owner : \A i \in 1 .. Len(queue[u]) :
                queue[u][i].write \in Issued(author, u)
           /\ \A u \in Owner : \A i \in 1 .. Len(queue[u]) :
                queue[u][i].write \in 1 .. Len(author)
           /\ \A i \in 1 .. Len(log) : log[i].write \in 1 .. Len(author)
           /\ \A i \in 1 .. Len(tasks) : tasks[i].op = "write" =>
                tasks[i].write \in 1 .. Len(author)
<1>1. Len(author) \in Nat
  BY LenProperties DEF QueueInv, QueueTypes
<1>2. \A u \in Owner : \A i \in 1 .. Len(queue[u]) :
        queue[u][i].write \in Issued(author, u)
  BY DEF WireInv, OwnBatches, Batches
<1>3. \A i \in 1 .. Len(log) : log[i].write \in 1 .. Len(author)
  BY DEF WireInv, OwnLog, Issued
<1>4. \A i \in 1 .. Len(tasks) : tasks[i].op = "write" =>
        tasks[i].write \in 1 .. Len(author)
  BY DEF QueueInv, QueuesInOrder, InOrder
<1>5. \A u : Issued(author, u) \subseteq 1 .. Len(author)
  BY DEF Issued
<1> QED
  BY <1>1, <1>2, <1>3, <1>4, <1>5

LEMMA SetDocumentKeeps ==
    ASSUME QueueInv, WireInv, DeliveryInv, SetDocument
    PROVE  DeliveryInv'
<1> DEFINE n == Len(author')
           e == [op |-> "write", write |-> n]
<1>1. /\ author' = Append(author, knownUser) /\ author \in Seq(Owner)
      /\ tasks \in Seq(Task) /\ knownUser \in Owner
      /\ tasks' = Append(tasks, e)
  BY DEF SetDocument, QueueInv, QueueTypes
<1>2. n = Len(author) + 1 /\ Len(author) \in Nat
  BY <1>1, AppendProperties, LenProperties
<1>3. e.op = "write" /\ e.write = n /\ e \in Task
  BY <1>2 DEF Task
<1> HIDE DEF n, e
<1>4. /\ Len(tasks) \in Nat /\ Len(tasks') = Len(tasks) + 1
      /\ \A i \in 1 .. Len(tasks) : tasks'[i] = tasks[i]
      /\ tasks'[Len(tasks) + 1] = e
  BY <1>1, <1>3, AppendProperties, LenProperties
<1>5. /\ QueuesAscend /\ CallbacksWait /\ TasksFollow /\ LogAscends
      /\ AnswersFit /\ HonestOutcomes
      /\ UNCHANGED <<queue, nextId, callbacks, user, pipeline, refused, log,
                     outcome, bounds, handshake, requests, responses>>
  BY DEF DeliveryInv, SetDocument, server, local, wire
<1>6. /\ \A u \in Owner : \A i \in 1 .. Len(queue[u]) : queue[u][i].write < n
      /\ \A i \in 1 .. Len(log) : log[i].write < n
      /\ \A i \in 1 .. Len(tasks) : tasks[i].op = "write" => tasks[i].write < n
  BY <1>2, <1>5, WritesIssued
<1>7. WritesAscend(tasks')
  <2> SUFFICES ASSUME NEW i \in 1 .. Len(tasks'), NEW j \in 1 .. Len(tasks'),
                      i < j, tasks'[i].op = "write", tasks'[j].op = "write"
               PROVE  tasks'[i].write < tasks'[j].write
    BY DEF WritesAscend
  <2>1. i \in 1 .. Len(tasks) /\ tasks'[i] = tasks[i]
    BY <1>4
  <2>2. CASE j = Len(tasks) + 1
    BY <1>3, <1>4, <1>6, <2>1, <2>2
  <2>3. CASE j # Len(tasks) + 1
    <3>1. j \in 1 .. Len(tasks) /\ tasks'[j] = tasks[j]
      BY <1>4, <2>3
    <3> QED
      BY <1>5, <2>1, <3>1 DEF TasksFollow, WritesAscend
  <2> QED
    BY <2>2, <2>3
<1>8. ASSUME NEW w, w < n, Precedes(w, tasks)
      PROVE  Precedes(w, tasks')
  <2> SUFFICES ASSUME NEW i \in 1 .. Len(tasks'), tasks'[i].op = "write"
               PROVE  w < tasks'[i].write
    BY DEF Precedes
  <2>1. CASE i = Len(tasks) + 1
    BY <1>3, <1>4, <1>8, <2>1
  <2>2. CASE i # Len(tasks) + 1
    <3>1. i \in 1 .. Len(tasks) /\ tasks'[i] = tasks[i]
      BY <1>4, <2>2
    <3> QED
      BY <1>8, <3>1 DEF Precedes
  <2> QED
    BY <2>1, <2>2
<1>9. TasksFollow'
  <2>1. \A u \in Owner : \A i \in 1 .. Len(queue[u]) :
          Precedes(queue[u][i].write, tasks')
    BY <1>5, <1>6, <1>8 DEF TasksFollow
  <2>2. \A i \in 1 .. Len(log) : Precedes(log[i].write, tasks')
    BY <1>5, <1>6, <1>8 DEF TasksFollow
  <2> QED
    BY <1>5, <1>7, <2>1, <2>2 DEF TasksFollow
<1>10. QueuesAscend' /\ CallbacksWait'
  BY <1>5 DEF QueuesAscend, CallbacksWait
<1>11. LogAscends'
  BY <1>5 DEF LogAscends, Behind, Applied
<1>12. AnswersFit' /\ HonestOutcomes'
  BY <1>5 DEF AnswersFit, HonestOutcomes, Applied
<1> QED
  BY <1>9, <1>10, <1>11, <1>12 DEF DeliveryInv

-----------------------------------------------------------------------------

\* The least-number principle, for a set of numbers.
LEMMA LeastNumber ==
    ASSUME NEW T \in SUBSET Nat, T # {}
    PROVE  \E x \in T : \A y \in T : x <= y
<1>1. \E R : /\ IsWellFoundedOn(R, Nat)
             /\ \A x, y \in Nat : <<y, x>> \in R <=> y < x
  <2> DEFINE R == OpToRel(<, Nat)
  <2>1. IsWellFoundedOn(R, Nat)
    BY NatLessThanWellFounded
  <2>2. \A x, y \in Nat : <<y, x>> \in R <=> y < x
    BY DEF OpToRel
  <2> HIDE DEF R
  <2> QED
    BY <2>1, <2>2
<1>2. PICK R : /\ IsWellFoundedOn(R, Nat)
               /\ \A x, y \in Nat : <<y, x>> \in R <=> y < x
  BY <1>1
<1>3. PICK x \in T : \A y \in T : ~(<<y, x>> \in R)
  BY <1>2, WFMin
<1>4. \A y \in T : ~(y < x)
  BY <1>2, <1>3
<1> QED
  BY <1>3, <1>4

\* A bounded set of numbers has a greatest one.
LEMMA MaxIs ==
    ASSUME NEW S \in SUBSET Nat, S # {}, NEW b \in Nat, \A x \in S : x <= b
    PROVE  Max(S) \in S /\ \A x \in S : x <= Max(S)
<1> DEFINE T == {n \in Nat : \A x \in S : x <= n}
<1>1. PICK m \in T : \A n \in T : m <= n
  <2>1. T \in SUBSET Nat /\ b \in T
    OBVIOUS
  <2> HIDE DEF T
  <2> QED
    BY <2>1, LeastNumber
<1>2. m \in S
  <2>1. CASE m = 0
    <3>1. PICK x \in S : TRUE
      OBVIOUS
    <3>2. x \in Nat /\ x <= 0
      BY <1>1, <2>1
    <3>3. x = 0
      BY <3>2
    <3> QED
      BY <2>1, <3>3
  <2>2. CASE m # 0
    <3> SUFFICES ASSUME m \notin S
                 PROVE  FALSE
      OBVIOUS
    <3>1. m - 1 \in T
      BY <1>1, <2>2
    <3> QED
      BY <1>1, <3>1
  <2> QED
    BY <2>1, <2>2
<1>3. \E x \in S : \A y \in S : x >= y
  BY <1>1, <1>2
<1>4. Max(S) \in S /\ \A y \in S : Max(S) >= y
  BY <1>3 DEF Max
<1> QED
  BY <1>4

\* The next id is past every id that is still queued.
LEMMA LoadNextBatchIdIs ==
    ASSUME QueuesAscend
    PROVE  /\ LoadNextBatchId \in Nat
           /\ \A u \in Owner : \A i \in 1 .. Len(queue[u]) :
                queue[u][i].id < LoadNextBatchId
<1> DEFINE ids == UNION {{b.id : b \in ToSet(queue[u])} : u \in Owner}
<1>1. \A u \in Owner :
        /\ Len(queue[u]) \in Nat /\ DOMAIN queue[u] = 1 .. Len(queue[u])
        /\ \A i \in 1 .. Len(queue[u]) : queue[u][i].id \in Nat
  <2> SUFFICES ASSUME NEW u \in Owner
               PROVE  /\ Len(queue[u]) \in Nat
                      /\ DOMAIN queue[u] = 1 .. Len(queue[u])
                      /\ \A i \in 1 .. Len(queue[u]) : queue[u][i].id \in Nat
    OBVIOUS
  <2>1. Ascending(queue[u])
    BY DEF QueuesAscend
  <2>2. \A i \in 1 .. Len(queue[u]) : queue[u][i].id \in Nat
    BY <2>1, IdsAscend
  <2> QED
    BY <2>1, <2>2, LenProperties DEF Ascending
<1>2. \A u \in Owner : \A i \in 1 .. Len(queue[u]) : queue[u][i].id \in ids
  BY <1>1 DEF ToSet
<1>3. \A x \in ids : \E u \in Owner : \E i \in 1 .. Len(queue[u]) :
        x = queue[u][i].id
  BY <1>1 DEF ToSet
<1>4. LoadNextBatchId = 1 + (IF ids = {} THEN 0 ELSE Max(ids))
  BY DEF LoadNextBatchId
<1> HIDE DEF ids
<1>5. ids \in SUBSET Nat /\ nextId \in Nat /\ \A x \in ids : x <= nextId
  BY <1>1, <1>3 DEF QueuesAscend
<1>6. CASE ids = {}
  BY <1>2, <1>4, <1>6
<1>7. CASE ids # {}
  <2>1. Max(ids) \in Nat /\ \A x \in ids : x <= Max(ids)
    BY <1>5, <1>7, MaxIs
  <2> QED
    BY <1>1, <1>2, <1>4, <1>5, <1>7, <2>1
<1> QED
  BY <1>6, <1>7

\* Another user's queue comes into the pipeline, and the stream closes.
LEMMA SwitchKeeps ==
    ASSUME WireInv, DeliveryInv, NEW u \in Owner, user' = u,
           pipeline' = Filled(<<>>, queue[u]), handshake' = FALSE,
           nextId' = nextId \/ nextId' = LoadNextBatchId,
           CallbacksWait', Thinner(tasks, tasks'),
           UNCHANGED <<queue, refused, log, outcome>>
    PROVE  DeliveryInv'
<1>1. Ascending(queue[u]) /\ QueuesAscend /\ TasksFollow
  BY DEF DeliveryInv, QueuesAscend
<1>2. Filled(<<>>, queue[u]) = Window(queue[u])
  <2> DEFINE p == <<>>
  <2>1. p \in Seq(Batch) /\ Len(p) = 0
    OBVIOUS
  <2>2. Len(queue[u]) \in Nat /\ kMaxPendingWrites \in Nat
    BY <1>1, LenProperties, FirestoreWritesAssumption DEF Ascending
  <2> HIDE DEF p
  <2>3. /\ Len(p) <= Len(queue[u]) /\ Len(p) <= kMaxPendingWrites
        /\ \A i \in 1 .. Len(p) : p[i] = queue[u][i]
    BY <2>1, <2>2
  <2>4. Filled(p, queue[u]) = Window(queue[u])
    BY <1>1, <2>1, <2>3, FilledIsWindow
  <2> QED
    BY <2>4 DEF p
<1>3. QueuesAscend'
  <2>1. /\ nextId' \in Nat
        /\ \A v \in Owner : \A i \in 1 .. Len(queue[v]) :
            queue[v][i].id < nextId'
    BY <1>1, LoadNextBatchIdIs DEF QueuesAscend
  <2> QED
    BY <1>1, <1>2, <2>1 DEF QueuesAscend, Window
<1>4. TasksFollow'
  BY <1>1, FollowKept
<1>5. LogAscends'
  <2>1. LogAscends /\ log' = log /\ queue' = queue
    BY DEF DeliveryInv
  <2> QED
    BY <2>1 DEF LogAscends, Behind, Applied
<1>6. AnswersFit'
  BY DEF AnswersFit
<1>7. HonestOutcomes'
  BY DEF DeliveryInv, HonestOutcomes
<1> QED
  BY <1>3, <1>4, <1>5, <1>6, <1>7 DEF DeliveryInv

LEMMA CredentialChangeKeeps ==
    ASSUME QueueInv, WireInv, DeliveryInv, RunTask, Head(tasks).op = "user",
           HandleCredentialChange(Head(tasks).user)
    PROVE  DeliveryInv'
<1> DEFINE u == Head(tasks).user
<1>1. /\ user' = u /\ user' \in Owner
      /\ nextId' = nextId \/ nextId' = LoadNextBatchId
      /\ Restarted("Initial", Filled(<<>>, queue[u]), Tail(tasks))
      /\ UNCHANGED <<queue, callbacks, refused, log, outcome, bounds>>
  BY CredentialChangeQueues DEF HandleCredentialChange, RunTask, server,
     QueueInv, QueueTypes
<1> HIDE DEF u
<1>2. Thinner(tasks, tasks')
  <2>1. tasks # <<>> /\ tasks \in Seq(Task)
    BY DEF RunTask, QueueInv, QueueTypes
  <2>2. Tail(tasks) \in Seq(Task)
    BY <2>1, HeadTailProperties
  <2>3. Thinner(Tail(tasks), tasks')
    BY <1>1, <2>2, ThinnerVoid DEF Restarted
  <2> QED
    BY <2>1, <2>3, ThinnerTail, ThinnerTwice
<1>3. CallbacksWait'
  BY <1>1 DEF DeliveryInv, CallbacksWait
<1> QED
  BY <1>1, <1>2, <1>3, SwitchKeeps DEF Restarted

LEMMA CrashKeeps ==
    ASSUME QueueInv, WireInv, DeliveryInv, Crash
    PROVE  DeliveryInv'
<1>1. /\ user' = authUser /\ authUser \in Owner
      /\ pipeline' = Filled(<<>>, queue[authUser]) /\ handshake' = FALSE
      /\ nextId' = LoadNextBatchId /\ tasks' = <<>>
      /\ callbacks' = [u \in Owner |-> {}]
      /\ bounds' = [bounds EXCEPT !.crashes = @ + 1]
      /\ UNCHANGED <<queue, refused, log, outcome>>
  BY DEF Crash, QueueInv, QueueTypes, server
<1>2. /\ bounds' \in [switches : Nat, faults : Nat, crashes : Nat]
      /\ bounds'.crashes # 0
  BY <1>1 DEF DeliveryInv, CallbacksWait
<1>3. CallbacksWait'
  BY <1>1, <1>2 DEF CallbacksWait
<1>4. Thinner(tasks, tasks')
  <2>1. tasks' = <<>> /\ Len(<<>>) = 0
    BY <1>1
  <2> QED
    BY <2>1 DEF Thinner, WritesAscend, Precedes
<1> QED
  BY <1>1, <1>3, <1>4, SwitchKeeps

LEMMA InitDelivery ==
    ASSUME Init
    PROVE  StreamFits /\ DeliveryInv
<1>1. /\ queue = [u \in Owner |-> <<>>] /\ nextId = 1 /\ pipeline = <<>>
      /\ callbacks = [u \in Owner |-> {}] /\ log = <<>> /\ tasks = <<>>
      /\ user \in Owner /\ stream = "Initial" /\ idle = FALSE
      /\ handshake = FALSE /\ outcome = [w \in Write |-> "none"]
      /\ bounds = [switches |-> 0, faults |-> 0, crashes |-> 0]
  BY DEF Init
<1>2. \A u \in Owner : queue[u] = <<>>
  BY <1>1
<1>3. Ascending(<<>>) /\ Len(<<>>) = 0
  BY DEF Ascending
<1>4. Window(<<>>) = <<>>
  BY <1>3, WindowIs, EmptySeq
<1>5. StreamFits
  BY <1>1 DEF StreamFits
<1>6. QueuesAscend
  BY <1>1, <1>2, <1>3, <1>4 DEF QueuesAscend
<1>7. CallbacksWait
  BY <1>1, <1>2 DEF CallbacksWait, ToSet
<1>8. TasksFollow /\ LogAscends
  BY <1>1, <1>2, <1>3 DEF TasksFollow, WritesAscend, LogAscends, Behind
<1>9. AnswersFit /\ HonestOutcomes
  BY <1>1 DEF AnswersFit, HonestOutcomes
<1> QED
  BY <1>5, <1>6, <1>7, <1>8, <1>9 DEF DeliveryInv

-----------------------------------------------------------------------------
(* A write is queued. *)

\* Batches leave the queues, or come in past what the log holds.
LEMMA LogKept ==
    ASSUME LogAscends, UNCHANGED log,
           \A u \in Owner : \A k \in 1 .. Len(queue'[u]) :
                \/ \A i \in 1 .. Len(log) : log[i].write < queue'[u][k].write
                \/ \E j \in 1 .. Len(queue[u]) : queue'[u][k] = queue[u][j]
    PROVE  LogAscends'
<1>1. ASSUME NEW u \in Owner, NEW i \in 1 .. Len(log), log[i].token = u,
             NEW k \in 1 .. Len(queue'[u])
      PROVE  log[i].write < queue'[u][k].write \/ Applied(queue'[u][k].write)
  <2>1. ASSUME NEW j \in 1 .. Len(queue[u])
        PROVE  log[i].write < queue[u][j].write \/ Applied(queue[u][j].write)
    BY <1>1, <2>1 DEF LogAscends, Behind
  <2> QED
    BY <2>1
<1>2. \A w : Applied(w)' <=> Applied(w)
  BY DEF Applied
<1>3. \A u \in Owner : Behind(queue[u], u)'
  BY <1>1, <1>2 DEF Behind
<1> QED
  BY <1>3 DEF LogAscends

\* The front of the worker queue comes before the writes behind it.
LEMMA FrontPrecedes ==
    ASSUME NEW S, NEW s \in Seq(S), s # <<>>, s[1].op = "write", WritesAscend(s)
    PROVE  Precedes(s[1].write, Tail(s))
<1>1. /\ Len(s) \in Nat /\ Len(s) # 0 /\ Len(Tail(s)) = Len(s) - 1
      /\ \A i \in 1 .. Len(Tail(s)) : Tail(s)[i] = s[i + 1]
  BY HeadTailProperties, LenProperties, EmptySeq
<1> DEFINE t == Tail(s)
<1> HIDE DEF t
<1>2. \A i \in 1 .. Len(t) : i + 1 \in 1 .. Len(s) /\ 1 < i + 1 /\ t[i] = s[i + 1]
  BY <1>1 DEF t
<1>3. Precedes(s[1].write, t)
  <2> SUFFICES ASSUME NEW i \in 1 .. Len(t), t[i].op = "write"
               PROVE  s[1].write < t[i].write
    BY DEF Precedes
  <2>1. i + 1 \in 1 .. Len(s) /\ 1 \in 1 .. Len(s) /\ 1 < i + 1 /\ t[i] = s[i + 1]
    BY <1>1, <1>2
  <2> QED
    BY <2>1 DEF WritesAscend
<1> QED
  BY <1>3 DEF t

LEMMA WriteMutationsKeeps ==
    ASSUME QueueInv, WireInv, DeliveryInv, RunTask, Head(tasks).op = "write",
           WriteMutations(Head(tasks).write)
    PROVE  DeliveryInv'
<1> DEFINE w == Head(tasks).write
           b == [id |-> nextId, write |-> w]
           s == queue[user]
           q == Append(s, b)
           p == Filled(pipeline, q)
<1>1. /\ tasks # <<>> /\ tasks \in Seq(Task) /\ Head(tasks) = tasks[1]
      /\ 1 \in 1 .. Len(tasks) /\ tasks[1] \in Task /\ user \in Owner
      /\ tasks[1].op = "write"
  BY LenProperties, ElementOfSeq, EmptySeq DEF RunTask, QueueInv, QueueTypes
<1>2. /\ w \in Nat /\ w = tasks[1].write
  BY <1>1 DEF Task
<1>3. /\ QueuesAscend /\ CallbacksWait /\ TasksFollow /\ LogAscends
      /\ AnswersFit /\ HonestOutcomes
  BY DEF DeliveryInv
<1>4. /\ b \in Batch /\ b.id = nextId /\ b.write = w
      /\ Ascending(s) /\ pipeline = Window(s) /\ nextId \in Nat
      /\ \A i \in 1 .. Len(s) : s[i].id < b.id /\ s[i].write < b.write
  BY <1>1, <1>2, <1>3 DEF QueuesAscend, TasksFollow, Precedes, Batch
<1>5. /\ queue' = [queue EXCEPT ![user] = q]
      /\ nextId' = nextId + 1
      /\ callbacks' = [callbacks EXCEPT ![user] =
                        IF \E c \in @ : c.id = nextId THEN @ ELSE @ \cup {b}]
      /\ pipeline' = p
      /\ \/ handshake /\ p # pipeline /\ requests' = Append(requests, w)
         \/ (~handshake \/ p = pipeline) /\ requests' = requests
      /\ tasks' = Tail(tasks)
      /\ UNCHANGED <<user, handshake, responses>>
  BY DEF WriteMutations
<1>6. UNCHANGED <<refused, log, outcome, bounds>>
  BY DEF RunTask, server
<1> HIDE DEF w, b, p
<1>7. /\ Ascending(q) /\ s \in Seq(Batch) /\ Len(s) \in Nat
      /\ Len(q) = Len(s) + 1 /\ q[Len(s) + 1] = b
      /\ \A i \in 1 .. Len(s) : q[i] = s[i]
  <2>1. s \in Seq(Batch) /\ b \in Batch /\ Len(s) \in Nat
    BY <1>4, LenProperties DEF Ascending
  <2>2. Ascending(q)
    BY <1>4, AscendingAppend
  <2> HIDE DEF s
  <2>3. /\ Len(q) = Len(s) + 1 /\ q[Len(s) + 1] = b
        /\ \A i \in 1 .. Len(s) : q[i] = s[i]
    BY <2>1, AppendProperties
  <2> QED
    BY <2>1, <2>2, <2>3
<1>8. /\ Len(pipeline) = Smaller(kMaxPendingWrites, Len(s))
      /\ Len(pipeline) \in Nat /\ kMaxPendingWrites \in Nat
      /\ \A i \in 1 .. Len(pipeline) : pipeline[i] = s[i]
  BY <1>4, WindowIs, FirestoreWritesAssumption
<1> HIDE DEF q
<1>9. p = Window(q)
  <2>1. /\ pipeline \in Seq(Batch) /\ Len(pipeline) <= Len(q)
        /\ Len(pipeline) <= kMaxPendingWrites
        /\ \A i \in 1 .. Len(pipeline) : pipeline[i] = q[i]
    <3>1. pipeline \in Seq(Batch) /\ Len(pipeline) \in 0 .. Len(s)
      BY <1>4, WindowIs
    <3> QED
      BY <1>7, <1>8, <3>1 DEF Smaller
  <2> QED
    BY <1>7, <2>1, FilledIsWindow DEF p
<1> HIDE DEF s
<1>10. /\ DOMAIN queue = Owner /\ DOMAIN callbacks = Owner
       /\ queue'[user] = q
       /\ \A u \in Owner \ {user} : queue'[u] = queue[u]
  BY <1>1, <1>3, <1>5 DEF WireInv, OwnBatches, CallbacksWait
<1>11. QueuesAscend'
  <2>1. \A i \in 1 .. Len(q) : q[i].id < nextId + 1
    <3> SUFFICES ASSUME NEW i \in 1 .. Len(q)
                 PROVE  q[i].id < nextId + 1
      OBVIOUS
    <3>1. CASE i = Len(s) + 1
      BY <1>4, <1>7, <3>1
    <3>2. CASE i # Len(s) + 1
      <4>1. i \in 1 .. Len(s) /\ q[i] = s[i] /\ s[i].id \in Nat
        BY <1>4, <1>7, <3>2, IdsAscend
      <4> QED
        BY <1>4, <4>1
    <3> QED
      BY <3>1, <3>2
  <2>2. ASSUME NEW u \in Owner \ {user}
        PROVE  /\ Ascending(queue[u])
               /\ \A i \in 1 .. Len(queue[u]) : queue[u][i].id < nextId + 1
    <3>1. Ascending(queue[u])
      BY <1>3 DEF QueuesAscend
    <3>2. \A i \in 1 .. Len(queue[u]) :
            queue[u][i].id \in Nat /\ queue[u][i].id < nextId
      BY <1>3, <3>1, IdsAscend DEF QueuesAscend
    <3> QED
      BY <1>4, <3>1, <3>2
  <2>3. \A u \in Owner : /\ Ascending(queue'[u])
                         /\ \A i \in 1 .. Len(queue'[u]) :
                                queue'[u][i].id < nextId'
    BY <1>5, <1>7, <1>10, <2>1, <2>2
  <2>4. nextId' \in Nat /\ pipeline' = Window(queue'[user'])
    BY <1>4, <1>5, <1>9, <1>10
  <2> QED
    BY <2>3, <2>4 DEF QueuesAscend, Window
<1>12. CallbacksWait'
  <2>1. /\ ToSet(s) = {s[i] : i \in 1 .. Len(s)}
        /\ ToSet(q) = ToSet(s) \cup {b}
    <3>1. DOMAIN s = 1 .. Len(s) /\ DOMAIN q = 1 .. Len(s) + 1
      BY <1>7, LenProperties DEF Ascending
    <3> QED
      BY <1>7, <3>1 DEF ToSet
  <2>2. ~(\E c \in callbacks[user] : c.id = nextId)
    <3> SUFFICES ASSUME NEW c \in callbacks[user], c.id = nextId
                 PROVE  FALSE
      OBVIOUS
    <3>1. c \in ToSet(s)
      BY <1>1, <1>3 DEF CallbacksWait, s
    <3>2. PICK i \in 1 .. Len(s) : c = s[i]
      BY <2>1, <3>1
    <3>3. s[i].id \in Nat
      BY <1>4, IdsAscend
    <3> QED
      BY <1>4, <3>2, <3>3
  <2>3. callbacks'[user] = callbacks[user] \cup {b}
    BY <1>1, <1>5, <1>10, <2>2
  <2>4. /\ DOMAIN callbacks' = Owner
        /\ \A u \in Owner \ {user} : callbacks'[u] = callbacks[u]
    BY <1>5, <1>10
  <2>5. \A u \in Owner :
            /\ callbacks'[u] \subseteq ToSet(queue'[u])
            /\ bounds.crashes = 0 => ToSet(queue'[u]) \subseteq callbacks'[u]
    <3>1. /\ callbacks[user] \subseteq ToSet(s)
          /\ bounds.crashes = 0 => ToSet(s) \subseteq callbacks[user]
      BY <1>1, <1>3 DEF CallbacksWait, s
    <3>2. /\ callbacks'[user] \subseteq ToSet(q)
          /\ bounds.crashes = 0 => ToSet(q) \subseteq callbacks'[user]
      BY <2>1, <2>3, <3>1
    <3>3. \A u \in Owner \ {user} :
            /\ callbacks[u] \subseteq ToSet(queue[u])
            /\ bounds.crashes = 0 => ToSet(queue[u]) \subseteq callbacks[u]
      BY <1>3 DEF CallbacksWait
    <3> QED
      BY <1>10, <2>4, <3>2, <3>3
  <2>6. bounds' \in [switches : Nat, faults : Nat, crashes : Nat]
    BY <1>3, <1>6 DEF CallbacksWait
  <2> QED
    BY <1>6, <2>4, <2>5, <2>6 DEF CallbacksWait
<1>13. \A u \in Owner : \A k \in 1 .. Len(queue'[u]) :
            \/ queue'[u][k] = b
            \/ \E j \in 1 .. Len(queue[u]) : queue'[u][k] = queue[u][j]
  <2>1. \A k \in 1 .. Len(q) : q[k] = b \/ (k \in 1 .. Len(s) /\ q[k] = s[k])
    <3> SUFFICES ASSUME NEW k \in 1 .. Len(q)
                 PROVE  q[k] = b \/ (k \in 1 .. Len(s) /\ q[k] = s[k])
      OBVIOUS
    <3>1. CASE k = Len(s) + 1
      BY <1>7, <3>1
    <3>2. CASE k # Len(s) + 1
      <4>1. k \in 1 .. Len(s)
        BY <1>7, <3>2
      <4> QED
        BY <1>7, <4>1
    <3> QED
      BY <3>1, <3>2
  <2> QED
    BY <1>10, <2>1 DEF s
<1>14. TasksFollow'
  <2>1. Precedes(b.write, tasks')
    BY <1>1, <1>2, <1>3, <1>4, <1>5, FrontPrecedes DEF TasksFollow
  <2>2. Thinner(tasks, tasks')
    BY <1>1, <1>5, ThinnerTail
  <2> QED
    BY <1>3, <1>6, <1>13, <2>1, <2>2, FollowKept
<1>15. LogAscends'
  <2>1. \A i \in 1 .. Len(log) : log[i].write < b.write
    BY <1>1, <1>2, <1>3, <1>4 DEF TasksFollow, Precedes
  <2> QED
    BY <1>3, <1>6, <1>13, <2>1, LogKept
<1>16. HonestOutcomes'
  BY <1>3, <1>6 DEF HonestOutcomes
<1>17. AnswersFit'
  <2> SUFFICES ASSUME handshake
               PROVE  AnswersFit'
    BY <1>5 DEF AnswersFit
  <2>1. /\ \A i \in 1 .. Len(pipeline) : p[i] = pipeline[i]
        /\ \/ Len(p) = Len(pipeline) /\ p = pipeline
           \/ /\ Len(p) = Len(pipeline) + 1 /\ p[Len(p)] = b
              /\ p # pipeline
    <3>1. /\ Len(p) = Smaller(kMaxPendingWrites, Len(s) + 1)
          /\ \A i \in 1 .. Len(p) : p[i] = q[i]
          /\ p \in Seq(Batch) /\ pipeline \in Seq(Batch)
      BY <1>4, <1>7, <1>9, WindowIs
    <3>2. CASE Len(s) < kMaxPendingWrites
      <4>1. Len(pipeline) = Len(s) /\ Len(p) = Len(s) + 1
        BY <1>7, <1>8, <3>1, <3>2 DEF Smaller
      <4> QED
        BY <1>7, <1>8, <3>1, <4>1
    <3>3. CASE ~(Len(s) < kMaxPendingWrites)
      <4>1. Len(pipeline) = Len(p) /\ Len(p) <= Len(s)
        BY <1>7, <1>8, <3>1, <3>3 DEF Smaller
      <4>2. \A i \in 1 .. Len(p) : p[i] = pipeline[i]
        BY <1>7, <1>8, <3>1, <4>1
      <4>3. p = pipeline
        BY <3>1, <4>1, <4>2, SeqEqual
      <4> QED
        BY <4>1, <4>3
    <3> QED
      BY <3>2, <3>3
  <2>2. /\ requests \in Seq(Issued(author, user)) /\ Len(requests) \in Nat
        /\ responses \in Seq({"result", "error"}) /\ Len(responses) \in Nat
        /\ Len(requests) + Len(responses) <= Len(pipeline)
    BY LenProperties DEF WireInv, OwnStream
  <2>3. \A k \in 1 .. Len(responses) :
            /\ responses[k] = "result" => Applied(p[k].write)
            /\ responses[k] = "error" => p[k].write \in refused
    <3>1. \A k \in 1 .. Len(responses) : p[k] = pipeline[k]
      BY <1>8, <2>1, <2>2
    <3> QED
      BY <1>3, <3>1 DEF AnswersFit
  <2>4. ASSUME ~Contains(responses, "error")
        PROVE  /\ Len(responses) + Len(requests') = Len(p)
               /\ \A k \in 1 .. Len(requests') :
                    requests'[k] = p[Len(responses) + k].write
    <3>1. /\ Len(responses) + Len(requests) = Len(pipeline)
          /\ \A k \in 1 .. Len(requests) :
                requests[k] = pipeline[Len(responses) + k].write
      BY <1>3, <2>4 DEF AnswersFit
    <3>2. CASE p = pipeline
      BY <1>5, <3>1, <3>2
    <3>3. CASE p # pipeline
      <4>1. /\ Len(p) = Len(pipeline) + 1 /\ p[Len(p)] = b
            /\ requests' = Append(requests, w)
        BY <1>5, <2>1, <3>3
      <4>2. /\ Len(requests') = Len(requests) + 1
            /\ \A k \in 1 .. Len(requests) : requests'[k] = requests[k]
            /\ requests'[Len(requests) + 1] = w
        <5>1. requests \in Seq(Nat)
          <6>1. Issued(author, user) \subseteq Nat
            <7>1. Len(author) \in Nat
              BY LenProperties DEF QueueInv, QueueTypes
            <7> QED
              BY <7>1 DEF Issued
          <6> QED
            BY <2>2, <6>1
        <5> QED
          BY <1>2, <4>1, <5>1, AppendProperties
      <4>3. ASSUME NEW k \in 1 .. Len(requests')
            PROVE  requests'[k] = p[Len(responses) + k].write
        <5>1. CASE k = Len(requests) + 1
          BY <1>4, <2>2, <3>1, <4>1, <4>2, <5>1
        <5>2. CASE k # Len(requests) + 1
          <6>1. k \in 1 .. Len(requests) /\ Len(responses) + k \in 1 .. Len(pipeline)
            BY <2>2, <3>1, <4>2, <5>2
          <6> QED
            BY <2>1, <3>1, <4>2, <6>1
        <5> QED
          BY <5>1, <5>2
      <4>4. Len(responses) + Len(requests') = Len(p)
        BY <2>2, <3>1, <4>1, <4>2
      <4> QED
        BY <4>3, <4>4
    <3> QED
      BY <3>2, <3>3
  <2>5. \A x : Applied(x)' <=> Applied(x)
    BY <1>6 DEF Applied
  <2> QED
    BY <1>5, <1>6, <2>3, <2>4, <2>5 DEF AnswersFit
<1> QED
  BY <1>11, <1>12, <1>14, <1>15, <1>16, <1>17 DEF DeliveryInv

-----------------------------------------------------------------------------
(* A batch is done with. *)

\* What Finish does to the queues, when it is called for the front of the
\* pipeline.
LEMMA FinishTakesFront ==
    ASSUME WireInv, QueuesAscend, user \in Owner, pipeline # <<>>,
           NEW result, Finish(Head(pipeline), result)
    PROVE  /\ queue[user] # <<>> /\ Head(pipeline) = queue[user][1]
           /\ pipeline[1] = queue[user][1]
           /\ 1 \in 1 .. Len(queue[user])
           /\ DOMAIN queue' = Owner
           /\ queue'[user] = Tail(queue[user])
           /\ \A u \in Owner \ {user} : queue'[u] = queue[u]
           /\ Filled(Tail(pipeline), queue'[user]) = Window(queue'[user])
<1> DEFINE s == queue[user]
<1>1. Ascending(s) /\ pipeline = Window(s) /\ DOMAIN queue = Owner
  BY DEF QueuesAscend, WireInv, OwnBatches
<1>2. /\ s \in Seq(Batch) /\ Len(s) \in Nat /\ pipeline \in Seq(Batch)
      /\ Len(pipeline) \in 0 .. Len(s) /\ Len(pipeline) <= kMaxPendingWrites
      /\ Len(pipeline) = Smaller(kMaxPendingWrites, Len(s))
      /\ \A i \in 1 .. Len(pipeline) : pipeline[i] = s[i]
  BY <1>1, WindowIs
<1>3. /\ Len(pipeline) >= 1 /\ s # <<>>
      /\ Head(pipeline) = s[1] /\ pipeline[1] = s[1] /\ 1 \in 1 .. Len(s)
  <2>1. Len(pipeline) # 0 /\ Head(pipeline) = pipeline[1]
    BY <1>2, EmptySeq
  <2> QED
    BY <1>2, <2>1, EmptySeq
<1>4. RemoveAt(s, 1 + Before(s, s[1].id)) = Tail(s)
  BY <1>1, <1>3, FrontRemoved
<1>5. queue' = [queue EXCEPT ![user] = RemoveAt(@, 1 + Before(@, s[1].id))]
  BY <1>3 DEF Finish
<1>6. queue' = [queue EXCEPT ![user] = Tail(s)]
  BY <1>4, <1>5, Zenon
<1>7. /\ DOMAIN queue' = Owner /\ queue'[user] = Tail(s)
      /\ \A u \in Owner \ {user} : queue'[u] = queue[u]
  BY <1>1, <1>6
<1>8. /\ Ascending(Tail(s)) /\ Len(Tail(s)) = Len(s) - 1
      /\ \A i \in 1 .. Len(s) - 1 : Tail(s)[i] = s[i + 1]
  BY <1>1, <1>3, AscendingTail
<1>9. Filled(Tail(pipeline), Tail(s)) = Window(Tail(s))
  <2> DEFINE p == Tail(pipeline)
             t == Tail(s)
  <2>1. /\ p \in Seq(Batch) /\ Len(p) = Len(pipeline) - 1
        /\ \A i \in 1 .. Len(p) : p[i] = pipeline[i + 1]
    BY <1>2, <1>3, HeadTailProperties
  <2>2. /\ Len(p) <= Len(t) /\ Len(p) <= kMaxPendingWrites
    BY <1>2, <1>3, <1>8, <2>1, FirestoreWritesAssumption
  <2>3. \A i \in 1 .. Len(p) : p[i] = t[i]
    BY <1>2, <1>3, <1>8, <2>1
  <2> HIDE DEF p, t
  <2>4. Filled(p, t) = Window(t)
    BY <1>8, <2>1, <2>2, <2>3, FilledIsWindow DEF t
  <2> QED
    BY <2>4 DEF p, t
<1> QED
  BY <1>3, <1>7, <1>9

\* The front of the queue leaves it with its outcome.
LEMMA FinishKeeps ==
    ASSUME WireInv, DeliveryInv, user \in Owner, pipeline # <<>>,
           NEW result, Finish(Head(pipeline), result),
           \/ result = "applied" /\ Applied(pipeline[1].write)
           \/ result = "rejected" /\ pipeline[1].write \in refused,
           pipeline' = Filled(Tail(pipeline), queue'[user]),
           Thinner(tasks, tasks'), UNCHANGED <<log, refused, bounds>>
    PROVE  /\ QueuesAscend' /\ CallbacksWait' /\ TasksFollow' /\ LogAscends'
           /\ HonestOutcomes'
<1> DEFINE s == queue[user]
           t == Tail(s)
<1>1. /\ QueuesAscend /\ CallbacksWait /\ TasksFollow /\ LogAscends
      /\ HonestOutcomes
  BY DEF DeliveryInv
<1>2. /\ s # <<>> /\ Head(pipeline) = s[1] /\ pipeline[1] = s[1]
      /\ 1 \in 1 .. Len(s) /\ queue'[user] = t
      /\ \A u \in Owner \ {user} : queue'[u] = queue[u]
      /\ pipeline' = Window(queue'[user])
  BY <1>1, FinishTakesFront
<1>3. /\ Ascending(s) /\ Ascending(t) /\ Len(s) \in Nat /\ Len(s) >= 1
      /\ Len(t) = Len(s) - 1 /\ \A i \in 1 .. Len(t) : t[i] = s[i + 1]
  <2>1. Ascending(s)
    BY <1>1 DEF QueuesAscend
  <2> QED
    BY <1>2, <2>1, AscendingTail
<1>4. /\ outcome' = [w \in Write |->
            IF [id |-> s[1].id, write |-> w] \in callbacks[user]
            THEN result ELSE outcome[w]]
      /\ callbacks' = [callbacks EXCEPT ![user] = {c \in @ : c.id # s[1].id}]
      /\ UNCHANGED <<user, nextId>>
  BY <1>2 DEF Finish
<1> HIDE DEF s, t
<1>5. \A u \in Owner : \A k \in 1 .. Len(queue'[u]) :
        \E j \in 1 .. Len(queue[u]) : queue'[u][k] = queue[u][j]
  <2>1. \A k \in 1 .. Len(t) : k + 1 \in 1 .. Len(s) /\ t[k] = s[k + 1]
    BY <1>3
  <2>2. \A k \in 1 .. Len(t) : \E j \in 1 .. Len(s) : t[k] = s[j]
    BY <2>1
  <2> QED
    BY <1>2, <2>2 DEF s
<1>6. QueuesAscend'
  <2>1. \A u \in Owner : Ascending(queue'[u])
    BY <1>1, <1>2, <1>3 DEF QueuesAscend
  <2>2. \A u \in Owner : \A k \in 1 .. Len(queue'[u]) : queue'[u][k].id < nextId'
    BY <1>1, <1>4, <1>5 DEF QueuesAscend
  <2> QED
    BY <1>1, <1>2, <1>4, <2>1, <2>2 DEF QueuesAscend, Window
<1>7. TasksFollow'
  BY <1>1, <1>5, FollowKept
<1>8. LogAscends'
  BY <1>1, <1>5, LogKept
<1>9. /\ ToSet(s) = {s[i] : i \in 1 .. Len(s)}
      /\ ToSet(t) = {t[i] : i \in 1 .. Len(t)}
  <2>1. DOMAIN s = 1 .. Len(s) /\ DOMAIN t = 1 .. Len(t)
    BY <1>3, LenProperties DEF Ascending
  <2> QED
    BY <2>1 DEF ToSet
<1>10. ToSet(t) = {c \in ToSet(s) : c.id # s[1].id}
  <2>1. ASSUME NEW c \in ToSet(t)
        PROVE  c \in ToSet(s) /\ c.id # s[1].id
    <3>1. PICK k \in 1 .. Len(t) : c = t[k]
      BY <1>9, <2>1
    <3>2. k + 1 \in 1 .. Len(s) /\ c = s[k + 1] /\ k + 1 # 1
      BY <1>3, <3>1
    <3>3. s[k + 1].id # s[1].id
      BY <1>2, <1>3, <3>2, IdsAscend
    <3> QED
      BY <1>9, <3>2, <3>3
  <2>2. ASSUME NEW c \in ToSet(s), c.id # s[1].id
        PROVE  c \in ToSet(t)
    <3>1. PICK i \in 1 .. Len(s) : c = s[i]
      BY <1>9, <2>2
    <3>2. i - 1 \in 1 .. Len(t)
      BY <1>3, <2>2, <3>1
    <3>3. t[i - 1] = s[i]
      <4>1. t[i - 1] = s[(i - 1) + 1] /\ (i - 1) + 1 = i
        BY <1>3, <3>2
      <4> QED
        BY <4>1
    <3> QED
      BY <1>9, <3>1, <3>2, <3>3
  <2> QED
    BY <2>1, <2>2
<1>11. CallbacksWait'
  <2>1. /\ callbacks[user] \subseteq ToSet(s)
        /\ bounds.crashes = 0 => ToSet(s) \subseteq callbacks[user]
        /\ DOMAIN callbacks = Owner
    BY <1>1 DEF CallbacksWait, s
  <2>2. /\ callbacks'[user] = {c \in callbacks[user] : c.id # s[1].id}
        /\ DOMAIN callbacks' = Owner
        /\ \A u \in Owner \ {user} : callbacks'[u] = callbacks[u]
    BY <1>4, <2>1
  <2>3. /\ callbacks'[user] \subseteq ToSet(t)
        /\ bounds.crashes = 0 => ToSet(t) \subseteq callbacks'[user]
    BY <1>10, <2>1, <2>2
  <2>4. \A u \in Owner \ {user} :
          /\ callbacks'[u] \subseteq ToSet(queue'[u])
          /\ bounds.crashes = 0 => ToSet(queue'[u]) \subseteq callbacks'[u]
    BY <1>1, <1>2, <2>2 DEF CallbacksWait
  <2>5. \A u \in Owner :
          /\ callbacks'[u] \subseteq ToSet(queue'[u])
          /\ bounds.crashes = 0 => ToSet(queue'[u]) \subseteq callbacks'[u]
    BY <1>2, <2>3, <2>4
  <2>6. bounds' \in [switches : Nat, faults : Nat, crashes : Nat]
    BY <1>1 DEF CallbacksWait
  <2> QED
    BY <2>2, <2>5, <2>6 DEF CallbacksWait
<1>12. HonestOutcomes'
  <2>1. \A w : Applied(w)' <=> Applied(w)
    BY DEF Applied
  <2>2. DOMAIN log = 1 .. Len(log)
    BY <1>1, WritesAreNumbers
  <2> SUFFICES ASSUME NEW w \in Write
               PROVE  /\ outcome'[w] = "applied" => Applied(w)
                      /\ outcome'[w] = "rejected" => w \in refused
    BY <2>1, <2>2 DEF HonestOutcomes, Applied
  <2>3. CASE [id |-> s[1].id, write |-> w] \in callbacks[user]
    <3>1. outcome'[w] = result
      BY <1>4, <2>3
    <3>2. PICK i \in 1 .. Len(s) : [id |-> s[1].id, write |-> w] = s[i]
      BY <1>1, <1>9, <2>3 DEF CallbacksWait, s
    <3>3. s[i].id = s[1].id /\ s[i].write = w
      BY <3>2
    <3>4. i = 1
      BY <1>2, <1>3, <3>3, IdsAscend
    <3> QED
      BY <1>2, <3>1, <3>3, <3>4
  <2>4. CASE [id |-> s[1].id, write |-> w] \notin callbacks[user]
    <3>1. outcome'[w] = outcome[w]
      BY <1>4, <2>4
    <3> QED
      BY <1>1, <2>2, <3>1 DEF HonestOutcomes, Applied
  <2> QED
    BY <2>3, <2>4
<1> QED
  BY <1>6, <1>7, <1>8, <1>11, <1>12

LEMMA WriteRejectedKeeps ==
    ASSUME QueueInv, WireInv, DeliveryInv, OnStreamRead,
           Head(responses) = "error", OnWriteRejected
    PROVE  DeliveryInv'
<1>1. /\ handshake /\ pipeline # <<>> /\ responses[1] = "error"
      /\ 1 \in 1 .. Len(responses)
  <2>1. responses # <<>>
    BY DEF OnStreamRead
  <2>2. /\ handshake /\ pipeline # <<>> /\ Len(responses) \in Nat
        /\ responses \in Seq({"result", "error"})
    BY <2>1, ReadsAnAnswer
  <2> QED
    BY <2>1, <2>2, EmptySeq
<1>2. pipeline[1].write \in refused
  BY <1>1 DEF DeliveryInv, AnswersFit
<1>3. user \in Owner /\ tasks \in Seq(Task)
  BY DEF QueueInv, QueueTypes
<1>4. /\ Finish(Head(pipeline), "rejected")
      /\ pipeline' = Filled(Tail(pipeline), queue'[user])
      /\ tasks' = [i \in DOMAIN tasks |-> Void(tasks[i])]
      /\ handshake' = FALSE
  BY DEF OnWriteRejected, Restarted
<1>5. UNCHANGED <<log, refused, bounds>>
  BY DEF OnStreamRead, server
<1>6. Thinner(tasks, tasks')
  BY <1>3, <1>4, ThinnerVoid
<1>7. /\ QueuesAscend' /\ CallbacksWait' /\ TasksFollow' /\ LogAscends'
      /\ HonestOutcomes'
  BY <1>1, <1>2, <1>3, <1>4, <1>5, <1>6, FinishKeeps
<1>8. AnswersFit'
  BY <1>4 DEF AnswersFit
<1> QED
  BY <1>7, <1>8 DEF DeliveryInv

-----------------------------------------------------------------------------
(* Messages of the server. *)

LEMMA ToSendIs ==
    ASSUME NEW p \in Seq(Batch), NEW m \in 1 .. Len(p) + 1
    PROVE  /\ ToSend(SubSeq(p, m, Len(p))) \in Seq(Nat)
           /\ Len(ToSend(SubSeq(p, m, Len(p)))) = Len(p) - m + 1
           /\ \A k \in 1 .. Len(p) - m + 1 :
                ToSend(SubSeq(p, m, Len(p)))[k] = p[m + k - 1].write
<1> DEFINE s == SubSeq(p, m, Len(p))
           n == Len(p) - m + 1
<1>1. Len(p) \in Nat /\ n \in Nat
  BY LenProperties
<1>2. /\ s \in Seq(Batch) /\ Len(s) = n /\ DOMAIN s = 1 .. n
      /\ \A k \in 1 .. n : s[k] = p[m + k - 1]
  <2>1. \A i \in m .. Len(p) : p[i] \in Batch
    BY <1>1, ElementOfSeq
  <2>2. m \in Int /\ Len(p) \in Int
    BY <1>1
  <2>3. /\ s \in Seq(Batch)
        /\ Len(s) = IF m <= Len(p) THEN Len(p) - m + 1 ELSE 0
        /\ \A i \in 1 .. Len(p) - m + 1 : s[i] = p[m + i - 1]
    BY <2>1, <2>2, SubSeqProperties
  <2>4. Len(s) = n
    BY <1>1, <2>3
  <2> QED
    BY <2>3, <2>4, LenProperties
<1> HIDE DEF s, n
<1>3. \A k \in 1 .. n : s[k].write \in Nat
  <2> SUFFICES ASSUME NEW k \in 1 .. n
               PROVE  s[k].write \in Nat
    OBVIOUS
  <2>1. s[k] \in Batch
    BY <1>2, ElementOfSeq
  <2> QED
    BY <2>1 DEF Batch
<1>4. ToSend(s) = [k \in 1 .. n |-> s[k].write]
  BY <1>2 DEF ToSend
<1>5. ToSend(s) \in [1 .. n -> Nat] /\ \A k \in 1 .. n : ToSend(s)[k] = s[k].write
  BY <1>3, <1>4
<1>6. ToSend(s) \in Seq(Nat) /\ Len(ToSend(s)) = n
  BY <1>1, <1>5
<1> QED
  BY <1>2, <1>5, <1>6 DEF s, n

LEMMA HandshakeCompleteKeeps ==
    ASSUME QueueInv, WireInv, DeliveryInv, OnStreamRead,
           Head(responses) = "handshake", OnHandshakeComplete
    PROVE  DeliveryInv'
<1>1. /\ responses # <<>>
      /\ requests' = requests \o ToSend(pipeline)
      /\ responses' = Tail(responses)
      /\ UNCHANGED <<queue, nextId, callbacks, user, pipeline, refused, log,
                     outcome, bounds, tasks>>
  BY DEF OnStreamRead, OnHandshakeComplete, local, server
<1>2. ~handshake
  <2> SUFFICES ASSUME handshake
               PROVE  FALSE
    OBVIOUS
  <2>1. responses \in Seq({"result", "error"})
    BY DEF WireInv, OwnStream
  <2>2. Head(responses) \in {"result", "error"}
    BY <1>1, <2>1, HeadTailProperties
  <2> QED
    BY <2>2
<1>3. requests = <<>> /\ responses = <<"handshake">>
  BY <1>1, <1>2 DEF WireInv, OwnStream
<1>4. responses' = <<>> /\ Len(responses') = 0
  BY <1>1, <1>3
<1>5. /\ requests' \in Seq(Nat) /\ Len(requests') = Len(pipeline)
      /\ \A k \in 1 .. Len(pipeline) : requests'[k] = pipeline[k].write
      /\ Len(pipeline) \in Nat
  <2>1. /\ pipeline \in Seq(Batch) /\ Len(pipeline) \in Nat
        /\ SubSeq(pipeline, 1, Len(pipeline)) = pipeline
    <3>1. Ascending(queue[user]) /\ pipeline = Window(queue[user])
      BY DEF DeliveryInv, QueuesAscend, QueueInv, QueueTypes
    <3>2. pipeline \in Seq(Batch)
      BY <3>1, WindowIs
    <3> QED
      BY <3>2, LenProperties, SubSeqFull
  <2>2. 1 \in 1 .. Len(pipeline) + 1
    BY <2>1
  <2>3. /\ ToSend(pipeline) \in Seq(Nat)
        /\ Len(ToSend(pipeline)) = Len(pipeline) - 1 + 1
        /\ \A k \in 1 .. Len(pipeline) - 1 + 1 :
            ToSend(pipeline)[k] = pipeline[1 + k - 1].write
    <3>1. /\ ToSend(SubSeq(pipeline, 1, Len(pipeline))) \in Seq(Nat)
          /\ Len(ToSend(SubSeq(pipeline, 1, Len(pipeline))))
                = Len(pipeline) - 1 + 1
          /\ \A k \in 1 .. Len(pipeline) - 1 + 1 :
                ToSend(SubSeq(pipeline, 1, Len(pipeline)))[k]
                    = pipeline[1 + k - 1].write
      BY <2>1, <2>2, ToSendIs
    <3> HIDE DEF ToSend
    <3> QED
      BY <2>1, <3>1
  <2> DEFINE t == ToSend(pipeline)
  <2>4. /\ t \in Seq(Nat) /\ Len(t) = Len(pipeline)
        /\ \A k \in 1 .. Len(pipeline) : t[k] = pipeline[k].write
    <3> HIDE DEF ToSend
    <3>1. \A k \in 1 .. Len(pipeline) : 1 + k - 1 = k
      OBVIOUS
    <3>2. Len(pipeline) - 1 + 1 = Len(pipeline)
      BY <2>1
    <3> QED
      BY <2>3, <3>1, <3>2
  <2> HIDE DEF t
  <2>5. requests' = t
    BY <1>1, <1>3, <2>4, ConcatEmptySeq DEF t
  <2> QED
    BY <2>1, <2>4, <2>5
<1>6. AnswersFit'
  <2>1. \A k \in 1 .. Len(requests') :
          requests'[k] = pipeline[Len(responses') + k].write
    <3> SUFFICES ASSUME NEW k \in 1 .. Len(requests')
                 PROVE  requests'[k] = pipeline[Len(responses') + k].write
      OBVIOUS
    <3>1. Len(responses') + k = k
      BY <1>4
    <3> QED
      BY <1>5, <3>1
  <2>2. Len(responses') + Len(requests') = Len(pipeline)
    BY <1>4, <1>5
  <2>3. ~(\E k \in 1 .. Len(responses') : TRUE)
    BY <1>4
  <2> QED
    BY <1>1, <2>1, <2>2, <2>3 DEF AnswersFit
<1>7. TasksFollow'
  <2>1. Thinner(tasks, tasks') /\ QueuesAscend /\ TasksFollow
    BY <1>1 DEF Thinner, DeliveryInv
  <2> QED
    BY <1>1, <2>1, FollowKept
<1>8. LogAscends'
  <2>1. LogAscends
    BY DEF DeliveryInv
  <2> QED
    BY <1>1, <2>1 DEF LogAscends, Behind, Applied
<1>9. QueuesAscend' /\ CallbacksWait' /\ HonestOutcomes'
  BY <1>1 DEF DeliveryInv, QueuesAscend, CallbacksWait, HonestOutcomes
<1> QED
  BY <1>6, <1>7, <1>8, <1>9 DEF DeliveryInv

LEMMA MutationResultKeeps ==
    ASSUME QueueInv, WireInv, DeliveryInv, OnStreamRead,
           Head(responses) = "result", OnMutationResult
    PROVE  DeliveryInv'
<1> DEFINE s == queue[user]
           n == Len(pipeline)
           p == Window(Tail(s))
           new == SubSeq(p, n, Len(p))
<1>1. responses # <<>>
  BY DEF OnStreamRead
<1>2. /\ handshake /\ pipeline # <<>> /\ Len(responses) \in Nat
      /\ responses \in Seq({"result", "error"})
      /\ Len(Tail(responses)) = Len(responses) - 1
      /\ requests \in Seq(Issued(author, user)) /\ Len(requests) \in Nat
      /\ Len(requests) + Len(responses) <= n
  BY <1>1, ReadsAnAnswer
<1>3. /\ responses[1] = "result" /\ 1 \in 1 .. Len(responses)
      /\ Len(responses) >= 1
      /\ \A k \in 1 .. Len(responses) - 1 : Tail(responses)[k] = responses[k + 1]
  BY <1>1, <1>2, EmptySeq, HeadTailProperties
<1>4. AnswersFit /\ QueuesAscend /\ user \in Owner
  BY DEF DeliveryInv, QueueInv, QueueTypes
<1>5. Applied(pipeline[1].write)
  BY <1>2, <1>3, <1>4 DEF AnswersFit
<1>6. /\ Finish(Head(pipeline), "applied")
      /\ pipeline' = Filled(Tail(pipeline), queue'[user])
      /\ requests' = requests \o ToSend(SubSeq(pipeline', n, Len(pipeline')))
      /\ responses' = Tail(responses)
      /\ UNCHANGED <<tasks, handshake>>
  BY DEF OnMutationResult
<1>7. UNCHANGED <<log, refused, bounds>>
  BY DEF OnStreamRead, server
<1>8. Thinner(tasks, tasks')
  BY <1>6 DEF Thinner
<1>9. /\ QueuesAscend' /\ CallbacksWait' /\ TasksFollow' /\ LogAscends'
      /\ HonestOutcomes'
  BY <1>2, <1>4, <1>5, <1>6, <1>7, <1>8, FinishKeeps
<1>10. /\ s # <<>> /\ queue'[user] = Tail(s) /\ pipeline' = p
       /\ Ascending(s) /\ pipeline = Window(s)
  BY <1>2, <1>4, <1>6, FinishTakesFront DEF QueuesAscend
<1>11. /\ Len(s) \in Nat /\ Len(s) >= 1 /\ Len(Tail(s)) = Len(s) - 1
       /\ \A i \in 1 .. Len(s) - 1 : Tail(s)[i] = s[i + 1]
       /\ Ascending(Tail(s))
  BY <1>10, AscendingTail
<1>12. /\ n \in 1 .. Len(s) /\ n = Smaller(kMaxPendingWrites, Len(s))
       /\ \A i \in 1 .. n : pipeline[i] = s[i]
  <2>1. /\ n \in 0 .. Len(s) /\ n = Smaller(kMaxPendingWrites, Len(s))
        /\ \A i \in 1 .. n : pipeline[i] = s[i]
        /\ pipeline \in Seq(Batch)
    BY <1>10, WindowIs
  <2>2. n # 0
    BY <1>2, <2>1, EmptySeq
  <2> QED
    BY <2>1, <2>2
<1>13. /\ p \in Seq(Batch) /\ Len(p) \in Nat
       /\ Len(p) = Smaller(kMaxPendingWrites, Len(s) - 1)
       /\ \A i \in 1 .. Len(p) : p[i] = s[i + 1]
  <2>1. /\ p \in Seq(Batch) /\ Len(p) \in 0 .. Len(Tail(s))
        /\ Len(p) = Smaller(kMaxPendingWrites, Len(Tail(s)))
        /\ \A i \in 1 .. Len(p) : p[i] = Tail(s)[i]
    BY <1>11, WindowIs
  <2> HIDE DEF p
  <2> QED
    BY <1>11, <2>1
<1> HIDE DEF p, s, n
<1>14. n - 1 <= Len(p)
  BY <1>11, <1>12, <1>13, FirestoreWritesAssumption DEF Smaller
<1>15. ASSUME NEW i \in 1 .. n - 1
       PROVE  p[i] = pipeline[i + 1]
  <2>1. i \in 1 .. Len(p) /\ i + 1 \in 1 .. n
    BY <1>12, <1>13, <1>14
  <2> QED
    BY <1>12, <1>13, <2>1
<1>16. /\ ToSend(new) \in Seq(Nat) /\ Len(ToSend(new)) = Len(p) - n + 1
       /\ \A k \in 1 .. Len(p) - n + 1 : ToSend(new)[k] = p[n + k - 1].write
  <2>1. n \in 1 .. Len(p) + 1
    BY <1>12, <1>13, <1>14
  <2> QED
    BY <1>13, <2>1, ToSendIs
<1>17. requests \in Seq(Nat)
  <2>1. Issued(author, user) \subseteq Nat
    <3>1. Len(author) \in Nat
      BY LenProperties DEF QueueInv, QueueTypes
    <3> QED
      BY <3>1 DEF Issued
  <2> QED
    BY <1>2, <2>1
<1> DEFINE sent == ToSend(new)
<1>18. requests' = requests \o sent
  BY <1>6, <1>10
<1> HIDE DEF sent
<1>19. /\ Len(requests') = Len(requests) + (Len(p) - n + 1)
       /\ \A k \in 1 .. Len(requests) : requests'[k] = requests[k]
       /\ \A k \in 1 .. Len(p) - n + 1 :
            requests'[Len(requests) + k] = p[n + k - 1].write
  <2>1. sent \in Seq(Nat) /\ Len(sent) = Len(p) - n + 1
    BY <1>16 DEF sent
  <2>2. /\ Len(requests \o sent) = Len(requests) + Len(sent)
        /\ \A k \in 1 .. Len(requests) + Len(sent) :
            (requests \o sent)[k] = IF k <= Len(requests) THEN requests[k]
                                    ELSE sent[k - Len(requests)]
    BY <1>17, <2>1, ConcatProperties
  <2>3. \A k \in 1 .. Len(requests) : requests'[k] = requests[k]
    BY <1>2, <1>12, <1>13, <1>14, <1>18, <2>1, <2>2
  <2>4. ASSUME NEW k \in 1 .. Len(p) - n + 1
        PROVE  requests'[Len(requests) + k] = p[n + k - 1].write
    <3>1. /\ Len(requests) + k \in 1 .. Len(requests) + Len(sent)
          /\ ~(Len(requests) + k <= Len(requests))
          /\ Len(requests) + k - Len(requests) = k
      <4>1. /\ n \in Int /\ Len(p) \in Int /\ Len(requests) \in Nat
            /\ Len(sent) = Len(p) - n + 1
        BY <1>2, <1>11, <1>12, <1>13, <2>1
      <4> QED
        BY <4>1
    <3>2. requests'[Len(requests) + k] = sent[k]
      BY <1>18, <2>2, <3>1
    <3> QED
      BY <1>16, <3>2 DEF sent
  <2> QED
    BY <1>18, <2>1, <2>2, <2>3, <2>4
<1>20. AnswersFit'
  <2>1. \A x : Applied(x)' <=> Applied(x)
    BY <1>7 DEF Applied
  <2>2. \A k \in 1 .. Len(responses') :
          /\ responses'[k] = "result" => Applied(p[k].write)
          /\ responses'[k] = "error" => p[k].write \in refused
    <3> SUFFICES ASSUME NEW k \in 1 .. Len(responses')
                 PROVE  /\ responses'[k] = "result" => Applied(p[k].write)
                        /\ responses'[k] = "error" => p[k].write \in refused
      OBVIOUS
    <3>1. /\ k \in 1 .. Len(responses) - 1 /\ k + 1 \in 1 .. Len(responses)
          /\ k \in 1 .. n - 1
      BY <1>2, <1>6, <1>12
    <3>2. responses'[k] = responses[k + 1] /\ p[k] = pipeline[k + 1]
      BY <1>3, <1>6, <1>15, <3>1
    <3>3. /\ responses[k + 1] = "result" => Applied(pipeline[k + 1].write)
          /\ responses[k + 1] = "error" => pipeline[k + 1].write \in refused
      BY <1>2, <1>4, <3>1 DEF AnswersFit
    <3> QED
      BY <3>2, <3>3
  <2>3. ASSUME ~Contains(responses', "error")
        PROVE  /\ Len(responses') + Len(requests') = Len(p)
               /\ \A k \in 1 .. Len(requests') :
                    requests'[k] = p[Len(responses') + k].write
    <3>1. ~Contains(responses, "error")
      <4> SUFFICES ASSUME NEW k \in 1 .. Len(responses), responses[k] = "error"
                   PROVE  FALSE
        BY DEF Contains
      <4>1. k # 1
        BY <1>3
      <4>2. k - 1 \in 1 .. Len(responses) - 1
        BY <1>2, <4>1
      <4>3. Tail(responses)[k - 1] = responses[(k - 1) + 1] /\ (k - 1) + 1 = k
        BY <1>3, <4>2
      <4> QED
        BY <1>2, <1>6, <2>3, <4>2, <4>3 DEF Contains
    <3>2. /\ Len(responses) + Len(requests) = n
          /\ \A k \in 1 .. Len(requests) :
                requests[k] = pipeline[Len(responses) + k].write
      BY <1>2, <1>4, <3>1 DEF AnswersFit, n
    <3>3. Len(responses') = Len(responses) - 1
      BY <1>2, <1>6
    <3>4. Len(responses') + Len(requests') = Len(p)
      BY <1>2, <1>12, <1>13, <1>19, <3>2, <3>3
    <3>5. ASSUME NEW k \in 1 .. Len(requests')
          PROVE  requests'[k] = p[Len(responses') + k].write
      <4>1. CASE k <= Len(requests)
        <5>1. /\ k \in 1 .. Len(requests)
              /\ Len(responses') + k \in 1 .. n - 1
              /\ (Len(responses') + k) + 1 = Len(responses) + k
          BY <1>2, <1>3, <1>12, <3>2, <3>3, <4>1
        <5>2. p[Len(responses') + k] = pipeline[Len(responses) + k]
          BY <1>15, <5>1
        <5> QED
          BY <1>19, <3>2, <5>1, <5>2
      <4>2. CASE ~(k <= Len(requests))
        <5> DEFINE j == k - Len(requests)
        <5>1. /\ n \in Int /\ Len(p) \in Int /\ Len(requests) \in Int
              /\ Len(requests') = Len(requests) + (Len(p) - n + 1)
              /\ Len(responses') = n - Len(requests) - 1
          <6>1. n \in Int /\ Len(p) \in Int
            BY <1>11, <1>12, <1>13
          <6>2. Len(responses) + Len(requests) = n
            BY <3>2
          <6> QED
            BY <1>2, <1>19, <3>3, <6>1, <6>2
        <5>2. /\ j \in 1 .. Len(p) - n + 1 /\ k = Len(requests) + j
              /\ n + j - 1 = Len(responses') + k
          BY <4>2, <5>1
        <5> HIDE DEF j
        <5> QED
          BY <1>19, <5>2
      <4> QED
        BY <4>1, <4>2
    <3> QED
      BY <3>4, <3>5
  <2> QED
    BY <1>7, <1>10, <2>1, <2>2, <2>3 DEF AnswersFit
<1> QED
  BY <1>9, <1>20 DEF DeliveryInv

-----------------------------------------------------------------------------
(* The server. *)

\* The log grows by the front of what is under way, which the client has waiting
\* behind the batches that have been answered.
LEMMA ApplyingKeeps ==
    ASSUME QueueInv, WireInv, DeliveryInv, NEW r, NEW n \in 1 .. Len(pipeline),
           r = pipeline[n].write, n \in Nat,
           \A k \in 1 .. n - 1 : Applied(pipeline[k].write),
           NEW e, e = [write |-> r, token |-> user],
           log' = IF \E i \in DOMAIN log : log[i] = e THEN log
                  ELSE Append(log, e),
           UNCHANGED <<queue, tasks, outcome, refused>>
    PROVE  /\ LogAscends' /\ TasksFollow' /\ HonestOutcomes'
           /\ Applied(r)' /\ \A x : Applied(x) => Applied(x)'
<1> DEFINE s == queue[user]
<1>1. /\ QueuesAscend /\ TasksFollow /\ LogAscends /\ HonestOutcomes
      /\ user \in Owner
  BY DEF DeliveryInv, QueueInv, QueueTypes
<1>2. Ascending(s) /\ pipeline = Window(s)
  BY <1>1 DEF QueuesAscend
<1>3. /\ n \in 1 .. Len(s) /\ r = s[n].write /\ Len(s) \in Nat
      /\ \A k \in 1 .. n - 1 : Applied(s[k].write)
  <2>1. /\ Len(pipeline) \in 0 .. Len(s) /\ Len(s) \in Nat
        /\ \A i \in 1 .. Len(pipeline) : pipeline[i] = s[i]
    BY <1>2, WindowIs
  <2>2. \A k \in 1 .. n - 1 : k \in 1 .. Len(pipeline)
    BY <2>1
  <2> QED
    BY <2>1, <2>2
<1>4. /\ Len(log) \in Nat /\ DOMAIN log = 1 .. Len(log)
      /\ \A i \in 1 .. Len(log) : log[i] \in [write : Nat, token : Owner]
  BY <1>1, WritesAreNumbers
<1> HIDE DEF s
<1>5. CASE \E i \in DOMAIN log : log[i] = e
  <2>1. log' = log
    BY <1>5
  <2>2. Applied(r)
    BY <1>4, <1>5 DEF Applied
  <2>3. \A x : Applied(x)' <=> Applied(x)
    BY <2>1 DEF Applied
  <2>4. LogAscends'
    BY <1>1, <2>1 DEF LogAscends, Behind, Applied
  <2>5. TasksFollow'
    BY <1>1, <2>1 DEF TasksFollow
  <2>6. HonestOutcomes'
    BY <1>1, <2>1 DEF HonestOutcomes
  <2> QED
    BY <2>2, <2>3, <2>4, <2>5, <2>6
<1>6. CASE ~(\E i \in DOMAIN log : log[i] = e)
  <2>1. log' = Append(log, e) /\ log \in Seq([write : Nat, token : Owner])
    BY <1>6 DEF WireInv, OwnLog
  <2>2. e \in [write : Nat, token : Owner] /\ e.write = r /\ e.token = user
    <3>1. r \in Nat
      BY <1>2, <1>3, IdsAscend
    <3> QED
      BY <1>1, <3>1
  <2>3. /\ Len(log') = Len(log) + 1 /\ log'[Len(log) + 1] = e
        /\ \A i \in 1 .. Len(log) : log'[i] = log[i]
        /\ DOMAIN log' = 1 .. Len(log) + 1
    <3> DEFINE t == Append(log, e)
    <3>1. /\ Len(t) = Len(log) + 1 /\ t[Len(log) + 1] = e
          /\ \A i \in 1 .. Len(log) : t[i] = log[i]
          /\ t \in Seq([write : Nat, token : Owner])
      BY <2>1, <2>2, AppendProperties
    <3>2. DOMAIN t = 1 .. Len(t)
      BY <3>1, LenProperties
    <3> HIDE DEF t
    <3> QED
      BY <2>1, <3>1, <3>2 DEF t
  <2>4. ~Applied(r)
    <3> SUFFICES ASSUME NEW i \in 1 .. Len(log), log[i].write = r
                 PROVE  FALSE
      BY DEF Applied
    <3>1. /\ author[r] = log[i].token
      BY DEF WireInv, OwnLog, Issued
    <3>2. author[r] = user
      BY <1>1, <1>3, WritesIssued DEF Issued, s
    <3>3. log[i] = e
      BY <1>4, <3>1, <3>2
    <3> QED
      BY <1>4, <1>6, <3>3
  <2>5. \A x : Applied(x)' <=> Applied(x) \/ x = r
    <3> SUFFICES ASSUME NEW x
                 PROVE  Applied(x)' <=> Applied(x) \/ x = r
      OBVIOUS
    <3>1. ASSUME Applied(x)'
          PROVE  Applied(x) \/ x = r
      <4>1. PICK i \in 1 .. Len(log) + 1 : log'[i].write = x
        BY <2>3, <3>1 DEF Applied
      <4>2. CASE i = Len(log) + 1
        BY <2>2, <2>3, <4>1, <4>2
      <4>3. CASE i # Len(log) + 1
        <5>1. i \in 1 .. Len(log) /\ log[i].write = x
          BY <1>4, <2>3, <4>1, <4>3
        <5> QED
          BY <5>1 DEF Applied
      <4> QED
        BY <4>2, <4>3
    <3>2. ASSUME Applied(x)
          PROVE  Applied(x)'
      <4>1. PICK i \in 1 .. Len(log) : log[i].write = x
        BY <3>2 DEF Applied
      <4>2. i \in 1 .. Len(log') /\ log'[i].write = x
        BY <1>4, <2>3, <4>1
      <4> QED
        BY <4>2 DEF Applied
    <3>3. ASSUME x = r
          PROVE  Applied(x)'
      <4>1. Len(log) + 1 \in 1 .. Len(log') /\ log'[Len(log) + 1].write = x
        BY <1>4, <2>2, <2>3, <3>3
      <4> QED
        BY <4>1 DEF Applied
    <3> QED
      BY <3>1, <3>2, <3>3
  <2>6. Behind(s, user)
    BY <1>1 DEF LogAscends, s
  <2>7. \A i, j \in 1 .. Len(log') :
          i < j /\ log'[i].token = log'[j].token => log'[i].write < log'[j].write
    <3> SUFFICES ASSUME NEW i \in 1 .. Len(log'), NEW j \in 1 .. Len(log'),
                        i < j, log'[i].token = log'[j].token
                 PROVE  log'[i].write < log'[j].write
      OBVIOUS
    <3>1. i \in 1 .. Len(log) /\ log'[i] = log[i]
      BY <1>4, <2>3
    <3>2. CASE j = Len(log) + 1
      <4>1. log[i].token = user /\ log'[j].write = r
        BY <2>2, <2>3, <3>1, <3>2
      <4>2. log[i].write < s[n].write \/ Applied(s[n].write)
        BY <1>3, <2>6, <3>1, <4>1 DEF Behind
      <4> QED
        BY <1>3, <2>4, <3>1, <4>1, <4>2
    <3>3. CASE j # Len(log) + 1
      <4>1. j \in 1 .. Len(log) /\ log'[j] = log[j]
        BY <1>4, <2>3, <3>3
      <4> QED
        BY <1>1, <3>1, <4>1 DEF LogAscends
    <3> QED
      BY <3>2, <3>3
  <2>8. ASSUME NEW u \in Owner, NEW i \in 1 .. Len(log'), log'[i].token = u,
               NEW k \in 1 .. Len(queue[u])
        PROVE  log'[i].write < queue[u][k].write \/ Applied(queue[u][k].write)'
    <3>1. CASE i = Len(log) + 1
      <4>1. u = user /\ log'[i].write = s[n].write /\ k \in 1 .. Len(s)
        BY <1>3, <2>2, <2>3, <2>8, <3>1 DEF s
      <4>2. CASE k < n
        <5>1. k \in 1 .. n - 1
          BY <1>3, <4>1, <4>2
        <5>2. Applied(s[k].write)
          BY <1>3, <5>1
        <5> QED
          BY <2>5, <4>1, <5>2 DEF s
      <4>3. CASE k = n
        BY <1>3, <2>5, <4>1, <4>3 DEF s
      <4>4. CASE n < k
        <5>1. s[n].write < s[k].write
          BY <1>2, <1>3, <4>1, <4>4, IdsAscend
        <5> QED
          BY <4>1, <5>1 DEF s
      <4> QED
        BY <1>3, <4>1, <4>2, <4>3, <4>4
    <3>2. CASE i # Len(log) + 1
      <4>1. i \in 1 .. Len(log) /\ log'[i] = log[i]
        BY <1>4, <2>3, <3>2
      <4>2. log[i].write < queue[u][k].write \/ Applied(queue[u][k].write)
        BY <1>1, <2>8, <4>1 DEF LogAscends, Behind
      <4> QED
        BY <2>5, <4>1, <4>2
    <3> QED
      BY <3>1, <3>2
  <2>9. LogAscends'
    <3>1. \A u \in Owner : Behind(queue[u], u)'
      BY <2>8 DEF Behind
    <3> QED
      BY <2>7, <3>1 DEF LogAscends
  <2>10. TasksFollow'
    <3>1. Precedes(r, tasks)
      BY <1>1, <1>3 DEF TasksFollow, s
    <3>2. ASSUME NEW i \in 1 .. Len(log')
          PROVE  Precedes(log'[i].write, tasks)
      <4>1. CASE i = Len(log) + 1
        BY <2>2, <2>3, <3>1, <4>1
      <4>2. CASE i # Len(log) + 1
        <5>1. i \in 1 .. Len(log) /\ log'[i] = log[i]
          BY <1>4, <2>3, <4>2
        <5> QED
          BY <1>1, <5>1 DEF TasksFollow
      <4> QED
        BY <4>1, <4>2
    <3> QED
      BY <1>1, <3>2 DEF TasksFollow
  <2>11. HonestOutcomes'
    <3> SUFFICES ASSUME NEW w \in Write
                 PROVE  /\ outcome[w] = "applied" =>
                            \E i \in DOMAIN log' : log'[i].write = w
                        /\ outcome[w] = "rejected" => w \in refused
      BY DEF HonestOutcomes
    <3>1. outcome[w] = "applied" => Applied(w)
      BY <1>1, <1>4 DEF HonestOutcomes, Applied
    <3>2. Applied(w)' => \E i \in DOMAIN log' : log'[i].write = w
      BY <2>3 DEF Applied
    <3> QED
      BY <1>1, <2>5, <3>1, <3>2 DEF HonestOutcomes
  <2> QED
    BY <2>5, <2>9, <2>10, <2>11
<1> QED
  BY <1>5, <1>6

LEMMA ServerHandlesKeeps ==
    ASSUME QueueInv, WireInv, DeliveryInv, ServerHandles
    PROVE  DeliveryInv'
<1> DEFINE r == Head(requests)
           e == [write |-> r, token |-> user]
           n == Len(responses) + 1
<1>1. /\ requests # <<>> /\ ~Contains(responses, "error")
      /\ UNCHANGED <<queue, nextId, callbacks, user, pipeline, refused, outcome,
                     bounds, handshake, tasks>>
      /\ QueuesAscend /\ CallbacksWait /\ TasksFollow /\ LogAscends
      /\ AnswersFit /\ HonestOutcomes
      /\ refused \subseteq Write /\ handshake \in BOOLEAN
  BY DEF ServerHandles, local, DeliveryInv, WireInv, OwnStream
<1>2. QueuesAscend' /\ CallbacksWait'
  BY <1>1 DEF QueuesAscend, CallbacksWait
<1>3. stream = "Open" /\ token = user
  BY <1>1 DEF WireInv, OwnStream
<1>4. ASSUME UNCHANGED log
      PROVE  TasksFollow' /\ LogAscends' /\ HonestOutcomes'
  <2>1. TasksFollow' /\ HonestOutcomes'
    BY <1>1, <1>4 DEF TasksFollow, HonestOutcomes
  <2>2. LogAscends'
    BY <1>1, <1>4 DEF LogAscends, Behind, Applied
  <2> QED
    BY <2>1, <2>2
<1>5. CASE ~handshake
  <2>1. requests = <<Handshake>>
    BY <1>1, <1>3, <1>5 DEF WireInv, OwnStream
  <2>2. r = 0
    BY <2>1 DEF Handshake
  <2>3. r \notin Write
    BY <2>2 DEF Write
  <2>4. log' = log
    BY <1>1, <2>3 DEF ServerHandles
  <2>5. AnswersFit'
    BY <1>1, <1>5 DEF AnswersFit
  <2> QED
    BY <1>2, <1>4, <2>4, <2>5 DEF DeliveryInv
<1>6. CASE handshake
  <2>1. /\ requests \in Seq(Issued(author, user))
        /\ responses \in Seq({"result", "error"})
        /\ Len(requests) + Len(responses) = Len(pipeline)
        /\ \A k \in 1 .. Len(requests) :
                requests[k] = pipeline[Len(responses) + k].write
    BY <1>1, <1>6 DEF WireInv, OwnStream, AnswersFit
  <2>2. /\ Len(requests) \in Nat /\ Len(requests) >= 1
        /\ Len(responses) \in Nat /\ Len(pipeline) \in Nat
        /\ r = requests[1] /\ r \in Issued(author, user)
        /\ Tail(requests) \in Seq(Issued(author, user))
        /\ Len(Tail(requests)) = Len(requests) - 1
        /\ \A k \in 1 .. Len(requests) - 1 : Tail(requests)[k] = requests[k + 1]
    <3>1. Len(requests) \in Nat /\ Len(responses) \in Nat /\ Len(requests) # 0
      BY <1>1, <2>1, LenProperties, EmptySeq
    <3>2. Len(pipeline) \in Nat
      BY <2>1, <3>1
    <3>3. r = requests[1] /\ r \in Issued(author, user)
      BY <2>1, <3>1, ElementOfSeq
    <3> QED
      BY <1>1, <2>1, <3>1, <3>2, <3>3, HeadTailProperties
  <2>3. /\ n \in Nat /\ n \in 1 .. Len(pipeline) /\ r = pipeline[n].write
    BY <2>1, <2>2
  <2>4. \A k \in 1 .. n - 1 : Applied(pipeline[k].write)
    <3> SUFFICES ASSUME NEW k \in 1 .. n - 1
                 PROVE  Applied(pipeline[k].write)
      OBVIOUS
    <3>1. k \in 1 .. Len(responses)
      BY <2>2
    <3>2. responses[k] \in {"result", "error"} /\ responses[k] # "error"
      BY <1>1, <2>1, <3>1, ElementOfSeq DEF Contains
    <3> QED
      BY <1>1, <1>6, <3>1, <3>2 DEF AnswersFit
  <2>5. r # Handshake
    <3>1. Len(author) \in Nat
      BY LenProperties DEF QueueInv, QueueTypes
    <3> QED
      BY <2>2, <3>1 DEF Issued, Handshake
  <2>6. \/ /\ log' = IF \E i \in DOMAIN log : log[i] = e THEN log
                     ELSE Append(log, e)
           /\ responses' = Append(responses, "result")
           /\ requests' = Tail(requests)
        \/ /\ r \in refused
           /\ responses' = Append(responses, "error")
           /\ log' = log
    BY <1>3, <2>5 DEF ServerHandles
  <2>7. PICK w, m, f : w = r /\ m = n /\ f = e
    OBVIOUS
  <2>8. /\ m \in Nat /\ m \in 1 .. Len(pipeline) /\ w = pipeline[m].write
        /\ \A k \in 1 .. m - 1 : Applied(pipeline[k].write)
        /\ f = [write |-> w, token |-> user] /\ m = Len(responses) + 1
    BY <2>3, <2>4, <2>7
  <2>9. \/ /\ log' = IF \E i \in DOMAIN log : log[i] = f THEN log
                     ELSE Append(log, f)
           /\ responses' = Append(responses, "result")
           /\ requests' = Tail(requests)
        \/ /\ w \in refused
           /\ responses' = Append(responses, "error")
           /\ log' = log
    BY <2>6, <2>7
  <2> HIDE DEF r, n, e
  <2>10. CASE /\ log' = IF \E i \in DOMAIN log : log[i] = f THEN log
                        ELSE Append(log, f)
              /\ responses' = Append(responses, "result")
              /\ requests' = Tail(requests)
    <3>1. /\ LogAscends' /\ TasksFollow' /\ HonestOutcomes'
          /\ Applied(w)' /\ \A x : Applied(x) => Applied(x)'
      BY <1>1, <2>8, <2>10, ApplyingKeeps
    <3>2. /\ Len(responses') = m /\ responses'[m] = "result"
          /\ \A k \in 1 .. m - 1 : responses'[k] = responses[k]
      BY <2>1, <2>2, <2>8, <2>10, AppendProperties
    <3>3. \A k \in 1 .. Len(responses') :
            /\ responses'[k] = "result" => Applied(pipeline[k].write)'
            /\ responses'[k] = "error" => pipeline[k].write \in refused
      <4> SUFFICES ASSUME NEW k \in 1 .. m
                   PROVE  Applied(pipeline[k].write)' /\ responses'[k] = "result"
        BY <3>2
      <4>1. CASE k = m
        <5>1. Applied(pipeline[m].write)'
          BY <1>1, <2>8, <3>1 DEF Applied
        <5> QED
          BY <3>2, <4>1, <5>1
      <4>2. CASE k # m
        <5>1. k \in 1 .. m - 1 /\ k \in 1 .. Len(responses)
          BY <2>2, <2>8, <4>2
        <5>2. responses[k] \in {"result", "error"} /\ responses[k] # "error"
          BY <1>1, <2>1, <5>1, ElementOfSeq DEF Contains
        <5>3. Applied(pipeline[k].write)'
          BY <1>1, <2>8, <3>1, <5>1
        <5> QED
          BY <3>2, <5>1, <5>2, <5>3
      <4> QED
        BY <4>1, <4>2
    <3>4. Len(responses') + Len(requests') = Len(pipeline)
      BY <2>1, <2>2, <2>8, <2>10, <3>2
    <3>5. ASSUME NEW k \in 1 .. Len(requests')
          PROVE  requests'[k] = pipeline[Len(responses') + k].write
      <4>1. /\ k \in 1 .. Len(requests) - 1 /\ k + 1 \in 1 .. Len(requests)
            /\ Len(responses) + (k + 1) = Len(responses') + k
        BY <2>2, <2>8, <2>10, <3>2
      <4>2. requests'[k] = requests[k + 1]
        BY <2>2, <2>10, <4>1
      <4> QED
        BY <2>1, <4>1, <4>2
    <3>6. AnswersFit'
      BY <1>1, <3>3, <3>4, <3>5 DEF AnswersFit
    <3> QED
      BY <1>2, <3>1, <3>6 DEF DeliveryInv
  <2>11. CASE /\ w \in refused
              /\ responses' = Append(responses, "error")
              /\ log' = log
    <3>1. /\ Len(responses') = m /\ responses'[m] = "error"
          /\ \A k \in 1 .. m - 1 : responses'[k] = responses[k]
      BY <2>1, <2>2, <2>8, <2>11, AppendProperties
    <3>2. \A x : Applied(x)' <=> Applied(x)
      BY <2>11 DEF Applied
    <3>3. \A k \in 1 .. Len(responses') :
            /\ responses'[k] = "result" => Applied(pipeline[k].write)
            /\ responses'[k] = "error" => pipeline[k].write \in refused
      <4> SUFFICES ASSUME NEW k \in 1 .. m
                   PROVE  /\ responses'[k] = "result"
                                => Applied(pipeline[k].write)
                          /\ responses'[k] = "error"
                                => pipeline[k].write \in refused
        BY <3>1
      <4>1. CASE k = m
        BY <2>8, <2>11, <3>1, <4>1
      <4>2. CASE k # m
        <5>1. k \in 1 .. m - 1 /\ k \in 1 .. Len(responses)
          BY <2>2, <2>8, <4>2
        <5>2. responses'[k] # "error"
          BY <1>1, <3>1, <5>1 DEF Contains
        <5> QED
          BY <2>8, <5>1, <5>2
      <4> QED
        BY <4>1, <4>2
    <3>4. Contains(responses', "error")
      <4>1. m \in 1 .. Len(responses')
        BY <2>8, <3>1
      <4> QED
        BY <3>1, <4>1 DEF Contains
    <3>5. AnswersFit'
      BY <1>1, <3>2, <3>3, <3>4 DEF AnswersFit
    <3> QED
      BY <1>2, <1>4, <2>11, <3>5 DEF DeliveryInv
  <2> QED
    BY <2>9, <2>10, <2>11
<1> QED
  BY <1>1, <1>5, <1>6

-----------------------------------------------------------------------------
(* The invariant and what follows from it. *)

LEMMA DeliveryStep ==
    ASSUME QueueInv, WireInv, DeliveryInv, [Next]_vars
    PROVE  DeliveryInv'
<1>1. CASE RunTask
  <2>1. CASE Head(tasks).op = "write" /\ WriteMutations(Head(tasks).write)
    BY <1>1, <2>1, WriteMutationsKeeps
  <2>2. CASE Head(tasks).op = "user" /\ HandleCredentialChange(Head(tasks).user)
    BY <1>1, <2>2, CredentialChangeKeeps
  <2>3. CASE /\ Head(tasks).op = "token"
             /\ ResumeStartWithCredentials(Head(tasks).user)
    BY <1>1, <2>3, OtherSteps
  <2>4. CASE Head(tasks).op = "void" /\ Dropped
    BY <1>1, <2>4, OtherSteps
  <2> QED
    BY <1>1, <2>1, <2>2, <2>3, <2>4 DEF RunTask
<1>2. CASE OnStreamRead
  BY <1>2, HandshakeCompleteKeeps, MutationResultKeeps, WriteRejectedKeeps
     DEF OnStreamRead
<1> QED
  BY <1>1, <1>2, OtherSteps, SetDocumentKeeps, ServerHandlesKeeps, CrashKeeps
     DEF Next

\* The inductive invariant of the writes.
WritesInv == QueueInv /\ WireInv /\ StreamFits /\ DeliveryInv

\* Queues, wire, stream and deliveries fit together in every state of the client
\* (SyncEngine, LocalStore and RemoteStore on the worker queue, the credentials
\* provider on the main queue, and the server).
THEOREM WritesInvariant == Spec => []WritesInv
<1>1. Init => WritesInv
  BY InitQueues, InitWire, InitDelivery DEF WritesInv
<1>2. WritesInv /\ [Next]_vars => WritesInv'
  BY QueueStep, WireStep, FitsStep, DeliveryStep DEF WritesInv
<1> QED
  BY <1>1, <1>2, PTL DEF Spec

-----------------------------------------------------------------------------

LEMMA LogInIssueOrder ==
    ASSUME WireInv, DeliveryInv
    PROVE  InIssueOrder
<1>1. /\ DOMAIN log = 1 .. Len(log)
      /\ \A i \in 1 .. Len(log) : author[log[i].write] = log[i].token
  BY LenProperties DEF WireInv, OwnLog, Issued
<1>2. \A i, j \in 1 .. Len(log) :
        i < j /\ log[i].token = log[j].token => log[i].write < log[j].write
  BY DEF DeliveryInv, LogAscends
<1> QED
  BY <1>1, <1>2 DEF InIssueOrder

\* The writes of a user are first applied in the order they were issued, however
\* often the pipeline is sent again, swapped for another user's (RemoteStore::
\* HandleCredentialChange) or filled anew after a restart (FillWritePipeline).
THEOREM WritesInIssueOrder == Spec => []InIssueOrder
<1>1. WritesInv => InIssueOrder
  BY LogInIssueOrder DEF WritesInv
<1> QED
  BY <1>1, WritesInvariant, PTL

\* A future ends with what became of its own write, although a result carries no
\* name and is taken for the front of the pipeline (RemoteStore::OnMutationResult,
\* HandleWriteError), and SyncEngine::NotifyUser finds the callback by an id that
\* LoadNextBatchIdFromDb gives out again.
THEOREM OutcomesAreHonest == Spec => []HonestOutcomes
<1>1. WritesInv => HonestOutcomes
  BY DEF WritesInv, DeliveryInv
<1> QED
  BY <1>1, WritesInvariant, PTL

-----------------------------------------------------------------------------

LEMMA TokensIs ==
    ASSUME NEW S, NEW s \in Seq(S), OneToken(s)
    PROVE  Tokens(s) = IF HasToken(s) THEN 1 ELSE 0
<1>1. DOMAIN s = 1 .. Len(s)
  BY LenProperties
<1> DEFINE T == {i \in DOMAIN s : s[i].op = "token"}
<1>2. CASE HasToken(s)
  <2>1. PICK i \in 1 .. Len(s) : s[i].op = "token"
    BY <1>2 DEF HasToken
  <2>2. T = {i}
    BY <1>1, <2>1 DEF OneToken
  <2>3. Cardinality(T) = 1
    BY <2>2, FS_Singleton
  <2> QED
    BY <1>2, <2>3 DEF Tokens
<1>3. CASE ~HasToken(s)
  <2>1. T = {}
    BY <1>1, <1>3 DEF HasToken
  <2>2. Cardinality(T) = 0
    BY <2>1, FS_EmptySet
  <2> QED
    BY <1>3, <2>2 DEF Tokens
<1> QED
  BY <1>2, <1>3

LEMMA PipelineGoesOn ==
    ASSUME WritesInv
    PROVE  NoWriteLeftBehind
<1>1. pipeline = SubSeq(queue[user], 1,
                        Smaller(kMaxPendingWrites, Len(queue[user])))
  BY DEF WritesInv, DeliveryInv, QueuesAscend, Window
<1>2. /\ pipeline # <<>> => stream \in {"Starting", "Open", "Backoff"}
      /\ idle => pipeline = <<>>
      /\ stream = "Starting" => asked # {} \/ HasToken(main) \/ HasToken(tasks)
  BY DEF WritesInv, StreamFits
<1>3. /\ Tokens(main) = IF HasToken(main) THEN 1 ELSE 0
      /\ Tokens(tasks) = IF HasToken(tasks) THEN 1 ELSE 0
  BY TokensIs DEF WritesInv, QueueInv, QueueTypes, TokenOnce
<1>4. Cardinality(asked) = IF asked = {} THEN 0 ELSE 1
  <2>1. CASE asked = {}
    BY <2>1, FS_EmptySet
  <2>2. CASE asked # {}
    <3>1. PICK r \in asked : TRUE
      BY <2>2
    <3>2. asked = {r}
      BY <3>1 DEF WritesInv, QueueInv, TokenOnce
    <3>3. Cardinality(asked) = 1
      BY <3>2, FS_Singleton
    <3> QED
      BY <2>2, <3>3
  <2> QED
    BY <2>1, <2>2
<1>5. /\ asked # {} => ~HasToken(main) /\ ~HasToken(tasks)
      /\ HasToken(main) => ~HasToken(tasks)
      /\ asked # {} \/ HasToken(main) \/ HasToken(tasks) => stream = "Starting"
  BY DEF WritesInv, QueueInv, TokenOnce
<1>6. Cardinality(asked) + Tokens(main) + Tokens(tasks)
        = (IF stream = "Starting" THEN 1 ELSE 0)
  BY <1>2, <1>3, <1>4, <1>5
<1> QED
  BY <1>1, <1>2, <1>6 DEF NoWriteLeftBehind

\* The pipeline is the front of the user's queue after every handler of the
\* worker queue, a stream is on its way for it, and one that starts waits for
\* exactly one token: no queued write is forgotten, and no stream hangs without
\* its token or gets two (RemoteStore::FillWritePipeline, Stream::Start and its close count).
THEOREM NoWriteIsLeftBehind == Spec => []NoWriteLeftBehind
<1> QED
  BY PipelineGoesOn, WritesInvariant, PTL

-----------------------------------------------------------------------------

\* Only the front of the user's queue leaves it, with its outcome.
LEMMA FinishIsDurable ==
    ASSUME WireInv, DeliveryInv, user \in Owner, pipeline # <<>>,
           NEW result, result # "none", Finish(Head(pipeline), result),
           Applied(pipeline[1].write) \/ pipeline[1].write \in refused
    PROVE  Durable
<1> DEFINE s == queue[user]
           t == Tail(s)
<1> SUFFICES ASSUME NEW w \in Write, Queued(w), ~Queued(w)'
             PROVE  /\ w \in refused \/ \E i \in DOMAIN log : log[i].write = w
                    /\ bounds.crashes = 0 => outcome'[w] # "none"
  BY DEF Durable
<1>1. QueuesAscend /\ CallbacksWait
  BY DEF DeliveryInv
<1>2. /\ s # <<>> /\ Head(pipeline) = s[1] /\ pipeline[1] = s[1]
      /\ 1 \in 1 .. Len(s) /\ queue'[user] = t
      /\ \A u \in Owner \ {user} : queue'[u] = queue[u]
  BY <1>1, FinishTakesFront
<1>3. /\ Ascending(s) /\ Len(s) \in Nat /\ Len(s) >= 1 /\ Len(t) = Len(s) - 1
      /\ \A i \in 1 .. Len(s) - 1 : t[i] = s[i + 1]
      /\ DOMAIN s = 1 .. Len(s) /\ DOMAIN t = 1 .. Len(t)
  <2>1. Ascending(s)
    BY <1>1 DEF QueuesAscend
  <2>2. /\ Ascending(t) /\ Len(s) \in Nat /\ Len(s) >= 1 /\ Len(t) = Len(s) - 1
        /\ \A i \in 1 .. Len(s) - 1 : t[i] = s[i + 1]
    BY <1>2, <2>1, AscendingTail
  <2> HIDE DEF t, s
  <2> QED
    BY <2>1, <2>2, LenProperties DEF Ascending
<1> HIDE DEF s, t
<1>4. w = s[1].write
  <2>1. PICK u \in Owner : \E i \in DOMAIN queue[u] : queue[u][i].write = w
    BY DEF Queued
  <2>2. ~(\E i \in DOMAIN queue'[u] : queue'[u][i].write = w)
    BY DEF Queued
  <2>3. u = user
    BY <1>2, <2>1, <2>2
  <2>4. PICK i \in 1 .. Len(s) : s[i].write = w
    BY <1>3, <2>1, <2>3 DEF s
  <2>5. ~(\E k \in 1 .. Len(t) : t[k].write = w)
    BY <1>2, <1>3, <2>2, <2>3
  <2>6. i = 1
    <3> SUFFICES ASSUME i # 1
                 PROVE  FALSE
      OBVIOUS
    <3>1. i - 1 \in 1 .. Len(t) /\ i - 1 \in 1 .. Len(s) - 1 /\ (i - 1) + 1 = i
      BY <1>3
    <3>2. t[i - 1] = s[i]
      BY <1>3, <3>1
    <3> QED
      BY <2>4, <2>5, <3>1, <3>2
  <2> QED
    BY <2>4, <2>6
<1>5. w \in refused \/ \E i \in DOMAIN log : log[i].write = w
  BY <1>1, <1>2, <1>4, WritesAreNumbers DEF Applied
<1>6. ASSUME bounds.crashes = 0
      PROVE  outcome'[w] # "none"
  <2>1. s[1] \in callbacks[user]
    BY <1>1, <1>2, <1>3, <1>6 DEF CallbacksWait, ToSet, s
  <2>2. s[1] = [id |-> s[1].id, write |-> w]
    <3>1. s[1] \in Batch
      BY <1>2, <1>3, IdsAscend
    <3> QED
      BY <1>4, <3>1 DEF Batch
  <2>3. outcome'[w] = result
    BY <1>2, <2>1, <2>2 DEF Finish
  <2> QED
    BY <2>3
<1> QED
  BY <1>5, <1>6

LEMMA DurableStep ==
    ASSUME WritesInv, [Next]_vars
    PROVE  Durable
<1>1. /\ QueueInv /\ WireInv /\ DeliveryInv /\ AnswersFit /\ user \in Owner
  BY DEF WritesInv, DeliveryInv, QueueInv, QueueTypes
<1>2. ASSUME queue' = queue
      PROVE  Durable
  BY <1>2 DEF Durable, Queued
<1>3. ASSUME RunTask, NEW w, WriteMutations(w)
      PROVE  Durable
  <2> DEFINE b == [id |-> nextId, write |-> w]
             s == queue[user]
             q == Append(s, b)
  <2>1. queue' = [queue EXCEPT ![user] = q] /\ DOMAIN queue = Owner
    BY <1>1, <1>3 DEF WriteMutations, WireInv, OwnBatches
  <2>2. /\ Len(s) \in Nat /\ DOMAIN s = 1 .. Len(s)
        /\ DOMAIN q = 1 .. Len(s) + 1
        /\ \A i \in 1 .. Len(s) : q[i] = s[i]
    <3>1. Len(s) \in Nat /\ DOMAIN s = 1 .. Len(s)
      BY <1>1, BatchesAre DEF WireInv, OwnBatches
    <3>2. q = [i \in 1 .. Len(s) + 1 |-> IF i = Len(s) + 1 THEN b ELSE s[i]]
      BY <3>1
    <3> QED
      BY <3>1, <3>2
  <2>3. ASSUME NEW x, Queued(x)
        PROVE  Queued(x)'
    <3>1. PICK u \in Owner : \E i \in DOMAIN queue[u] : queue[u][i].write = x
      BY <2>3 DEF Queued
    <3> HIDE DEF q
    <3>2. CASE u = user
      <4>1. PICK i \in 1 .. Len(s) : s[i].write = x
        BY <2>2, <3>1, <3>2
      <4>2. i \in DOMAIN q /\ q[i].write = x
        BY <2>2, <4>1
      <4>3. queue'[u] = q /\ u \in Owner
        BY <2>1, <3>1, <3>2
      <4> QED
        BY <4>2, <4>3 DEF Queued
    <3>3. CASE u # user
      <4>1. queue'[u] = queue[u]
        BY <2>1, <3>3
      <4> QED
        BY <3>1, <4>1 DEF Queued
    <3> QED
      BY <3>2, <3>3
  <2> QED
    BY <2>3 DEF Durable
<1>4. ASSUME OnStreamRead, Head(responses) \in {"result", "error"}
      PROVE  /\ pipeline # <<>> /\ user \in Owner
             /\ Head(responses) = "result" => Applied(pipeline[1].write)
             /\ Head(responses) = "error" => pipeline[1].write \in refused
  <2>1. responses # <<>>
    BY <1>4 DEF OnStreamRead
  <2>2. /\ handshake /\ pipeline # <<>> /\ Len(responses) \in Nat
        /\ responses \in Seq({"result", "error"})
    BY <1>1, <1>4, <2>1, ReadsAnAnswer
  <2>3. responses[1] = Head(responses) /\ 1 \in 1 .. Len(responses)
    BY <2>1, <2>2, EmptySeq
  <2> QED
    BY <1>1, <2>2, <2>3 DEF AnswersFit
<1>5. CASE OnStreamRead
  <2>1. CASE Head(responses) = "result" /\ OnMutationResult
    BY <1>1, <1>4, <1>5, <2>1, FinishIsDurable DEF OnMutationResult
  <2>2. CASE Head(responses) = "error" /\ OnWriteRejected
    BY <1>1, <1>4, <1>5, <2>2, FinishIsDurable DEF OnWriteRejected
  <2>3. CASE OnHandshakeComplete
    BY <1>2, <2>3 DEF OnHandshakeComplete, local
  <2> QED
    BY <1>5, <2>1, <2>2, <2>3 DEF OnStreamRead
<1>6. CASE RunTask
  BY <1>2, <1>3, <1>6
     DEF RunTask, HandleCredentialChange, ResumeStartWithCredentials, Dropped,
         local
<1>7. ASSUME NEW u \in Owner, UserChanges(u)
      PROVE  queue' = queue
  BY <1>7 DEF UserChanges, local
<1>8. ASSUME NEW r \in asked, TokenRead(r) \/ TokenComes(r)
      PROVE  queue' = queue
  BY <1>8, TokenMoves DEF local
<1>9. CASE MainQueue \/ SetDocument \/ TryRestarting \/ OnWriteStreamClose
  BY <1>2, <1>9
     DEF MainQueue, SetDocument, TryRestarting, OnWriteStreamClose, local
<1>10. CASE IdleTimeout \/ ServerHandles \/ Crash \/ UNCHANGED vars
  BY <1>2, <1>10 DEF IdleTimeout, ServerHandles, Crash, vars, local
<1> QED
  BY <1>2, <1>5, <1>6, <1>7, <1>8, <1>9, <1>10 DEF Next

\* A queued write leaves its queue only when the server has applied or refused it,
\* and its future ends with that step unless the application was killed
\* (LocalStore::AcknowledgeBatch and RejectBatch, SyncEngine::NotifyUser).
THEOREM WritesStayDurable == Spec => WritesAreDurable
<1>1. WritesInv /\ [Next]_vars => [Durable]_vars
  BY DurableStep
<1> QED
  BY <1>1, WritesInvariant, PTL DEF Spec, WritesAreDurable

-----------------------------------------------------------------------------
(* The promise to the application. *)

\* A future has ended only for a write that was issued, has left its queue and
\* comes before all that is yet to be queued.
Decisions ==
    /\ Len(author) <= MaxWrites
    /\ outcome \in [Write -> {"none", "applied", "rejected"}]
    /\ \A w \in Write : outcome[w] # "none" =>
            w <= Len(author) /\ ~Queued(w) /\ Precedes(w, tasks)

\* Which writes are queued after one more was.
LEMMA QueuedMore ==
    ASSUME WireInv, QueuesAscend, user \in Owner, NEW w, WriteMutations(w)
    PROVE  \A x : Queued(x)' <=> Queued(x) \/ x = w
<1> DEFINE b == [id |-> nextId, write |-> w]
           s == queue[user]
           q == Append(s, b)
<1>1. queue' = [queue EXCEPT ![user] = q] /\ DOMAIN queue = Owner
  BY DEF WriteMutations, WireInv, OwnBatches
<1>2. /\ queue'[user] = q /\ DOMAIN queue' = Owner
      /\ \A u \in Owner \ {user} : queue'[u] = queue[u]
  BY <1>1
<1>3. /\ Len(s) \in Nat /\ DOMAIN s = 1 .. Len(s)
      /\ DOMAIN q = 1 .. Len(s) + 1 /\ q[Len(s) + 1] = b
      /\ \A i \in 1 .. Len(s) : q[i] = s[i]
  <2>1. Len(s) \in Nat /\ DOMAIN s = 1 .. Len(s)
    BY BatchesAre DEF WireInv, OwnBatches
  <2>2. q = [i \in 1 .. Len(s) + 1 |-> IF i = Len(s) + 1 THEN b ELSE s[i]]
    BY <2>1
  <2> QED
    BY <2>1, <2>2
<1>4. b.write = w
  OBVIOUS
<1> HIDE DEF q, b
<1>5. ASSUME NEW x, Queued(x)'
      PROVE  Queued(x) \/ x = w
  <2>1. PICK u \in Owner : \E i \in DOMAIN queue'[u] : queue'[u][i].write = x
    BY <1>5 DEF Queued
  <2>2. CASE u = user
    <3>1. PICK i \in 1 .. Len(s) + 1 : q[i].write = x
      BY <1>2, <1>3, <2>1, <2>2
    <3>2. CASE i = Len(s) + 1
      BY <1>3, <1>4, <3>1, <3>2
    <3>3. CASE i # Len(s) + 1
      <4>1. i \in DOMAIN s /\ s[i].write = x
        BY <1>3, <3>1, <3>3
      <4> QED
        BY <2>2, <4>1 DEF Queued
    <3> QED
      BY <3>2, <3>3
  <2>3. CASE u # user
    <3>1. queue'[u] = queue[u]
      BY <1>2, <2>3
    <3> QED
      BY <2>1, <3>1 DEF Queued
  <2> QED
    BY <2>2, <2>3
<1>6. ASSUME NEW x, Queued(x)
      PROVE  Queued(x)'
  <2>1. PICK u \in Owner : \E i \in DOMAIN queue[u] : queue[u][i].write = x
    BY <1>6 DEF Queued
  <2>2. CASE u = user
    <3>1. PICK i \in 1 .. Len(s) : s[i].write = x
      BY <1>3, <2>1, <2>2
    <3>2. i \in DOMAIN q /\ q[i].write = x
      BY <1>3, <3>1
    <3> QED
      BY <1>2, <3>2 DEF Queued
  <2>3. CASE u # user
    <3>1. queue'[u] = queue[u]
      BY <1>2, <2>3
    <3> QED
      BY <2>1, <3>1 DEF Queued
  <2> QED
    BY <2>2, <2>3
<1>7. Queued(w)'
  <2>1. Len(s) + 1 \in DOMAIN q /\ q[Len(s) + 1].write = w
    BY <1>3, <1>4
  <2> QED
    BY <1>2, <2>1 DEF Queued
<1> QED
  BY <1>5, <1>6, <1>7

\* The first batch of the user's queue is gone, and no other write with it.
LEMMA QueuedLess ==
    ASSUME WireInv, QueuesAscend, user \in Owner, pipeline # <<>>,
           NEW result, Finish(Head(pipeline), result)
    PROVE  /\ Queued(pipeline[1].write)
           /\ \A x : Queued(x)' <=> Queued(x) /\ x # pipeline[1].write
<1> DEFINE s == queue[user]
           t == Tail(s)
           f == pipeline[1].write
<1>1. /\ s # <<>> /\ pipeline[1] = s[1] /\ 1 \in 1 .. Len(s)
      /\ queue'[user] = t /\ DOMAIN queue' = Owner
      /\ \A u \in Owner \ {user} : queue'[u] = queue[u]
  BY FinishTakesFront
<1>2. /\ Ascending(s) /\ Len(s) \in Nat /\ Len(s) >= 1 /\ Len(t) = Len(s) - 1
      /\ \A i \in 1 .. Len(s) - 1 : t[i] = s[i + 1]
      /\ DOMAIN s = 1 .. Len(s) /\ DOMAIN t = 1 .. Len(t)
  <2>1. Ascending(s)
    BY DEF QueuesAscend
  <2>2. /\ Ascending(t) /\ Len(s) \in Nat /\ Len(s) >= 1 /\ Len(t) = Len(s) - 1
        /\ \A i \in 1 .. Len(s) - 1 : t[i] = s[i + 1]
    BY <1>1, <2>1, AscendingTail
  <2> HIDE DEF t, s
  <2> QED
    BY <2>1, <2>2, LenProperties DEF Ascending
<1>3. f = s[1].write
  BY <1>1
<1>4. \A u \in Owner : \A i \in DOMAIN queue[u] : queue[u][i].write = f => u = user
  <2> SUFFICES ASSUME NEW u \in Owner, NEW i \in DOMAIN queue[u],
                      queue[u][i].write = f
               PROVE  u = user
    OBVIOUS
  <2>1. Batches(queue[u], Issued(author, u)) /\ Batches(s, Issued(author, user))
    BY DEF WireInv, OwnBatches
  <2>2. i \in 1 .. Len(queue[u])
    BY <2>1, BatchesAre
  <2>3. f \in Issued(author, u) /\ f \in Issued(author, user)
    BY <1>1, <1>3, <2>1, <2>2 DEF Batches
  <2> QED
    BY <2>3 DEF Issued
<1> HIDE DEF s, t, f
<1>5. Queued(f)
  BY <1>1, <1>2, <1>3 DEF Queued, s
<1>6. ASSUME NEW x, Queued(x)'
      PROVE  Queued(x) /\ x # f
  <2>1. PICK u \in Owner : \E i \in DOMAIN queue'[u] : queue'[u][i].write = x
    BY <1>6 DEF Queued
  <2>2. CASE u = user
    <3>1. PICK i \in 1 .. Len(t) : t[i].write = x
      BY <1>1, <1>2, <2>1, <2>2
    <3>2. i + 1 \in 1 .. Len(s) /\ s[i + 1].write = x /\ 1 < i + 1
      BY <1>2, <3>1
    <3>3. x # f
      <4>1. /\ s[1].write < s[i + 1].write
            /\ s[1].write \in Nat /\ s[i + 1].write \in Nat
        BY <1>1, <1>2, <3>2, IdsAscend
      <4> QED
        BY <1>3, <3>2, <4>1
    <3>4. Queued(x)
      BY <1>2, <2>2, <3>2 DEF Queued, s
    <3> QED
      BY <3>3, <3>4
  <2>3. CASE u # user
    <3>1. queue'[u] = queue[u]
      BY <1>1, <2>3
    <3> QED
      BY <1>4, <2>1, <2>3, <3>1 DEF Queued
  <2> QED
    BY <2>2, <2>3
<1>7. ASSUME NEW x, Queued(x), x # f
      PROVE  Queued(x)'
  <2>1. PICK u \in Owner : \E i \in DOMAIN queue[u] : queue[u][i].write = x
    BY <1>7 DEF Queued
  <2>2. CASE u = user
    <3>1. PICK i \in 1 .. Len(s) : s[i].write = x
      BY <1>2, <2>1, <2>2 DEF s
    <3>2. i # 1
      BY <1>3, <1>7, <3>1
    <3>3. i - 1 \in 1 .. Len(s) - 1 /\ i - 1 \in DOMAIN t /\ (i - 1) + 1 = i
      BY <1>2, <3>2
    <3>4. t[i - 1] = s[i]
      BY <1>2, <3>3
    <3> QED
      BY <1>1, <3>1, <3>3, <3>4 DEF Queued
  <2>3. CASE u # user
    <3>1. queue'[u] = queue[u]
      BY <1>1, <2>3
    <3> QED
      BY <2>1, <3>1 DEF Queued
  <2> QED
    BY <2>2, <2>3
<1> QED
  BY <1>5, <1>6, <1>7 DEF f

\* The future of the batch that is finished ends, if somebody waits for it, and
\* no other.
LEMMA OneFutureEnds ==
    ASSUME WireInv, DeliveryInv, user \in Owner, pipeline # <<>>,
           outcome \in [Write -> {"none", "applied", "rejected"}],
           NEW result, Finish(Head(pipeline), result)
    PROVE  \/ outcome' = outcome
           \/ outcome' = [outcome EXCEPT ![pipeline[1].write] = result]
<1> DEFINE s == queue[user]
           f == pipeline[1].write
           Told(w) == [id |-> Head(pipeline).id, write |-> w] \in callbacks[user]
<1>1. /\ Head(pipeline) = s[1] /\ pipeline[1] = s[1] /\ 1 \in 1 .. Len(s)
      /\ Ascending(s)
  BY FinishTakesFront DEF DeliveryInv, QueuesAscend
<1>2. ASSUME NEW w, Told(w)
      PROVE  w = f
  <2>1. [id |-> s[1].id, write |-> w] \in ToSet(s)
    BY <1>1, <1>2 DEF DeliveryInv, CallbacksWait
  <2>2. DOMAIN s = 1 .. Len(s)
    BY <1>1, LenProperties DEF Ascending
  <2> HIDE DEF s
  <2>3. PICK i \in 1 .. Len(s) : [id |-> s[1].id, write |-> w] = s[i]
    BY <2>1, <2>2 DEF ToSet
  <2>4. s[i].id = s[1].id /\ s[i].write = w
    BY <2>3
  <2>5. i = 1
    BY <1>1, <2>4, IdsAscend
  <2> QED
    BY <1>1, <2>4, <2>5
<1>3. outcome' = [w \in Write |-> IF Told(w) THEN result ELSE outcome[w]]
  BY DEF Finish
<1> HIDE DEF Told, f
<1>4. CASE Told(f)
  <2>1. outcome' = [outcome EXCEPT ![f] = result]
    BY <1>2, <1>3, <1>4
  <2> QED
    BY <2>1 DEF f
<1>5. CASE ~Told(f)
  <2>1. outcome' = outcome
    BY <1>2, <1>3, <1>5
  <2> QED
    BY <2>1
<1> QED
  BY <1>4, <1>5

\* The front of the pipeline is finished with the server's word.
FrontEnds(result) ==
    /\ pipeline # <<>> /\ user \in Owner
    /\ Finish(Head(pipeline), result)
    /\ \/ result = "applied" /\ Applied(pipeline[1].write)
       \/ result = "rejected" /\ pipeline[1].write \in refused
    /\ UNCHANGED <<author, log, refused>>
    /\ ~SetDocument

\* The steps that concern the promise, and all others.
LEMMA StepsOfWrites ==
    ASSUME QueueInv, WireInv, DeliveryInv, [Next]_vars
    PROVE  \/ SetDocument
           \/ /\ RunTask /\ tasks # <<>> /\ Head(tasks).op = "write"
              /\ WriteMutations(Head(tasks).write)
              /\ UNCHANGED <<author, outcome, refused, log>> /\ ~SetDocument
           \/ \E result : FrontEnds(result)
           \/ ServerHandles /\ UNCHANGED <<author, outcome, queue>> /\ ~SetDocument
           \/ UNCHANGED <<author, outcome, queue, refused, log>> /\ ~SetDocument
<1> SUFFICES ASSUME ~SetDocument
             PROVE  \/ /\ RunTask /\ tasks # <<>> /\ Head(tasks).op = "write"
                       /\ WriteMutations(Head(tasks).write)
                       /\ UNCHANGED <<author, outcome, refused, log>>
                    \/ \E result : FrontEnds(result)
                    \/ ServerHandles /\ UNCHANGED <<author, outcome, queue>>
                    \/ UNCHANGED <<author, outcome, queue, refused, log>>
  OBVIOUS
<1>1. /\ AnswersFit /\ user \in Owner
  BY DEF DeliveryInv, QueueInv, QueueTypes
<1>2. ASSUME OnStreamRead, Head(responses) \in {"result", "error"}
      PROVE  /\ pipeline # <<>>
             /\ Head(responses) = "result" => Applied(pipeline[1].write)
             /\ Head(responses) = "error" => pipeline[1].write \in refused
  <2>1. responses # <<>>
    BY <1>2 DEF OnStreamRead
  <2>2. /\ handshake /\ pipeline # <<>> /\ Len(responses) \in Nat
        /\ responses \in Seq({"result", "error"})
    BY <1>2, <2>1, ReadsAnAnswer
  <2>3. responses[1] = Head(responses) /\ 1 \in 1 .. Len(responses)
    BY <2>1, <2>2, EmptySeq
  <2> QED
    BY <1>1, <2>2, <2>3 DEF AnswersFit
<1>3. CASE OnStreamRead
  <2>1. UNCHANGED <<author, log, refused>>
    BY <1>3 DEF OnStreamRead, server
  <2>2. CASE Head(responses) = "result" /\ OnMutationResult
    <3>1. FrontEnds("applied")
      BY <1>1, <1>2, <1>3, <2>1, <2>2 DEF OnMutationResult, FrontEnds
    <3> QED
      BY <3>1
  <2>3. CASE Head(responses) = "error" /\ OnWriteRejected
    <3>1. FrontEnds("rejected")
      BY <1>1, <1>2, <1>3, <2>1, <2>3 DEF OnWriteRejected, FrontEnds
    <3> QED
      BY <3>1
  <2>4. CASE OnHandshakeComplete
    BY <2>1, <2>4 DEF OnHandshakeComplete, local
  <2> QED
    BY <1>3, <2>2, <2>3, <2>4 DEF OnStreamRead
<1>4. CASE RunTask
  <2>1. UNCHANGED <<author, outcome, refused, log>> /\ tasks # <<>>
    BY <1>4 DEF RunTask, server
  <2>2. CASE Head(tasks).op = "write" /\ WriteMutations(Head(tasks).write)
    BY <1>4, <2>1, <2>2
  <2>3. CASE \/ HandleCredentialChange(Head(tasks).user)
             \/ ResumeStartWithCredentials(Head(tasks).user)
             \/ Dropped
    BY <2>1, <2>3
       DEF HandleCredentialChange, ResumeStartWithCredentials, Dropped, local
  <2> QED
    BY <1>4, <2>2, <2>3 DEF RunTask
<1>5. CASE \E u \in Owner : UserChanges(u)
  BY <1>5 DEF UserChanges, local, server
<1>6. ASSUME NEW r \in asked, TokenRead(r) \/ TokenComes(r)
      PROVE  UNCHANGED <<author, outcome, queue, refused, log>>
  BY <1>6 DEF TokenRead, TokenComes, local, server
<1>7. CASE MainQueue \/ TryRestarting \/ OnWriteStreamClose
  BY <1>7 DEF MainQueue, TryRestarting, OnWriteStreamClose, local, server
<1>8. CASE IdleTimeout \/ Crash \/ UNCHANGED vars
  BY <1>8 DEF IdleTimeout, Crash, vars, local, server
<1>9. CASE ServerHandles
  BY <1>9 DEF ServerHandles, local
<1> QED
  BY <1>3, <1>4, <1>5, <1>6, <1>7, <1>8, <1>9 DEF Next

\* A document is set.
LEMMA IssuesOne ==
    ASSUME QueueInv, SetDocument
    PROVE  /\ author \in Seq(Owner) /\ Len(author) \in Nat
           /\ Len(author) < MaxWrites
           /\ author' = Append(author, knownUser) /\ knownUser \in User
           /\ Len(author') = Len(author) + 1
           /\ \A w \in 1 .. Len(author) :
                Precedes(w, tasks) => Precedes(w, tasks')
           /\ UNCHANGED <<outcome, queue, refused, log>>
<1> DEFINE n == Len(author')
           e == [op |-> "write", write |-> n]
<1>1. /\ author' = Append(author, knownUser) /\ author \in Seq(Owner)
      /\ tasks \in Seq(Task) /\ knownUser \in User
      /\ tasks' = Append(tasks, e) /\ Len(author) < MaxWrites
      /\ UNCHANGED <<outcome, queue, refused, log>>
  BY DEF SetDocument, QueueInv, QueueTypes, Owner, local, server
<1>2. n = Len(author) + 1 /\ Len(author) \in Nat
  BY <1>1, AppendProperties, LenProperties DEF Owner
<1>3. e.op = "write" /\ e.write = n /\ e \in Task
  BY <1>2 DEF Task
<1> HIDE DEF e
<1>4. /\ Len(tasks) \in Nat /\ Len(tasks') = Len(tasks) + 1
      /\ \A i \in 1 .. Len(tasks) : tasks'[i] = tasks[i]
      /\ tasks'[Len(tasks) + 1] = e
  BY <1>1, <1>3, AppendProperties, LenProperties
<1>5. ASSUME NEW w \in 1 .. Len(author), Precedes(w, tasks)
      PROVE  Precedes(w, tasks')
  <2> SUFFICES ASSUME NEW i \in 1 .. Len(tasks'), tasks'[i].op = "write"
               PROVE  w < tasks'[i].write
    BY DEF Precedes
  <2>1. CASE i = Len(tasks) + 1
    BY <1>2, <1>3, <1>4, <2>1
  <2>2. CASE i # Len(tasks) + 1
    <3>1. i \in 1 .. Len(tasks) /\ tasks'[i] = tasks[i]
      BY <1>4, <2>2
    <3> QED
      BY <1>5, <3>1 DEF Precedes
  <2> QED
    BY <2>1, <2>2
<1> QED
  BY <1>1, <1>2, <1>5

\* The oldest task queues a write.
LEMMA HoldsOne ==
    ASSUME QueueInv, WireInv, DeliveryInv, tasks # <<>>,
           NEW w, w = Head(tasks).write, Head(tasks).op = "write"
    PROVE  /\ 1 \in 1 .. Len(tasks) /\ tasks[1].op = "write"
           /\ tasks[1].write = w /\ w \in Nat /\ w \in 1 .. Len(author)
           /\ Len(author) \in Nat
           /\ \A x : Precedes(x, tasks) => x < w
           /\ \A x : Queued(x) => x < w
           /\ \A i \in DOMAIN log : log[i].write < w
<1>1. /\ tasks \in Seq(Task) /\ Head(tasks) = tasks[1] /\ 1 \in 1 .. Len(tasks)
      /\ tasks[1] \in Task
  BY LenProperties, ElementOfSeq, EmptySeq DEF QueueInv, QueueTypes
<1>2. /\ QueuesAscend /\ TasksFollow
  BY DEF DeliveryInv
<1>3. w \in 1 .. Len(author) /\ w \in Nat /\ Len(author) \in Nat
  BY <1>1, <1>2, WritesIssued
<1>4. \A x : Precedes(x, tasks) => x < w
  BY <1>1 DEF Precedes
<1>5. ASSUME NEW x, Queued(x)
      PROVE  x < w
  <2>1. PICK u \in Owner : \E i \in DOMAIN queue[u] : queue[u][i].write = x
    BY <1>5 DEF Queued
  <2>2. DOMAIN queue[u] = 1 .. Len(queue[u])
    BY BatchesAre DEF WireInv, OwnBatches
  <2> QED
    BY <1>2, <1>4, <2>1, <2>2 DEF TasksFollow
<1>6. \A i \in DOMAIN log : log[i].write < w
  BY <1>2, <1>4, WritesAreNumbers DEF TasksFollow
<1> QED
  BY <1>1, <1>3, <1>4, <1>5, <1>6

LEMMA DecisionsStep ==
    ASSUME QueueInv, WireInv, DeliveryInv, Decisions, [Next]_vars
    PROVE  Decisions'
<1>1. /\ QueuesAscend /\ TasksFollow /\ user \in Owner
      /\ author \in Seq(Owner) /\ Len(author) \in Nat
  BY LenProperties DEF DeliveryInv, QueueInv, QueueTypes
<1>2. ASSUME ~SetDocument
      PROVE  \A w \in Write : Precedes(w, tasks) => Precedes(w, tasks')
  BY <1>2, TasksThin DEF Thinner, Write
<1>3. CASE SetDocument
  <2>1. /\ Len(author) < MaxWrites /\ Len(author') = Len(author) + 1
        /\ \A w \in 1 .. Len(author) :
              Precedes(w, tasks) => Precedes(w, tasks')
        /\ UNCHANGED <<outcome, queue>>
    BY <1>3, IssuesOne
  <2>2. Len(author') <= MaxWrites
    BY <1>1, <2>1, FirestoreWritesAssumption
  <2>3. ASSUME NEW w \in Write, outcome[w] # "none"
        PROVE  w <= Len(author') /\ ~Queued(w)' /\ Precedes(w, tasks')
    <3>1. w <= Len(author) /\ ~Queued(w) /\ Precedes(w, tasks)
      BY <2>3 DEF Decisions
    <3>2. w \in 1 .. Len(author) /\ w <= Len(author')
      BY <1>1, <2>1, <3>1 DEF Write
    <3>3. ~Queued(w)'
      BY <2>1, <3>1 DEF Queued
    <3> QED
      BY <2>1, <3>1, <3>2, <3>3
  <2> QED
    BY <2>1, <2>2, <2>3 DEF Decisions
<1>4. CASE /\ RunTask /\ tasks # <<>> /\ Head(tasks).op = "write"
           /\ WriteMutations(Head(tasks).write)
           /\ UNCHANGED <<author, outcome, refused, log>> /\ ~SetDocument
  <2>1. PICK v : v = Head(tasks).write
    OBVIOUS
  <2>2. \A x : Queued(x)' <=> Queued(x) \/ x = v
    BY <1>1, <1>4, <2>1, QueuedMore
  <2>3. ASSUME NEW w \in Write, outcome[w] # "none"
        PROVE  w <= Len(author) /\ ~Queued(w)' /\ Precedes(w, tasks')
    <3>1. w <= Len(author) /\ ~Queued(w) /\ Precedes(w, tasks)
      BY <2>3 DEF Decisions
    <3>2. w < v /\ v \in Nat
      BY <1>4, <2>1, <3>1, HoldsOne
    <3>3. w # v
      BY <3>2 DEF Write
    <3> QED
      BY <1>2, <1>4, <2>2, <3>1, <3>3
  <2> QED
    BY <1>4, <2>3 DEF Decisions
<1>5. ASSUME NEW result, FrontEnds(result)
      PROVE  Decisions'
  <2> DEFINE f == pipeline[1].write
  <2>1. /\ Queued(f) /\ \A x : Queued(x)' <=> Queued(x) /\ x # f
        /\ result \in {"applied", "rejected"}
        /\ \/ outcome' = outcome
           \/ outcome' = [outcome EXCEPT ![f] = result]
        /\ author' = author /\ ~SetDocument
    BY <1>1, <1>5, QueuedLess, OneFutureEnds DEF FrontEnds, Decisions
  <2>2. f \in 1 .. Len(author) /\ Precedes(f, tasks)
    <3>1. PICK u \in Owner : \E i \in DOMAIN queue[u] : queue[u][i].write = f
      BY <2>1 DEF Queued
    <3>2. DOMAIN queue[u] = 1 .. Len(queue[u])
      BY BatchesAre DEF WireInv, OwnBatches
    <3> QED
      BY <1>1, <3>1, <3>2, WritesIssued DEF TasksFollow
  <2> HIDE DEF f
  <2>3. outcome' \in [Write -> {"none", "applied", "rejected"}]
    BY <2>1 DEF Decisions
  <2>4. ASSUME NEW w \in Write, outcome'[w] # "none"
        PROVE  w <= Len(author) /\ ~Queued(w)' /\ Precedes(w, tasks')
    <3>1. CASE w = f
      BY <1>1, <1>2, <2>1, <2>2, <3>1
    <3>2. CASE w # f
      <4>1. outcome[w] # "none"
        BY <2>1, <2>4, <3>2 DEF Decisions
      <4> QED
        BY <1>2, <2>1, <4>1 DEF Decisions
    <3> QED
      BY <3>1, <3>2
  <2> QED
    BY <2>1, <2>3, <2>4 DEF Decisions
<1>6. CASE UNCHANGED <<author, outcome, queue>> /\ ~SetDocument
  <2>1. \A w : Queued(w)' <=> Queued(w)
    BY <1>6 DEF Queued
  <2> QED
    BY <1>2, <1>6, <2>1 DEF Decisions
<1> QED
  BY <1>3, <1>4, <1>5, <1>6, StepsOfWrites

LEMMA DecisionsInit == Init => Decisions
<1> SUFFICES ASSUME Init
             PROVE  Decisions
  OBVIOUS
<1>1. Len(author) = 0 /\ author = <<>>
  BY DEF Init
<1>2. outcome = [w \in Write |-> "none"]
  BY DEF Init
<1>3. MaxWrites \in Nat
  BY FirestoreWritesAssumption
<1> QED
  BY <1>1, <1>2, <1>3 DEF Decisions

\* A future is told of a write once and with the last word on it: by then the
\* write is no longer queued and never will be.
THEOREM DecisionsInvariant == Spec => []Decisions
<1>1. WritesInv /\ Decisions /\ [Next]_vars => Decisions'
  BY DecisionsStep DEF WritesInv
<1> QED
  BY <1>1, DecisionsInit, WritesInvariant, PTL DEF Spec

-----------------------------------------------------------------------------

LEMMA PromiseStarts == Init => Writes!Init
<1> SUFFICES ASSUME Init
             PROVE  Writes!Init
  OBVIOUS
<1>1. \A w : ~Queued(w)
  <2>1. \A u \in Owner : queue[u] = <<>>
    BY DEF Init
  <2>2. DOMAIN <<>> = {}
    OBVIOUS
  <2> QED
    BY <2>1, <2>2 DEF Queued
<1>2. Held = {}
  BY <1>1 DEF Held
<1> QED
  BY <1>2 DEF Init, Writes!Init, Write, Writes!Write

\* What the server applies is the first of the pipeline that it has yet to apply.
LEMMA AppliesNext ==
    ASSUME QueueInv, WireInv, DeliveryInv, ServerHandles, log' # log
    PROVE  \E n \in 1 .. Len(pipeline) :
            /\ n \in Nat
            /\ \A k \in 1 .. n - 1 : Applied(pipeline[k].write)
            /\ pipeline[n].write \in Write \ refused
            /\ log' = Append(log, [write |-> pipeline[n].write, token |-> user])
            /\ ~(\E i \in DOMAIN log :
                    log[i] = [write |-> pipeline[n].write, token |-> user])
<1> DEFINE r == Head(requests)
           n == Len(responses) + 1
<1>1. /\ requests # <<>> /\ ~Contains(responses, "error")
      /\ r \in Write \ refused
      /\ log' = Append(log, [write |-> r, token |-> token])
      /\ ~(\E i \in DOMAIN log : log[i] = [write |-> r, token |-> token])
  BY DEF ServerHandles
<1>2. stream = "Open" /\ token = user
  BY <1>1 DEF WireInv, OwnStream
<1>3. handshake
  <2> SUFFICES ASSUME ~handshake
               PROVE  FALSE
    OBVIOUS
  <2>1. requests = <<Handshake>>
    BY <1>1, <1>2 DEF WireInv, OwnStream
  <2>2. r = 0
    BY <2>1 DEF Handshake
  <2> QED
    BY <1>1, <2>2 DEF Write
<1>4. /\ requests \in Seq(Issued(author, user))
      /\ responses \in Seq({"result", "error"})
      /\ Len(requests) + Len(responses) = Len(pipeline)
      /\ \A k \in 1 .. Len(requests) :
              requests[k] = pipeline[Len(responses) + k].write
      /\ \A k \in 1 .. Len(responses) :
              responses[k] = "result" => Applied(pipeline[k].write)
  <2>1. /\ requests \in Seq(Issued(author, user))
        /\ responses \in Seq({"result", "error"})
    BY <1>3 DEF WireInv, OwnStream
  <2>2. AnswersFit
    BY DEF DeliveryInv
  <2> QED
    BY <1>1, <1>3, <2>1, <2>2 DEF AnswersFit
<1>5. /\ Len(requests) \in Nat /\ Len(requests) >= 1
      /\ Len(responses) \in Nat /\ Len(pipeline) \in Nat /\ r = requests[1]
  <2>1. Len(requests) \in Nat /\ Len(responses) \in Nat /\ Len(requests) # 0
    BY <1>1, <1>4, LenProperties, EmptySeq
  <2> QED
    BY <1>4, <2>1, ElementOfSeq
<1>6. /\ n \in Nat /\ n \in 1 .. Len(pipeline) /\ r = pipeline[n].write
  BY <1>4, <1>5
<1>7. ASSUME NEW k \in 1 .. n - 1
      PROVE  Applied(pipeline[k].write)
  <2>1. k \in 1 .. Len(responses)
    BY <1>5
  <2>2. responses[k] \in {"result", "error"} /\ responses[k] # "error"
    BY <1>1, <1>4, <2>1, ElementOfSeq DEF Contains
  <2> QED
    BY <1>4, <2>1, <2>2
<1> HIDE DEF n, r
<1> QED
  BY <1>1, <1>2, <1>6, <1>7

LEMMA PromiseStep ==
    ASSUME QueueInv, WireInv, DeliveryInv, Decisions, [Next]_vars
    PROVE  [Writes!Next]_(Writes!vars)
<1>1. /\ QueuesAscend /\ TasksFollow /\ user \in Owner /\ LogAscends
      /\ author \in Seq(Owner) /\ Len(author) \in Nat
      /\ DOMAIN author = 1 .. Len(author)
      /\ Len(author) <= MaxWrites /\ MaxWrites \in Nat
  BY LenProperties, FirestoreWritesAssumption
     DEF DeliveryInv, QueueInv, QueueTypes, Decisions
<1>2. \A w \in 1 .. Len(author) : w \in Write
  BY <1>1 DEF Write
<1>3. ASSUME UNCHANGED queue
      PROVE  UNCHANGED Held
  BY <1>3 DEF Held, Queued
<1>4. CASE SetDocument
  <2>1. Writes!Issue
    BY <1>3, <1>4, IssuesOne DEF Writes!Issue
  <2> QED
    BY <2>1 DEF Writes!Next
<1>5. CASE /\ RunTask /\ tasks # <<>> /\ Head(tasks).op = "write"
           /\ WriteMutations(Head(tasks).write)
           /\ UNCHANGED <<author, outcome, refused, log>> /\ ~SetDocument
  <2>1. PICK w : w = Head(tasks).write
    OBVIOUS
  <2>2. /\ w \in Nat /\ w \in 1 .. Len(author)
        /\ \A x : Precedes(x, tasks) => x < w
        /\ \A x : Queued(x) => x < w
        /\ \A i \in DOMAIN log : log[i].write < w
    BY <1>5, <2>1, HoldsOne
  <2>3. w \in Write /\ w \in DOMAIN author
    BY <1>1, <1>2, <2>2
  <2>4. Held' = Held \cup {w}
    <3>1. \A x : Queued(x)' <=> Queued(x) \/ x = w
      BY <1>1, <1>5, <2>1, QueuedMore
    <3> QED
      BY <2>3, <3>1 DEF Held
  <2>5. outcome[w] = "none"
    <3> SUFFICES ASSUME outcome[w] # "none"
                 PROVE  FALSE
      OBVIOUS
    <3>1. w < w
      BY <2>2, <2>3 DEF Decisions
    <3> QED
      BY <2>2, <3>1
  <2>6. \A v \in Held : v < w
    BY <2>2 DEF Held
  <2>7. Writes!Hold(w)
    BY <1>5, <2>2, <2>3, <2>4, <2>5, <2>6 DEF Writes!Hold
  <2> QED
    BY <2>3, <2>7 DEF Writes!Next, Writes!Write, Write
<1>6. ASSUME NEW result, FrontEnds(result)
      PROVE  Writes!Next
  <2> DEFINE f == pipeline[1].write
             s == queue[user]
  <2>1. /\ Queued(f) /\ \A x : Queued(x)' <=> Queued(x) /\ x # f
        /\ result \in {"applied", "rejected"}
        /\ \/ outcome' = outcome
           \/ outcome' = [outcome EXCEPT ![f] = result]
        /\ result = "applied" => Applied(f)
        /\ result = "rejected" => f \in refused
        /\ UNCHANGED <<author, log, refused>>
        /\ pipeline[1] = s[1] /\ 1 \in 1 .. Len(s)
    BY <1>1, <1>6, QueuedLess, OneFutureEnds, FinishTakesFront
       DEF FrontEnds, Decisions
  <2>2. f \in 1 .. Len(author) /\ f \in Write /\ author[f] = user
    BY <1>1, <1>2, <2>1, WritesIssued DEF Issued
  <2>3. f \in Held
    BY <2>1, <2>2 DEF Held
  <2>4. Held' = Held \ {f}
    BY <2>1 DEF Held
  <2>5. Writes!Applied(f) <=> Applied(f)
    BY <1>1, WritesAreNumbers DEF Writes!Applied, Applied
  <2>6. outcome[f] = "none"
    BY <2>1, <2>2 DEF Decisions
  <2>7. Writes!Earlier(f) = {}
    <3> SUFFICES ASSUME NEW v \in Held, v < f, author[v] = author[f]
                 PROVE  FALSE
      BY DEF Writes!Earlier
    <3>1. PICK u \in Owner : \E i \in DOMAIN queue[u] : queue[u][i].write = v
      BY DEF Held, Queued
    <3>2. PICK i \in 1 .. Len(queue[u]) : queue[u][i].write = v
      BY <3>1, BatchesAre DEF WireInv, OwnBatches
    <3>3. u = user
      BY <1>1, <2>2, <3>2, WritesIssued DEF Issued
    <3>4. Ascending(s) /\ Len(s) \in Nat
      BY <1>1, LenProperties DEF QueuesAscend, Ascending
    <3>5. i \in 1 .. Len(s) /\ s[i].write < s[1].write
      BY <2>1, <3>2, <3>3
    <3>6. i < 1
      BY <2>1, <3>4, <3>5, IdsAscend
    <3> QED
      BY <3>4, <3>5, <3>6
  <2> HIDE DEF f, s
  <2>8. \E v \in Writes!Verdict(f) : outcome' = [outcome EXCEPT ![f] = v]
    <3>1. CASE outcome' = outcome
      <4>1. outcome' = [outcome EXCEPT ![f] = "none"]
        BY <2>6, <3>1 DEF Decisions
      <4>2. "none" \in Writes!Verdict(f)
        BY DEF Writes!Verdict
      <4> QED
        BY <4>1, <4>2
    <3>2. CASE outcome' = [outcome EXCEPT ![f] = result]
      <4>1. result \in Writes!Verdict(f)
        BY <2>1, <2>5 DEF Writes!Verdict
      <4> QED
        BY <3>2, <4>1
    <3> QED
      BY <2>1, <3>1, <3>2
  <2>9. Writes!Finish(f)
    BY <2>1, <2>3, <2>4, <2>5, <2>6, <2>7, <2>8 DEF Writes!Finish
  <2> QED
    BY <2>2, <2>9 DEF Writes!Next, Writes!Write, Write
<1>7. CASE /\ ServerHandles /\ UNCHANGED <<author, outcome, queue>>
           /\ log' # log
  <2>1. PICK n \in 1 .. Len(pipeline) :
            /\ n \in Nat
            /\ \A k \in 1 .. n - 1 : Applied(pipeline[k].write)
            /\ pipeline[n].write \in Write \ refused
            /\ log' = Append(log, [write |-> pipeline[n].write, token |-> user])
            /\ ~(\E i \in DOMAIN log :
                    log[i] = [write |-> pipeline[n].write, token |-> user])
    BY <1>7, AppliesNext
  <2> DEFINE s == queue[user]
             w == pipeline[n].write
  <2>2. /\ Ascending(s) /\ Len(s) \in Nat /\ n \in 1 .. Len(s)
        /\ \A k \in 1 .. n : k \in 1 .. Len(s) /\ pipeline[k] = s[k]
        /\ w = s[n].write
    <3>1. /\ Ascending(s) /\ pipeline = Window(s)
      BY <1>1 DEF QueuesAscend
    <3>2. /\ Len(pipeline) \in 0 .. Len(s) /\ Len(s) \in Nat
          /\ \A i \in 1 .. Len(pipeline) : pipeline[i] = s[i]
      BY <3>1, WindowIs
    <3>3. \A k \in 1 .. n : k \in 1 .. Len(s) /\ k \in 1 .. Len(pipeline)
      BY <2>1, <3>2
    <3>4. n \in 1 .. n
      BY <2>1
    <3> QED
      BY <3>1, <3>2, <3>3, <3>4
  <2>3. w \in 1 .. Len(author) /\ author[w] = user /\ w \in Write \ refused
    BY <1>1, <2>1, <2>2, WritesIssued DEF Issued
  <2>4. w \in Held
    <3>1. DOMAIN s = 1 .. Len(s)
      BY <1>1, BatchesAre DEF WireInv, OwnBatches
    <3> QED
      BY <1>1, <2>2, <2>3, <3>1 DEF Held, Queued
  <2> HIDE DEF w, s
  <2>5. ~Writes!Applied(w)
    <3> SUFFICES ASSUME NEW i \in DOMAIN log, log[i].write = w
                 PROVE  FALSE
      BY DEF Writes!Applied
    <3>1. /\ log[i] \in [write : Nat, token : Owner]
          /\ log[i].write \in Issued(author, log[i].token)
      BY <1>1, WritesAreNumbers DEF WireInv, OwnLog
    <3>2. log[i].token = user
      BY <2>3, <3>1 DEF Issued
    <3>3. log[i] = [write |-> w, token |-> user]
      BY <3>1, <3>2
    <3> QED
      BY <2>1, <3>3 DEF w
  <2>6. ASSUME NEW v \in Writes!Earlier(w)
        PROVE  Writes!Applied(v)
    <3>1. v \in Held /\ v < w /\ author[v] = author[w]
      BY DEF Writes!Earlier
    <3>2. PICK u \in Owner : \E i \in DOMAIN queue[u] : queue[u][i].write = v
      BY <3>1 DEF Held, Queued
    <3>3. PICK i \in 1 .. Len(queue[u]) : queue[u][i].write = v
      BY <3>2, BatchesAre DEF WireInv, OwnBatches
    <3>4. u = user
      BY <1>1, <2>3, <3>1, <3>3, WritesIssued DEF Issued
    <3>5. i \in 1 .. Len(s) /\ s[i].write = v /\ s[i].write < s[n].write
      BY <2>2, <3>1, <3>3, <3>4 DEF s
    <3>6. i < n
      BY <2>2, <3>5, IdsAscend
    <3>7. i \in 1 .. n - 1 /\ i \in 1 .. n
      BY <2>2, <3>5, <3>6
    <3>8. Applied(v)
      BY <2>1, <2>2, <3>5, <3>7
    <3> QED
      BY <1>1, <3>8, WritesAreNumbers DEF Applied, Writes!Applied
  <2>7. Held' = Held /\ refused' = refused
    BY <1>3, <1>7 DEF ServerHandles
  <2>8. log' = Append(log, [write |-> w, token |-> author[w]])
    BY <2>1, <2>3 DEF w
  <2>9. Writes!Apply(w)
    BY <1>7, <2>3, <2>4, <2>5, <2>6, <2>7, <2>8 DEF Writes!Apply
  <2> QED
    BY <2>3, <2>9 DEF Writes!Next, Writes!Write, Write
<1>8. CASE UNCHANGED <<author, outcome, queue, log, refused>>
  BY <1>3, <1>8 DEF Writes!vars
<1>9. CASE ServerHandles /\ UNCHANGED <<author, outcome, queue>> /\ log' = log
  BY <1>8, <1>9 DEF ServerHandles
<1> QED
  BY <1>4, <1>5, <1>6, <1>7, <1>8, <1>9, StepsOfWrites

\* Whatever becomes of users, connections and the application, each write takes
\* the course DocumentWrites promises (FirestoreClient::WriteMutations to
\* SyncEngine::HandleSuccessfulWrite and HandleRejectedWrite).
THEOREM ClientImplementsWrites == Spec => ImplementsWrites
<1>1. WritesInv /\ Decisions /\ [Next]_vars => [Writes!Next]_(Writes!vars)
  BY PromiseStep DEF WritesInv
<1> QED
  BY <1>1, PromiseStarts, WritesInvariant, DecisionsInvariant, PTL
     DEF Spec, ImplementsWrites, Writes!Spec

\* The outcome of a write does not change any more.
OutcomeStays ==
    \A w \in Write : outcome[w] # "none" => outcome'[w] = outcome[w]

\* A future that has ended has ended: it is not told again, neither by a batch
\* that got the id of its own nor after a restart (SyncEngine::NotifyUser).
THEOREM OutcomesAreFinal == Spec => [][OutcomeStays]_vars
<1>1. Decisions /\ [Writes!Next]_(Writes!vars) => [OutcomeStays]_vars
  <2> SUFFICES ASSUME Decisions, [Writes!Next]_(Writes!vars),
                      NEW w \in Write, outcome[w] # "none"
               PROVE  outcome'[w] = outcome[w]
    BY DEF OutcomeStays
  <2>1. ASSUME NEW v \in Write, Writes!Finish(v)
        PROVE  outcome'[w] = outcome[w]
    BY <2>1 DEF Writes!Finish, Decisions
  <2> QED
    BY <2>1
       DEF Writes!Next, Writes!Issue, Writes!Hold, Writes!Apply, Writes!vars,
           Writes!Write, Write
<1> QED
  BY <1>1, DecisionsInvariant, ClientImplementsWrites, PTL
     DEF ImplementsWrites, Writes!Spec
=============================================================================
