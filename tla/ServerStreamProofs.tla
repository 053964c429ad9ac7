------------------------- MODULE ServerStreamProofs -------------------------
(***************************************************************************)
(* Proofs about ServerStream: for any clients, any number of objects and   *)
(* any size of the read buffer.                                            *)
(***************************************************************************)
EXTENDS ServerStream, SequenceTheorems, TLAPS

\* What a client's connection can be, and when Run may leave its loop.
ConnInv ==
    /\ \A c \in Client : /\ got[c] <= 2 * sent[c]
                         /\ conn[c] = "closed" => over[c] = "shut" /\ Unread(c) = 0
    /\ loop \in {"join", "returned"} => Open = {}

StreamInv == TypeOK /\ ConnInv /\ ObjectsInOrder
-----------------------------------------------------------------------------
\* The cuts of a text are its even tokens but the last token.
LEMMA JoinsInside ==
    ASSUME NEW a \in Nat, NEW b \in Nat, a < b
    PROVE  /\ Joins(a, b) \in Seq(Nat) /\ Len(Joins(a, b)) \in Nat
           /\ \A i \in 1 .. Len(Joins(a, b)) : /\ Joins(a, b)[i] \in Nat
                                               /\ a < Joins(a, b)[i]
                                               /\ Joins(a, b)[i] < b
<1> DEFINE n == (b - 1) \div 2 - a \div 2
<1>1. n \in Nat /\ a \div 2 \in Nat
  OBVIOUS
<1>2. a < 2 * (a \div 2 + 1) /\ 2 * ((b - 1) \div 2) < b
  OBVIOUS
<1>3. ASSUME NEW i \in 1 .. n
      PROVE  2 * (a \div 2 + i) \in Nat /\ a < 2 * (a \div 2 + i) /\ 2 * (a \div 2 + i) < b
  BY <1>1, <1>2
<1>4. Joins(a, b) = [i \in 1 .. n |-> 2 * (a \div 2 + i)]
  BY DEF Joins
<1> HIDE DEF n
<1>5. /\ Joins(a, b) \in Seq(Nat) /\ Len(Joins(a, b)) = n
      /\ \A i \in 1 .. n : Joins(a, b)[i] = 2 * (a \div 2 + i)
  BY <1>1, <1>3, <1>4
<1> QED BY <1>1, <1>3, <1>5

\* A piece that is an object is the first, and just two tokens long.
LEMMA PieceIsObject ==
    ASSUME NEW from \in Nat, NEW to \in Nat, NEW i \in Nat \ {0},
           Piece(from, to, i > 1) # Malformed
    PROVE  /\ i = 1 /\ to = from + 1
           /\ Piece(from, to, i > 1) \in Nat \ {0}
           /\ 2 * Piece(from, to, i > 1) = to
<1>1. ~(i > 1) /\ from % 2 = 1 /\ to = from + 1
  BY DEF Piece
<1>2. Piece(from, to, i > 1) = to \div 2
  BY <1>1 DEF Piece
<1> QED BY <1>1, <1>2

\* The pieces of a text up to its cuts.
LEMMA PiecesOfRead ==
    ASSUME NEW a \in Nat, NEW ends \in Seq(Nat)
    PROVE  /\ Pieces(a, ends) \in Seq(Nat \cup {Malformed})
           /\ Len(Pieces(a, ends)) = Len(ends)
           /\ \A i \in 1 .. Len(ends) : Pieces(a, ends)[i] # Malformed =>
                 /\ i = 1 /\ ends[1] = a + 2
                 /\ Pieces(a, ends)[1] \in Nat \ {0}
                 /\ 2 * Pieces(a, ends)[1] = a + 2
<1> DEFINE begin == <<a>> \o ends
<1>1. /\ Len(ends) \in Nat /\ DOMAIN ends = 1 .. Len(ends)
      /\ \A i \in 1 .. Len(ends) : ends[i] \in Nat
  OBVIOUS
<1>2. /\ begin \in Seq(Nat) /\ Len(begin) = Len(ends) + 1 /\ begin[1] = a
  OBVIOUS
<1>3. \A i \in 1 .. Len(ends) : begin[i] \in Nat
  BY <1>1, <1>2
<1>4. Pieces(a, ends) = [i \in 1 .. Len(ends) |-> Piece(begin[i] + 1, ends[i], i > 1)]
  BY <1>1 DEF Pieces
<1> HIDE DEF begin
<1>5. ASSUME NEW i \in 1 .. Len(ends), Piece(begin[i] + 1, ends[i], i > 1) # Malformed
      PROVE  /\ i = 1 /\ ends[1] = a + 2
             /\ Piece(begin[i] + 1, ends[i], i > 1) \in Nat \ {0}
             /\ 2 * Piece(begin[i] + 1, ends[i], i > 1) = a + 2
  <2>1. begin[i] + 1 \in Nat /\ ends[i] \in Nat /\ i \in Nat \ {0}
    BY <1>1, <1>3
  <2>2. /\ i = 1 /\ ends[i] = begin[i] + 1 + 1
        /\ Piece(begin[i] + 1, ends[i], i > 1) \in Nat \ {0}
        /\ 2 * Piece(begin[i] + 1, ends[i], i > 1) = ends[i]
    BY <1>5, <2>1, PieceIsObject
  <2> QED BY <1>2, <2>2
<1>6. \A i \in 1 .. Len(ends) :
         Piece(begin[i] + 1, ends[i], i > 1) \in Nat \cup {Malformed}
  BY <1>5
<1> QED BY <1>1, <1>4, <1>5, <1>6

\* Of the texts of one read at most one is an object: the first piece, when the
\* read begins with a whole object and goes on, or the whole text.  It is
\* among what was read.
LEMMA TextsOfRead ==
    ASSUME NEW a \in Nat, NEW b \in Nat, a < b
    PROVE  /\ Texts(a, b) \in Seq(Nat \cup {Malformed})
           /\ \A i \in 1 .. Len(Texts(a, b)) : Texts(a, b)[i] # Malformed =>
                 /\ Texts(a, b)[i] \in Nat \ {0}
                 /\ a < 2 * Texts(a, b)[i] /\ 2 * Texts(a, b)[i] <= b
                 /\ \A j \in 1 .. i - 1 : Texts(a, b)[j] = Malformed
<1> DEFINE ends == Joins(a, b)
           pieces == Pieces(a, ends)
           whole == Piece(a + 1, b, FALSE)
           m == Len(ends)
<1>1. /\ ends \in Seq(Nat) /\ m \in Nat
      /\ \A i \in 1 .. m : ends[i] \in Nat /\ a < ends[i] /\ ends[i] < b
  BY JoinsInside
<1>2. /\ pieces \in Seq(Nat \cup {Malformed}) /\ Len(pieces) = m
      /\ \A i \in 1 .. m : pieces[i] # Malformed =>
            /\ i = 1 /\ ends[1] = a + 2
            /\ pieces[1] \in Nat \ {0} /\ 2 * pieces[1] = a + 2
  BY <1>1, PiecesOfRead
<1>3. whole # Malformed => whole \in Nat \ {0} /\ b = a + 2 /\ 2 * whole = b
  BY DEF Piece
<1>4. Texts(a, b) = pieces \o <<whole>>
  BY DEF Texts
<1> HIDE DEF ends, pieces, whole, m
<1>5. /\ Texts(a, b) \in Seq(Nat \cup {Malformed})
      /\ Len(Texts(a, b)) = m + 1
      /\ \A i \in 1 .. m : Texts(a, b)[i] = pieces[i]
      /\ Texts(a, b)[m + 1] = whole
  <2>1. whole \in Nat \cup {Malformed}
    BY <1>3
  <2>2. Texts(a, b) \in Seq(Nat \cup {Malformed}) /\ Len(Texts(a, b)) = m + 1
    BY <1>2, <1>4, <2>1
  <2>3. Texts(a, b)[m + 1] = whole
    BY <1>1, <1>2, <1>4, <2>1
  <2>4. \A i \in 1 .. m : Texts(a, b)[i] = pieces[i]
    BY <1>1, <1>2, <1>4, <2>1
  <2> QED BY <2>2, <2>3, <2>4
<1>6. ASSUME NEW i \in 1 .. m + 1, Texts(a, b)[i] # Malformed
      PROVE  /\ Texts(a, b)[i] \in Nat \ {0}
             /\ a < 2 * Texts(a, b)[i] /\ 2 * Texts(a, b)[i] <= b
             /\ \A j \in 1 .. i - 1 : Texts(a, b)[j] = Malformed
  <2>1. CASE i \in 1 .. m
    <3>1. Texts(a, b)[i] = pieces[i] /\ pieces[i] # Malformed
      BY <1>5, <1>6, <2>1
    <3>2. /\ i = 1 /\ ends[1] = a + 2
          /\ pieces[1] \in Nat \ {0} /\ 2 * pieces[1] = a + 2
      BY <1>2, <2>1, <3>1
    <3>3. a + 2 < b
      BY <1>1, <2>1, <3>2
    <3> QED BY <3>1, <3>2, <3>3
  <2>2. CASE i = m + 1
    <3>1. Texts(a, b)[i] = whole /\ whole \in Nat \ {0} /\ b = a + 2 /\ 2 * whole = b
      BY <1>3, <1>5, <1>6, <2>2
    <3>2. ASSUME NEW j \in 1 .. m
          PROVE  pieces[j] = Malformed
      <4>1. SUFFICES ASSUME pieces[j] # Malformed PROVE FALSE
        OBVIOUS
      <4>2. j = 1 /\ ends[1] = a + 2
        BY <1>2, <4>1
      <4>3. ends[1] < b
        BY <1>1, <4>2
      <4> QED BY <3>1, <4>2, <4>3
    <3>3. \A j \in 1 .. i - 1 : Texts(a, b)[j] = Malformed
      <4>1. i - 1 = m
        BY <1>1, <2>2
      <4> QED BY <1>5, <3>2, <4>1
    <3> QED BY <3>1, <3>3
  <2> QED BY <1>1, <2>1, <2>2
<1> QED BY <1>5, <1>6
-----------------------------------------------------------------------------
\* The tasks s of a client of whom n tokens have been read.
InOrder(s, n) ==
    \A i \in 1 .. Len(s) : s[i] # Malformed =>
        /\ s[i] \in Nat /\ 2 * s[i] <= n
        /\ \A j \in 1 .. i - 1 : s[j] # Malformed => s[j] < s[i]

LEMMA AppendInOrder ==
    ASSUME NEW a \in Nat, NEW b \in Nat, a < b,
           NEW old \in Seq(Nat \cup {Malformed}), InOrder(old, a),
           NEW new \in Seq(Nat \cup {Malformed}),
           \A i \in 1 .. Len(new) : new[i] # Malformed =>
                 /\ new[i] \in Nat \ {0}
                 /\ a < 2 * new[i] /\ 2 * new[i] <= b
                 /\ \A j \in 1 .. i - 1 : new[j] = Malformed
    PROVE  InOrder(old \o new, b)
<1> DEFINE all == old \o new
           m == Len(old)
           n == Len(new)
<1>1. /\ m \in Nat /\ n \in Nat /\ Len(all) = m + n
      /\ \A i \in 1 .. m : all[i] = old[i]
      /\ \A i \in 1 .. n : all[m + i] = new[i]
  OBVIOUS
<1>2. \A i \in 1 .. m : old[i] # Malformed =>
         /\ old[i] \in Nat /\ 2 * old[i] <= a
         /\ \A j \in 1 .. i - 1 : old[j] # Malformed => old[j] < old[i]
  BY DEF InOrder
<1>3. \A i \in 1 .. n : new[i] # Malformed =>
         /\ new[i] \in Nat /\ a < 2 * new[i] /\ 2 * new[i] <= b
         /\ \A j \in 1 .. i - 1 : new[j] = Malformed
  OBVIOUS
<1> HIDE DEF all, m, n
<1>4. ASSUME NEW i \in 1 .. m, all[i] # Malformed
      PROVE  /\ all[i] \in Nat /\ 2 * all[i] <= b
             /\ \A j \in 1 .. i - 1 : all[j] # Malformed => all[j] < all[i]
  <2>1. /\ all[i] = old[i] /\ old[i] # Malformed
        /\ \A j \in 1 .. i - 1 : all[j] = old[j]
    BY <1>1, <1>4
  <2> QED BY <1>2, <2>1
<1>5. ASSUME NEW k \in 1 .. n, all[m + k] # Malformed
      PROVE  /\ all[m + k] \in Nat /\ 2 * all[m + k] <= b
             /\ \A j \in 1 .. m + k - 1 : all[j] # Malformed => all[j] < all[m + k]
  <2>1. /\ all[m + k] = new[k] /\ new[k] \in Nat
        /\ a < 2 * new[k] /\ 2 * new[k] <= b
        /\ \A j \in 1 .. k - 1 : new[j] = Malformed
    BY <1>1, <1>3, <1>5
  <2>2. ASSUME NEW j \in 1 .. m + k - 1, all[j] # Malformed
        PROVE  all[j] < all[m + k]
    <3>1. CASE j \in 1 .. m
      <4>1. all[j] = old[j] /\ old[j] \in Nat /\ 2 * old[j] <= a
        BY <1>1, <1>2, <2>2, <3>1
      <4> QED BY <2>1, <4>1
    <3>2. CASE j \notin 1 .. m
      <4> DEFINE l == j - m
      <4>1. l \in 1 .. k - 1 /\ l \in 1 .. n /\ j = m + l
        BY <1>1, <3>2
      <4> HIDE DEF l
      <4>2. all[j] = new[l] /\ new[l] = Malformed
        BY <1>1, <2>1, <4>1
      <4> QED BY <2>2, <4>2
    <3> QED BY <3>1, <3>2
  <2> QED BY <2>1, <2>2
<1>6. ASSUME NEW i \in 1 .. m + n, i \notin 1 .. m
      PROVE  \E k \in 1 .. n : i = m + k
  <2>1. i - m \in 1 .. n /\ i = m + (i - m)
    BY <1>1, <1>6
  <2> QED BY <2>1
<1>7. ASSUME NEW i \in 1 .. m + n, all[i] # Malformed
      PROVE  /\ all[i] \in Nat /\ 2 * all[i] <= b
             /\ \A j \in 1 .. i - 1 : all[j] # Malformed => all[j] < all[i]
  <2>1. CASE i \in 1 .. m
    BY <1>4, <1>7, <2>1
  <2>2. CASE i \notin 1 .. m
    <3>1. PICK k \in 1 .. n : i = m + k
      BY <1>6, <2>2
    <3>2. all[m + k] # Malformed
      BY <1>7, <3>1
    <3>3. /\ all[m + k] \in Nat /\ 2 * all[m + k] <= b
          /\ \A j \in 1 .. m + k - 1 : all[j] # Malformed => all[j] < all[m + k]
      BY <1>5, <3>2
    <3>4. all[i] = all[m + k]
      BY <3>1
    <3>5. i - 1 = m + k - 1
      BY <1>1, <3>1
    <3> QED BY <3>3, <3>4, <3>5
  <2> QED BY <2>1, <2>2
<1>8. InOrder(all, b)
  <2>1. Len(all) = m + n
    BY <1>1
  <2> QED BY <1>7, <2>1 DEF InOrder
<1> QED BY <1>8 DEF all

LEMMA OrderIs ==
    TypeOK => (ObjectsInOrder <=> \A c \in Client : InOrder(tasks[c], got[c]))
<1> SUFFICES ASSUME TypeOK
             PROVE  ObjectsInOrder <=> \A c \in Client : InOrder(tasks[c], got[c])
  OBVIOUS
<1>1. ASSUME NEW c \in Client
      PROVE  /\ DOMAIN tasks[c] = 1 .. Len(tasks[c])
             /\ \A i \in 1 .. Len(tasks[c]) : tasks[c][i] # Malformed => tasks[c][i] \in Nat
  BY DEF TypeOK, Object
<1> QED BY <1>1 DEF ObjectsInOrder, InOrder

LEMMA OrderIsNext ==
    (TypeOK => (ObjectsInOrder <=> \A c \in Client : InOrder(tasks[c], got[c])))'
BY OrderIs, PTL

\* A read of client c puts the texts behind the tasks there are.
LEMMA ReadInOrder ==
    ASSUME StreamInv, NEW c \in Client, serve(c)
    PROVE  TypeOK' /\ ObjectsInOrder'
<1>1. PICK n \in 1 .. MaxRead :
         /\ n <= Unread(c)
         /\ tasks' = [tasks EXCEPT ![c] = @ \o Texts(got[c], got[c] + n)]
         /\ got' = [got EXCEPT ![c] = @ + n]
  BY DEF serve
<1> DEFINE a == got[c]
           b == got[c] + n
           old == tasks[c]
           new == Texts(a, b)
<1>2. /\ a \in Nat /\ b \in Nat /\ a < b
      /\ b <= 2 * MaxObjects /\ MaxObjects \in Nat
  <2>1. got[c] \in 0 .. 2 * MaxObjects /\ sent[c] \in 0 .. MaxObjects
    BY DEF StreamInv, TypeOK
  <2> QED BY <1>1, <2>1, StreamAssumption DEF Unread
<1>3. /\ new \in Seq(Nat \cup {Malformed})
      /\ \A i \in 1 .. Len(new) : new[i] # Malformed =>
            /\ new[i] \in Nat \ {0} /\ a < 2 * new[i] /\ 2 * new[i] <= b
            /\ \A j \in 1 .. i - 1 : new[j] = Malformed
  BY <1>2, TextsOfRead
<1>4. /\ tasks' = [tasks EXCEPT ![c] = old \o new]
      /\ got' = [got EXCEPT ![c] = b]
  BY <1>1
<1>5. /\ old \in Seq(Object \cup {Malformed}) /\ old \in Seq(Nat \cup {Malformed})
      /\ InOrder(old, a)
  <2>1. old \in Seq(Object \cup {Malformed})
    BY DEF StreamInv, TypeOK
  <2>2. old \in Seq(Nat \cup {Malformed})
    BY <2>1 DEF Object
  <2> QED BY <2>1, <2>2, OrderIs DEF StreamInv
<1> HIDE DEF a, b, old, new
<1>6. new \in Seq(Object \cup {Malformed})
  <2>1. \A i \in 1 .. Len(new) : new[i] \in Object \cup {Malformed}
    BY <1>2, <1>3 DEF Object
  <2> QED BY <1>3, <2>1
<1>7. InOrder(old \o new, b) /\ old \o new \in Seq(Object \cup {Malformed})
  BY <1>2, <1>3, <1>5, <1>6, AppendInOrder
<1>8. tasks \in [Client -> Seq(Object \cup {Malformed})] /\ got \in [Client -> 0 .. 2 * MaxObjects]
  BY DEF StreamInv, TypeOK
<1>9. TypeOK'
  <2>1. tasks' \in [Client -> Seq(Object \cup {Malformed})]
    BY <1>4, <1>7, <1>8
  <2>2. got' \in [Client -> 0 .. 2 * MaxObjects]
    BY <1>2, <1>4, <1>8
  <2> QED BY <2>1, <2>2 DEF serve, StreamInv, TypeOK
<1>10. \A d \in Client : InOrder(tasks[d], got[d])
  BY OrderIs DEF StreamInv
<1>11. \A d \in Client : InOrder(tasks[d], got[d])'
  BY <1>4, <1>7, <1>8, <1>10 DEF InOrder
<1>12. ObjectsInOrder'
  BY <1>9, <1>11, OrderIsNext
<1> QED BY <1>9, <1>12

LEMMA InitStream == Init => StreamInv
<1> SUFFICES ASSUME Init PROVE StreamInv
  OBVIOUS
<1>1. TypeOK
  <2>1. <<>> \in Seq(Object \cup {Malformed}) /\ 0 \in 0 .. MaxObjects
        /\ 0 \in 0 .. 2 * MaxObjects
    BY StreamAssumption
  <2> QED BY <2>1 DEF Init, TypeOK
<1>2. ConnInv
  BY DEF Init, ConnInv, Unread, Open
<1>3. ObjectsInOrder
  BY DEF Init, ObjectsInOrder
<1> QED BY <1>1, <1>2, <1>3 DEF StreamInv

\* What a client does reaches no task.
LEMMA ClientSteps ==
    ASSUME StreamInv, NEW c \in Client,
           Connect(c) \/ Send(c) \/ Close(c) \/ Reset(c)
    PROVE  StreamInv'
<1>1. ObjectsInOrder'
  BY DEF Connect, Send, Close, Reset, StreamInv, ObjectsInOrder
<1>2. CASE Connect(c)
  <2>1. TypeOK'
    BY <1>2 DEF Connect, StreamInv, TypeOK
  <2>2. ConnInv'
    BY <1>2 DEF Connect, StreamInv, TypeOK, ConnInv, Unread, Open
  <2> QED BY <1>1, <2>1, <2>2 DEF StreamInv
<1>3. CASE Send(c)
  <2>1. sent' \in [Client -> 0 .. MaxObjects]
    BY <1>3, StreamAssumption DEF Send, StreamInv, TypeOK
  <2>2. TypeOK'
    BY <1>3, <2>1 DEF Send, StreamInv, TypeOK
  <2>3. \A d \in Client : sent[d] <= sent'[d] /\ (conn[d] = "closed" => sent'[d] = sent[d])
    BY <1>3, StreamAssumption DEF Send, StreamInv, TypeOK
  <2>4. ASSUME NEW d \in Client
        PROVE  /\ got[d] <= 2 * sent'[d]
               /\ conn[d] = "closed" => 2 * sent'[d] - got[d] = 0
    <3>1. /\ got[d] \in Nat /\ sent[d] \in Nat /\ sent'[d] \in Nat /\ got[d] <= 2 * sent[d]
          /\ conn[d] = "closed" => 2 * sent[d] - got[d] = 0
      BY <2>1, StreamAssumption DEF StreamInv, TypeOK, ConnInv, Unread
    <3> QED BY <2>3, <3>1
  <2>5. ConnInv'
    BY <1>3, <2>4 DEF Send, StreamInv, ConnInv, Unread, Open
  <2> QED BY <1>1, <2>2, <2>5 DEF StreamInv
<1>4. CASE Close(c) \/ Reset(c)
  <2>1. TypeOK'
    BY <1>4 DEF Close, Reset, StreamInv, TypeOK
  <2>2. ConnInv'
    BY <1>4 DEF Close, Reset, StreamInv, TypeOK, ConnInv, Unread, Open
  <2> QED BY <1>1, <2>1, <2>2 DEF StreamInv
<1> QED BY <1>2, <1>3, <1>4

LEMMA RunSteps ==
    ASSUME StreamInv, Run
    PROVE  StreamInv'
<1> USE StreamAssumption DEF StreamInv, TypeOK, ConnInv, Unread, Open
<1>1. CASE select
  <2>1. ObjectsInOrder'
    BY <1>1 DEF select, net, ObjectsInOrder
  <2> QED BY <1>1, <2>1 DEF select, net
<1>2. CASE accept
  <2>1. ObjectsInOrder'
    BY <1>2 DEF accept, ObjectsInOrder
  <2> QED BY <1>2, <2>1 DEF accept
<1>3. CASE endTurn
  <2>1. ObjectsInOrder'
    BY <1>3 DEF endTurn, net, ObjectsInOrder
  <2> QED BY <1>3, <2>1 DEF endTurn, net
<1>4. CASE join
  <2>1. ObjectsInOrder'
    BY <1>4 DEF join, net, ObjectsInOrder
  <2> QED BY <1>4, <2>1 DEF join, net
<1>5. ASSUME NEW c \in Client, serve(c) PROVE StreamInv'
  <2>1. TypeOK' /\ ObjectsInOrder'
    BY <1>5, ReadInOrder
  <2>2. PICK n \in 1 .. MaxRead : n <= Unread(c) /\ got' = [got EXCEPT ![c] = @ + n]
    BY <1>5 DEF serve
  <2>3. ASSUME NEW d \in Client
        PROVE  /\ got'[d] <= 2 * sent[d]
               /\ conn[d] = "closed" => over[d] = "shut" /\ 2 * sent[d] - got'[d] = 0
    <3>1. /\ got[d] \in Nat /\ sent[d] \in Nat /\ n \in Nat \ {0}
          /\ got'[d] = IF d = c THEN got[d] + n ELSE got[d]
      BY <2>2
    <3> QED BY <2>2, <3>1
  <2>4. ConnInv'
    BY <1>5, <2>3 DEF serve
  <2> QED BY <2>1, <2>4
<1>6. ASSUME NEW c \in Client, hangUp(c) PROVE StreamInv'
  <2>1. ObjectsInOrder'
    BY <1>6 DEF hangUp, ObjectsInOrder
  <2> QED BY <1>6, <2>1 DEF hangUp
<1>7. ASSUME NEW c \in Client, readFails(c) PROVE StreamInv'
  <2>1. ObjectsInOrder'
    BY <1>7 DEF readFails, net, ObjectsInOrder
  <2> QED BY <1>7, <2>1 DEF readFails, net
<1> QED BY <1>1, <1>2, <1>3, <1>4, <1>5, <1>6, <1>7 DEF Run

LEMMA NextStream == StreamInv /\ [Next]_vars => StreamInv'
<1> SUFFICES ASSUME StreamInv, [Next]_vars PROVE StreamInv'
  OBVIOUS
<1>1. CASE Run
  BY <1>1, RunSteps
<1>2. CASE Clients
  BY <1>2, ClientSteps DEF Clients
<1>3. CASE UNCHANGED vars
  <2>1. TypeOK' /\ ConnInv'
    BY <1>3 DEF vars, net, StreamInv, TypeOK, ConnInv, Unread, Open
  <2>2. ObjectsInOrder'
    BY <1>3 DEF vars, net, StreamInv, ObjectsInOrder
  <2> QED BY <2>1, <2>2 DEF StreamInv
<1> QED BY <1>1, <1>2, <1>3 DEF Next, Wait

\* The inductive invariant of Server::Run.
THEOREM StreamInductive == Spec => []StreamInv
BY InitStream, NextStream, PTL DEF Spec

\* However reads cut and join what a client sends, its objects become tasks in
\* the order sent, none twice, none before it was read.
THEOREM TasksInOrder == Spec => []ObjectsInOrder
<1>1. StreamInv => ObjectsInOrder
  BY DEF StreamInv
<1> QED BY <1>1, StreamInductive, PTL

\* Server::Run does not leave its loop before it has read everything from every
\* client it accepted.
THEOREM AllReadAtEnd == Spec => []NothingUnreadAtEnd
<1>1. StreamInv => NothingUnreadAtEnd
  BY DEF StreamInv, ConnInv, NothingUnreadAtEnd
<1> QED BY <1>1, StreamInductive, PTL
=============================================================================
