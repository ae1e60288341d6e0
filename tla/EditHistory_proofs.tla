-------------------------- MODULE EditHistory_proofs --------------------------
(***************************************************************************)
(* Proofs about RowEdits, and about EditHistory on top of them, for sheets *)
(* and histories of any size and any number of edits.                      *)
(*                                                                         *)
(* That a page converges rests on documents nobody stores: one for each    *)
(* revision the page has not received and one for each draft, so that the  *)
(* drafts turn what the page received into what it shows, and the rest of  *)
(* the log turns it into the sheet of the server (InPlace).  A revision    *)
(* passes through the drafts as long as none of them crosses it; if rows   *)
(* moved since the base of the first draft, the server will refuse it and  *)
(* the page stops there (Doomed).  At most the first draft is committed    *)
(* and not received (Own, Waiting), and then on what its user saw.         *)
(*                                                                         *)
(* An undo is refused only for the drafts before it or because it comes    *)
(* too late: it stays the opposite of what it takes back, from the stack   *)
(* to the log (UndoInv).  What the top of a stack finds in its row rests   *)
(* on the entries below it as well: from the document of the page they     *)
(* lead back, one after the other, through documents that every revision   *)
(* passes like the drafts (Leading), as the row edits among them that are  *)
(* not committed are drafts (Riding).                                      *)
(***************************************************************************)
EXTENDS EditHistory, Queues_proofs

-----------------------------------------------------------------------------
(* RowEdits: for sheets of any length, a mutation and its inverse cancel,  *)
(* and two mutations of different rows can be applied in either order if   *)
(* the second is rebased over the first.                                   *)

\* A function on 1 .. n is a sequence of length n.
LEMMA RowsAreDocument ==
  ASSUME NEW n \in Nat, NEW f \in [1 .. n -> Int]
  PROVE  f \in Document /\ Len(f) = n /\ DOMAIN f = 1 .. n
<1>1. f \in Seq(Int)
  BY SeqDef
<1>2. Len(f) \in Nat /\ DOMAIN f = 1 .. Len(f)
  BY <1>1, LenProperties
<1> QED
  BY <1>1, <1>2 DEF Document

LEMMA RowsOf ==
  ASSUME NEW doc \in Document
  PROVE  Len(doc) \in Nat /\ doc \in [1 .. Len(doc) -> Int] /\ DOMAIN doc = 1 .. Len(doc)
  BY LenProperties DEF Document

LEMMA SetRows ==
  ASSUME NEW doc \in Document, NEW m \in Mutation, m.kind = "set", InBounds(doc, m)
  PROVE  /\ Applied(doc, m) \in Document
         /\ Len(Applied(doc, m)) = Len(doc)
         /\ \A i \in 1 .. Len(doc) :
              Applied(doc, m)[i] = IF i = m.at THEN m.cell ELSE doc[i]
  BY ExceptSeq DEF Document, Mutation, InBounds, Applied

LEMMA InsertRows ==
  ASSUME NEW doc \in Document, NEW m \in Mutation, m.kind = "insert", InBounds(doc, m)
  PROVE  /\ Applied(doc, m) \in Document
         /\ Len(Applied(doc, m)) = Len(doc) + 1
         /\ \A i \in 1 .. Len(doc) + 1 :
              Applied(doc, m)[i] = IF i < m.at THEN doc[i]
                                   ELSE IF i = m.at THEN m.cell ELSE doc[i - 1]
<1> DEFINE f == [i \in 1 .. Len(doc) + 1 |->
                   IF i < m.at THEN doc[i]
                   ELSE IF i = m.at THEN m.cell ELSE doc[i - 1]]
<1>1. Applied(doc, m) = f
  BY DEF Applied
<1>2. Len(doc) + 1 \in Nat
  BY RowsOf
<1>3. f \in [1 .. Len(doc) + 1 -> Int]
  <2> SUFFICES ASSUME NEW i \in 1 .. Len(doc) + 1
               PROVE  (IF i < m.at THEN doc[i]
                       ELSE IF i = m.at THEN m.cell ELSE doc[i - 1]) \in Int
    OBVIOUS
  <2> QED
    BY RowsOf DEF Mutation, InBounds
<1>4. f \in Document /\ Len(f) = Len(doc) + 1
  <2> HIDE DEF f
  <2> QED
    BY <1>2, <1>3, RowsAreDocument
<1> QED
  BY <1>1, <1>4

LEMMA DeleteRows ==
  ASSUME NEW doc \in Document, NEW m \in Mutation, m.kind = "delete", InBounds(doc, m)
  PROVE  /\ Applied(doc, m) \in Document
         /\ Len(Applied(doc, m)) = Len(doc) - 1
         /\ \A i \in 1 .. Len(doc) - 1 :
              Applied(doc, m)[i] = IF i < m.at THEN doc[i] ELSE doc[i + 1]
<1> DEFINE f == [i \in 1 .. Len(doc) - 1 |-> IF i < m.at THEN doc[i] ELSE doc[i + 1]]
<1>1. Applied(doc, m) = f
  BY DEF Applied
<1>2. Len(doc) - 1 \in Nat
  BY RowsOf DEF InBounds
<1>3. f \in [1 .. Len(doc) - 1 -> Int]
  <2> SUFFICES ASSUME NEW i \in 1 .. Len(doc) - 1
               PROVE  (IF i < m.at THEN doc[i] ELSE doc[i + 1]) \in Int
    OBVIOUS
  <2> QED
    BY RowsOf DEF Mutation, InBounds
<1>4. f \in Document /\ Len(f) = Len(doc) - 1
  <2> HIDE DEF f
  <2> QED
    BY <1>2, <1>3, RowsAreDocument
<1> QED
  BY <1>1, <1>4

\* No mutation the server or the page applies leaves a sheet without rows.
THEOREM MutationsKeepSheets ==
  ASSUME NEW doc \in Document, Len(doc) > 0, NEW m \in Mutation, InBounds(doc, m)
  PROVE  Applied(doc, m) \in Document /\ Len(Applied(doc, m)) > 0
<1>1. Len(doc) \in Nat
  BY RowsOf
<1>2. CASE m.kind = "set"
  BY <1>1, <1>2, SetRows
<1>3. CASE m.kind = "insert"
  BY <1>1, <1>3, InsertRows
<1>4. CASE m.kind = "delete"
  <2>1. Len(doc) > 1
    BY <1>4 DEF InBounds
  <2> QED
    BY <1>1, <1>4, <2>1, DeleteRows
<1> QED
  BY <1>2, <1>3, <1>4 DEF Mutation

-----------------------------------------------------------------------------
(* Undo. *)

LEMMA InverseIsMutation ==
  ASSUME NEW doc \in Document, NEW m \in Mutation, InBounds(doc, m)
  PROVE  Inverted(doc, m) \in Mutation
<1>1. Under(doc, m) \in Int
  <2>1. CASE m.kind = "insert"
    BY <2>1 DEF Under, Blank
  <2>2. CASE m.kind # "insert"
    <3>1. m.at \in 1 .. Len(doc)
      BY <2>2 DEF InBounds, Mutation
    <3> QED
      BY <2>2, <3>1, RowsOf DEF Under
  <2> QED
    BY <2>1, <2>2
<1> QED
  BY <1>1 DEF Inverted, Mutation

\* Taking a mutation back is always possible at once, and gives the document
\* before it: what requireUndoRestoredPreimage of the server compares.
THEOREM InverseRestores ==
  ASSUME NEW doc \in Document, Len(doc) > 0, NEW m \in Mutation, InBounds(doc, m)
  PROVE  /\ InBounds(Applied(doc, m), Inverted(doc, m))
         /\ Applied(Applied(doc, m), Inverted(doc, m)) = doc
<1> DEFINE after == Applied(doc, m)
           inverse == Inverted(doc, m)
<1>1. inverse \in Mutation
  BY InverseIsMutation
<1>2. Len(doc) \in Nat /\ m.at \in Nat
  BY RowsOf DEF Mutation
<1>3. inverse.at = m.at /\ inverse.cell = Under(doc, m)
  BY DEF Inverted
<1>4. CASE m.kind = "set"
  <2>1. inverse.kind = "set"
    BY <1>4 DEF Inverted
  <2>2. /\ after \in Document /\ Len(after) = Len(doc)
        /\ \A i \in 1 .. Len(doc) : after[i] = IF i = m.at THEN m.cell ELSE doc[i]
    BY <1>4, SetRows
  <2> HIDE DEF after, inverse
  <2>3. InBounds(after, inverse)
    BY <1>2, <1>3, <1>4, <2>1, <2>2 DEF InBounds
  <2>4. /\ Applied(after, inverse) \in Document
        /\ Len(Applied(after, inverse)) = Len(doc)
        /\ \A i \in 1 .. Len(doc) :
             Applied(after, inverse)[i] = IF i = m.at THEN doc[m.at] ELSE after[i]
    BY <1>1, <1>3, <1>4, <2>1, <2>2, <2>3, SetRows DEF Under
  <2>5. Applied(after, inverse) = doc
    <3>1. \A i \in 1 .. Len(doc) : Applied(after, inverse)[i] = doc[i]
      BY ONLY <2>2, <2>4
    <3> QED
      BY <2>4, <3>1, SeqEqual DEF Document
  <2> QED
    BY <2>3, <2>5 DEF after, inverse
<1>5. CASE m.kind = "insert"
  <2>1. inverse.kind = "delete"
    BY <1>5 DEF Inverted
  <2>2. /\ after \in Document /\ Len(after) = Len(doc) + 1
        /\ \A i \in 1 .. Len(doc) + 1 :
             after[i] = IF i < m.at THEN doc[i]
                        ELSE IF i = m.at THEN m.cell ELSE doc[i - 1]
    BY <1>5, InsertRows
  <2> HIDE DEF after, inverse
  <2>3. InBounds(after, inverse)
    BY <1>2, <1>3, <1>5, <2>1, <2>2 DEF InBounds
  <2>4. /\ Applied(after, inverse) \in Document
        /\ Len(Applied(after, inverse)) = Len(doc)
        /\ \A i \in 1 .. Len(doc) :
             Applied(after, inverse)[i] = IF i < m.at THEN after[i] ELSE after[i + 1]
    <3>1. /\ Applied(after, inverse) \in Document
          /\ Len(Applied(after, inverse)) = Len(after) - 1
          /\ \A i \in 1 .. Len(after) - 1 :
               Applied(after, inverse)[i] = IF i < inverse.at THEN after[i] ELSE after[i + 1]
      BY ONLY <1>1, <2>1, <2>2, <2>3, DeleteRows
    <3>2. Len(after) - 1 = Len(doc)
      BY ONLY <1>2, <2>2
    <3> QED
      BY ONLY <1>3, <3>1, <3>2
  <2>5. ASSUME NEW i \in 1 .. Len(doc) PROVE Applied(after, inverse)[i] = doc[i]
    <3>1. i \in 1 .. Len(doc) + 1 /\ i + 1 \in 1 .. Len(doc) + 1 /\ i + 1 - 1 = i
      BY ONLY <1>2, i \in 1 .. Len(doc)
    <3>2. CASE i < m.at
      BY ONLY <2>2, <2>4, <3>1, <3>2
    <3>3. CASE ~(i < m.at)
      <4>1. ~(i + 1 < m.at) /\ i + 1 # m.at
        BY ONLY <1>2, <3>1, <3>3
      <4> QED
        BY ONLY <2>2, <2>4, <3>1, <3>3, <4>1
    <3> QED
      BY ONLY <3>2, <3>3
  <2>6. Applied(after, inverse) = doc
    BY <2>4, <2>5, SeqEqual DEF Document
  <2> QED
    BY <2>3, <2>6 DEF after, inverse
<1>6. CASE m.kind = "delete"
  <2>1. inverse.kind = "insert" /\ m.at \in 1 .. Len(doc) /\ Len(doc) > 1
    BY <1>6 DEF Inverted, InBounds
  <2>2. /\ after \in Document /\ Len(after) = Len(doc) - 1
        /\ \A i \in 1 .. Len(doc) - 1 :
             after[i] = IF i < m.at THEN doc[i] ELSE doc[i + 1]
    BY <1>6, DeleteRows
  <2> HIDE DEF after, inverse
  <2>3. InBounds(after, inverse)
    BY <1>2, <1>3, <2>1, <2>2 DEF InBounds
  <2>4. /\ Applied(after, inverse) \in Document
        /\ Len(Applied(after, inverse)) = Len(doc)
        /\ \A i \in 1 .. Len(doc) :
             Applied(after, inverse)[i] =
               IF i < m.at THEN after[i]
               ELSE IF i = m.at THEN doc[m.at] ELSE after[i - 1]
    BY <1>1, <1>2, <1>3, <1>6, <2>1, <2>2, <2>3, InsertRows DEF Under
  <2>5. \A i \in 1 .. Len(doc) : Applied(after, inverse)[i] = doc[i]
    BY <1>2, <2>1, <2>2, <2>4
  <2>6. Applied(after, inverse) = doc
    BY <2>4, <2>5, SeqEqual DEF Document
  <2> QED
    BY <2>3, <2>6 DEF after, inverse
<1> QED
  BY <1>4, <1>5, <1>6 DEF Mutation

-----------------------------------------------------------------------------
(* Rebase. *)

Growth(m) == IF m.kind = "set" THEN 0 ELSE IF m.kind = "insert" THEN 1 ELSE -1

LEMMA Bounds ==
  ASSUME NEW doc \in Document, NEW m \in Mutation
  PROVE  InBounds(doc, m) <=>
           /\ m.at <= Len(doc) + (IF m.kind = "insert" THEN 1 ELSE 0)
           /\ m.kind = "delete" => Len(doc) > 1
<1>1. Len(doc) \in Nat /\ m.at \in Nat \ {0}
  BY RowsOf DEF Mutation
<1>2. CASE m.kind = "set"
  BY <1>1, <1>2 DEF InBounds
<1>3. CASE m.kind = "insert"
  BY <1>1, <1>3 DEF InBounds
<1>4. CASE m.kind = "delete"
  BY <1>1, <1>4 DEF InBounds
<1> QED
  BY <1>2, <1>3, <1>4 DEF Mutation

\* The three kinds in one formula.
LEMMA AppliedRows ==
  ASSUME NEW doc \in Document, NEW m \in Mutation, InBounds(doc, m)
  PROVE  /\ Applied(doc, m) \in Document
         /\ Len(Applied(doc, m)) = Len(doc) + Growth(m)
         /\ \A k \in Int : 1 <= k /\ k <= Len(doc) + Growth(m) =>
              Applied(doc, m)[k] = IF k < m.at THEN doc[k]
                                   ELSE IF k = m.at /\ Growth(m) # -1 THEN m.cell
                                   ELSE doc[k - Growth(m)]
<1>1. Len(doc) \in Nat /\ m.at \in Nat
  BY RowsOf DEF Mutation
<1>2. CASE m.kind = "set"
  BY <1>1, <1>2, SetRows DEF Growth
<1>3. CASE m.kind = "insert"
  BY <1>1, <1>3, InsertRows DEF Growth
<1>4. CASE m.kind = "delete"
  BY <1>1, <1>4, DeleteRows DEF Growth
<1> QED
  BY <1>2, <1>3, <1>4 DEF Mutation

\* The upper of two mutations moves the lower one, and is not moved by it.
LEMMA UpperStays ==
  ASSUME NEW m \in Mutation, NEW n \in Mutation, m.at < n.at
  PROVE  Rebased(m, n) = m
<1>1. RowAfter(m.at, n) = m.at
  <2>1. ~ (m.at >= n.at)
    BY DEF Mutation
  <2> QED
    BY <2>1 DEF RowAfter, Mutation
<1> QED
  BY <1>1 DEF Rebased, Mutation

LEMMA LowerMoves ==
  ASSUME NEW m \in Mutation, NEW n \in Mutation, m.at < n.at
  PROVE  /\ Rebased(n, m) \in Mutation
         /\ Rebased(n, m).at = n.at + Growth(m)
         /\ Rebased(n, m).kind = n.kind
         /\ Rebased(n, m).cell = n.cell
<1>1. RowAfter(n.at, m) = n.at + Growth(m)
  <2>1. n.at >= m.at /\ n.at \in Nat
    BY DEF Mutation
  <2>2. CASE m.kind = "set"
    BY <2>1, <2>2 DEF RowAfter, Growth
  <2>3. CASE m.kind = "insert"
    BY <2>1, <2>3 DEF RowAfter, Growth
  <2>4. CASE m.kind = "delete"
    BY <2>1, <2>4 DEF RowAfter, Growth
  <2> QED
    BY <2>2, <2>3, <2>4 DEF Mutation
<1>2. n.at + Growth(m) \in Nat \ {0}
  BY DEF Mutation, Growth
<1> QED
  BY <1>1, <1>2 DEF Rebased, Mutation

\* What the composition of two mutations makes of a row, with g and h as the
\* growth of the upper and of the lower one.
LEMMA ComposedRows ==
  ASSUME NEW size \in Nat, NEW a \in Nat, NEW b \in Nat, a < b, a <= size, b <= size + 1,
         NEW g \in {-1, 0, 1}, NEW h \in {-1, 0, 1}, b = size + 1 => h = 1,
         NEW x, NEW y, NEW doc, NEW withM, NEW withN, NEW left, NEW right,
         \A k \in Int : 1 <= k /\ k <= size + g =>
           withM[k] = IF k < a THEN doc[k]
                      ELSE IF k = a /\ g # -1 THEN x ELSE doc[k - g],
         \A k \in Int : 1 <= k /\ k <= size + h =>
           withN[k] = IF k < b THEN doc[k]
                      ELSE IF k = b /\ h # -1 THEN y ELSE doc[k - h],
         \A k \in Int : 1 <= k /\ k <= size + g + h =>
           left[k] = IF k < b + g THEN withM[k]
                     ELSE IF k = b + g /\ h # -1 THEN y ELSE withM[k - h],
         \A k \in Int : 1 <= k /\ k <= size + g + h =>
           right[k] = IF k < a THEN withN[k]
                      ELSE IF k = a /\ g # -1 THEN x ELSE withN[k - g],
         NEW i \in Int, 1 <= i, i <= size + g + h, a >= 1
  PROVE  left[i] = right[i]
<1>1. CASE i < a
  <2>1. i < b + g /\ i < b /\ i <= size + g /\ i <= size + h
    BY <1>1
  <2> QED
    BY <1>1, <2>1
<1>2. CASE i = a /\ g # -1
  <2>1. i < b + g /\ i <= size + g
    BY <1>2
  <2> QED
    BY <1>2, <2>1
<1>3. CASE i >= a /\ (i = a => g = -1) /\ i < b + g
  <2>1. i <= size + g
    BY <1>3
  <2>2. left[i] = doc[i - g]
    BY <1>3, <2>1
  <2>3. right[i] = withN[i - g]
    BY <1>3
  <2>4. i - g \in Int /\ 1 <= i - g /\ i - g <= size + h /\ i - g < b
    BY <1>3
  <2>5. withN[i - g] = doc[i - g]
    BY <2>4
  <2> QED
    BY <2>2, <2>3, <2>5
<1>4. CASE i = b + g /\ h # -1 /\ (i = a => g = -1)
  <2>1. left[i] = y
    BY <1>4
  <2>2. i >= a
    BY <1>4
  <2>3. right[i] = withN[i - g]
    BY <1>4, <2>2
  <2>4. i - g = b /\ b \in Int /\ 1 <= b /\ b <= size + h
    BY <1>4
  <2>5. withN[b] = y
    BY <1>4, <2>4
  <2> QED
    BY <2>1, <2>3, <2>4, <2>5
<1>5. CASE i >= b + g /\ (i = b + g => h = -1) /\ (i = a => g = -1)
  <2>1. left[i] = withM[i - h]
    BY <1>5
  <2>2. i >= a
    BY <1>5
  <2>3. right[i] = withN[i - g]
    BY <1>5, <2>2
  <2>4. /\ i - h \in Int /\ 1 <= i - h /\ i - h <= size + g
        /\ i - h >= a /\ (i - h = a => g = -1)
    BY <1>5
  <2>5. withM[i - h] = doc[i - h - g]
    BY <2>4
  <2>6. /\ i - g \in Int /\ 1 <= i - g /\ i - g <= size + h
        /\ i - g >= b /\ (i - g = b => h = -1)
    BY <1>5
  <2>7. withN[i - g] = doc[i - g - h]
    BY <2>6
  <2>8. i - h - g = i - g - h
    OBVIOUS
  <2> QED
    BY <2>1, <2>3, <2>5, <2>7, <2>8
<1> QED
  BY <1>1, <1>2, <1>3, <1>4, <1>5

LEMMA UpperAndLower ==
  ASSUME NEW doc \in Document, NEW m \in Mutation, NEW n \in Mutation,
         InBounds(doc, m), InBounds(doc, n), m.at < n.at,
         m.kind = "delete" /\ n.kind = "delete" => Len(doc) > 2
  PROVE  /\ InBounds(Applied(doc, m), Rebased(n, m))
         /\ InBounds(Applied(doc, n), m)
         /\ Applied(Applied(doc, m), Rebased(n, m)) = Applied(Applied(doc, n), m)
<1> DEFINE moved == Rebased(n, m)
           withM == Applied(doc, m)
           withN == Applied(doc, n)
<1>1. /\ Len(doc) \in Nat
      /\ m.at \in Nat \ {0} /\ n.at \in Nat \ {0}
      /\ Growth(m) \in Int /\ Growth(n) \in Int
  BY RowsOf DEF Mutation, Growth
<1>2. /\ moved \in Mutation
      /\ moved.at = n.at + Growth(m)
      /\ moved.kind = n.kind /\ moved.cell = n.cell
  BY LowerMoves
<1>3. /\ withM \in Document
      /\ Len(withM) = Len(doc) + Growth(m)
      /\ \A k \in Int : 1 <= k /\ k <= Len(doc) + Growth(m) =>
           withM[k] = IF k < m.at THEN doc[k]
                      ELSE IF k = m.at /\ Growth(m) # -1 THEN m.cell
                      ELSE doc[k - Growth(m)]
  BY AppliedRows
<1>4. /\ withN \in Document
      /\ Len(withN) = Len(doc) + Growth(n)
      /\ \A k \in Int : 1 <= k /\ k <= Len(doc) + Growth(n) =>
           withN[k] = IF k < n.at THEN doc[k]
                      ELSE IF k = n.at /\ Growth(n) # -1 THEN n.cell
                      ELSE doc[k - Growth(n)]
  BY AppliedRows
<1> HIDE DEF moved, withM, withN
<1>5. /\ Growth(m) \in {-1, 0, 1} /\ Growth(n) \in {-1, 0, 1}
      /\ m.at <= Len(doc) /\ n.at <= Len(doc) + 1
      /\ n.at = Len(doc) + 1 => Growth(n) = 1
      /\ m.kind = "delete" <=> Growth(m) = -1
      /\ n.kind = "delete" <=> Growth(n) = -1
      /\ n.kind = "insert" <=> Growth(n) = 1
      /\ m.kind = "delete" => Len(doc) > 1
      /\ n.kind = "delete" => Len(doc) > 1
  BY <1>1, Bounds DEF Growth, Mutation
<1>6. InBounds(withM, moved)
  BY <1>1, <1>2, <1>3, <1>5, Bounds
<1>7. InBounds(withN, m)
  BY <1>1, <1>4, <1>5, Bounds
<1> DEFINE left == Applied(withM, moved)
           right == Applied(withN, m)
<1>8. /\ left \in Document /\ Len(left) = Len(doc) + Growth(m) + Growth(n)
      /\ \A k \in Int : 1 <= k /\ k <= Len(doc) + Growth(m) + Growth(n) =>
           left[k] = IF k < n.at + Growth(m) THEN withM[k]
                     ELSE IF k = n.at + Growth(m) /\ Growth(n) # -1 THEN n.cell
                     ELSE withM[k - Growth(n)]
  <2>1. Growth(moved) = Growth(n)
    BY <1>2 DEF Growth
  <2>2. /\ left \in Document
        /\ Len(left) = Len(withM) + Growth(moved)
        /\ \A k \in Int : 1 <= k /\ k <= Len(withM) + Growth(moved) =>
             left[k] = IF k < moved.at THEN withM[k]
                       ELSE IF k = moved.at /\ Growth(moved) # -1 THEN moved.cell
                       ELSE withM[k - Growth(moved)]
    BY <1>2, <1>3, <1>6, AppliedRows
  <2> QED
    BY <1>2, <1>3, <2>1, <2>2
<1>9. /\ right \in Document /\ Len(right) = Len(doc) + Growth(m) + Growth(n)
      /\ \A k \in Int : 1 <= k /\ k <= Len(doc) + Growth(m) + Growth(n) =>
           right[k] = IF k < m.at THEN withN[k]
                      ELSE IF k = m.at /\ Growth(m) # -1 THEN m.cell
                      ELSE withN[k - Growth(m)]
  <2>1. /\ right \in Document
        /\ Len(right) = Len(withN) + Growth(m)
        /\ \A k \in Int : 1 <= k /\ k <= Len(withN) + Growth(m) =>
             right[k] = IF k < m.at THEN withN[k]
                        ELSE IF k = m.at /\ Growth(m) # -1 THEN m.cell
                        ELSE withN[k - Growth(m)]
    BY <1>4, <1>7, AppliedRows
  <2>2. Len(doc) + Growth(n) + Growth(m) = Len(doc) + Growth(m) + Growth(n)
    BY <1>1
  <2> QED
    BY <1>4, <2>1, <2>2
<1> HIDE DEF left, right
<1>10. ASSUME NEW i \in Int, 1 <= i, i <= Len(doc) + Growth(m) + Growth(n)
       PROVE  left[i] = right[i]
  <2> DEFINE g == Growth(m)
             h == Growth(n)
             a == m.at
             b == n.at
             size == Len(doc)
             x == m.cell
             y == n.cell
  <2>1. /\ size \in Nat /\ a \in Nat /\ b \in Nat /\ a < b /\ a <= size /\ b <= size + 1
        /\ g \in {-1, 0, 1} /\ h \in {-1, 0, 1} /\ (b = size + 1 => h = 1)
        /\ i \in Int /\ 1 <= i /\ i <= size + g + h /\ a >= 1
    BY <1>1, <1>5, <1>10
  <2>2. \A k \in Int : 1 <= k /\ k <= size + g =>
          withM[k] = IF k < a THEN doc[k]
                     ELSE IF k = a /\ g # -1 THEN x ELSE doc[k - g]
    BY <1>3
  <2>3. \A k \in Int : 1 <= k /\ k <= size + h =>
          withN[k] = IF k < b THEN doc[k]
                     ELSE IF k = b /\ h # -1 THEN y ELSE doc[k - h]
    BY <1>4
  <2>4. \A k \in Int : 1 <= k /\ k <= size + g + h =>
          left[k] = IF k < b + g THEN withM[k]
                    ELSE IF k = b + g /\ h # -1 THEN y ELSE withM[k - h]
    BY <1>8
  <2>5. \A k \in Int : 1 <= k /\ k <= size + g + h =>
          right[k] = IF k < a THEN withN[k]
                     ELSE IF k = a /\ g # -1 THEN x ELSE withN[k - g]
    BY <1>9
  <2> HIDE DEF g, h, a, b, size, x, y
  <2> QED
    BY <2>1, <2>2, <2>3, <2>4, <2>5, ComposedRows
<1>11. left = right
  <2>1. /\ left \in Seq(Int) /\ right \in Seq(Int) /\ Len(left) = Len(right)
    BY <1>8, <1>9 DEF Document
  <2>2. \A i \in 1 .. Len(left) : left[i] = right[i]
    BY <1>8, <1>10
  <2> QED
    BY <2>1, <2>2, SeqEqual
<1> QED
  BY <1>6, <1>7, <1>11 DEF left, right, withM, withN, moved

\* Two mutations of different rows can be applied in either order when the
\* second is rebased: a queued edit means on the server what it meant on the
\* page.  Two deletions must leave a row.
THEOREM RebaseCommutes ==
  ASSUME NEW doc \in Document, NEW m \in Mutation, NEW n \in Mutation,
         InBounds(doc, m), InBounds(doc, n), ~ SameRow(m, n),
         m.kind = "delete" /\ n.kind = "delete" => Len(doc) > 2
  PROVE  /\ InBounds(Applied(doc, m), Rebased(n, m))
         /\ Applied(Applied(doc, m), Rebased(n, m)) =
              Applied(Applied(doc, n), Rebased(m, n))
<1>1. m.at < n.at \/ n.at < m.at
  BY DEF SameRow, Mutation
<1>2. CASE m.at < n.at
  BY <1>2, UpperAndLower, UpperStays
<1>3. CASE n.at < m.at
  BY <1>3, UpperAndLower, UpperStays
<1> QED
  BY <1>1, <1>2, <1>3

\* A remote change above a structural draft, or any remote change above none,
\* may be applied unrebased: the cases ReceiveOther does not call crossed.
THEOREM UncrossedCommutes ==
  ASSUME NEW doc \in Document, NEW m \in Mutation, NEW n \in Mutation,
         InBounds(doc, m), InBounds(doc, n), ~ SameRow(m, n),
         m.kind = "delete" /\ n.kind = "delete" => Len(doc) > 2,
         ~ (Moves(n) /\ m.at > n.at)
  PROVE  Applied(Applied(doc, m), Rebased(n, m)) = Applied(Applied(doc, n), m)
<1>1. Rebased(m, n) = m
  <2>1. CASE m.at < n.at
    BY <2>1, UpperStays
  <2>2. CASE ~ Moves(n)
    BY <2>2 DEF Moves, Rebased, RowAfter, Mutation
  <2> QED
    BY <2>1, <2>2 DEF SameRow, Mutation
<1> QED
  BY <1>1, RebaseCommutes

-----------------------------------------------------------------------------
(* The pages, their histories and the server. *)

Sheets == {doc \in Document : Len(doc) > 0}

Queued ==
  [op : Ops, base : Nat, m : Mutation, undoes : 0 .. MaxEdits, undoesBase : Nat,
   aim : Int, draft : BOOLEAN]

Row ==
  [op : 0 .. MaxEdits, base : Nat, m : Mutation, undoes : 0 .. MaxEdits,
   aim : Int, hit : Int, astray : BOOLEAN]

Item ==
  [op : Ops, base : Nat, committed : Nat, m : Mutation, inverse : Mutation]

ServerTyped == log \in Seq(Row) /\ sheet \in Sheets /\ before \in Sheets

QueueTyped ==
  queue \in Seq(Queued) /\ refused \in BOOLEAN /\ nextOp \in 1 .. MaxEdits + 1

PageTyped ==
  /\ rows \in Sheets /\ revision \in Nat /\ revision <= Len(log)
  /\ stopped \in BOOLEAN /\ crossed \in BOOLEAN

HistoryTyped ==
  /\ Entry(undoStack) /\ Entry(redoStack)
  /\ Len(undoStack) + Len(redoStack) <= HistoryLimit

Typed == ServerTyped /\ QueueTyped /\ PageTyped /\ HistoryTyped

-----------------------------------------------------------------------------
(* Mutations and sheets. *)

LEMMA PossibleMutations ==
  ASSUME NEW doc \in Document, NEW cell \in Int, NEW m \in Mutations(doc, cell)
  PROVE  m \in Mutation /\ InBounds(doc, m)
<1>1. Len(doc) \in Nat
  BY RowsOf
<1> QED
  BY <1>1 DEF Mutations, Mutation, Blank

LEMMA UnderIsCell ==
  ASSUME NEW doc \in Document, NEW m \in Mutation, InBounds(doc, m)
  PROVE  Under(doc, m) \in Int
<1>1. Len(doc) \in Nat /\ doc \in [1 .. Len(doc) -> Int]
  BY RowsOf
<1>2. CASE m.kind = "insert"
  BY <1>2 DEF Under, Blank
<1>3. CASE m.kind # "insert"
  <2>1. m.at \in 1 .. Len(doc)
    BY <1>3 DEF InBounds, Mutation
  <2>2. doc[m.at] \in Int
    BY <1>1, <2>1
  <2> QED
    BY <1>3, <2>2 DEF Under
<1> QED
  BY <1>2, <1>3

LEMMA SheetsChange ==
  ASSUME NEW doc \in Sheets, NEW m \in Mutation, InBounds(doc, m)
  PROVE  Applied(doc, m) \in Sheets
BY MutationsKeepSheets DEF Sheets

LEMMA RebasedIsMutation ==
  ASSUME NEW m \in Mutation, NEW n \in Mutation, n.kind = "insert" \/ ~ SameRow(m, n)
  PROVE  Rebased(m, n) \in Mutation /\ Rebased(m, n).kind = m.kind
<1>1. RowAfter(m.at, n) \in Nat \ {0}
  BY DEF RowAfter, Mutation, SameRow
<1> QED
  BY <1>1 DEF Rebased, Mutation

-----------------------------------------------------------------------------
(* What the actions do, one by one. *)

\* What an operation of the page does to the queue.
Enqueued(m, undoes) ==
  /\ nextOp \in Ops
  /\ m \in Mutation
  /\ InBounds(rows, m)
  /\ rows' = Applied(rows, m)
  /\ \E q \in Queued :
       /\ q.op = nextOp /\ q.base = revision /\ q.m = m /\ q.undoes = undoes
       /\ q.aim = Under(rows, m)
       /\ queue' = Append(queue, q)
  /\ nextOp' = nextOp + 1
  /\ UNCHANGED <<serverVars, refused, revision, stopped, crossed>>

LEMMA EnqueueQueues ==
  ASSUME Typed, NEW m \in Mutation, NEW undoes \in 0 .. MaxEdits, NEW base \in Nat,
         NEW draft \in BOOLEAN, Enqueue(m, undoes, base, draft)
  PROVE  Enqueued(m, undoes)
<1>1. PICK q : q = [op |-> nextOp, base |-> revision, m |-> m,
                    undoes |-> undoes, undoesBase |-> base,
                    aim |-> Under(rows, m), draft |-> draft]
  OBVIOUS
<1>2. nextOp \in Ops /\ revision \in Nat /\ InBounds(rows, m) /\ rows \in Document
  BY DEF Enqueue, Typed, PageTyped, Sheets
<1>3. Under(rows, m) \in Int
  BY <1>2, UnderIsCell
<1>4. q \in Queued
  BY <1>1, <1>2, <1>3 DEF Queued
<1>5. /\ q.op = nextOp /\ q.base = revision /\ q.m = m /\ q.undoes = undoes
      /\ q.aim = Under(rows, m)
  BY <1>1
<1>6. queue' = Append(queue, q)
  BY <1>1 DEF Enqueue
<1> QED
  BY <1>2, <1>4, <1>5, <1>6 DEF Enqueue, Enqueued

\* What the operation says of the one it undoes.
LEMMA EnqueueNames ==
  ASSUME Typed, NEW m, NEW undoes, NEW base, NEW draft, Enqueue(m, undoes, base, draft)
  PROVE  /\ queue'[Len(queue) + 1].undoesBase = base
         /\ queue'[Len(queue) + 1].draft = draft
<1>1. PICK q : q = [op |-> nextOp, base |-> revision, m |-> m,
                    undoes |-> undoes, undoesBase |-> base,
                    aim |-> Under(rows, m), draft |-> draft]
  OBVIOUS
<1>2. queue' = Append(queue, q) /\ queue \in Seq(Queued)
  BY <1>1 DEF Enqueue, Typed, QueueTyped
<1>3. queue'[Len(queue) + 1] = q
  BY <1>2
<1> QED
  BY <1>1, <1>3

LEMMA TopOf ==
  ASSUME NEW stack, Entry(stack), stack # <<>>
  PROVE  /\ Len(stack) \in Nat \ {0}
         /\ Top(stack) \in Item
         /\ Top(stack) = stack[Len(stack)]
         /\ Top(stack).m.at = Top(stack).inverse.at
         /\ Entry(Popped(stack))
         /\ Len(Popped(stack)) = Len(stack) - 1
         /\ \A i \in DOMAIN Popped(stack) : i \in DOMAIN stack /\ Popped(stack)[i] = stack[i]
         /\ \A i \in DOMAIN Popped(stack) : i < Len(stack)
<1>1. stack \in Seq(Item) /\ \A i \in DOMAIN stack : stack[i].m.at = stack[i].inverse.at
  BY DEF Entry, Item
<1>2. Len(stack) \in Nat \ {0} /\ DOMAIN stack = 1 .. Len(stack)
  BY <1>1, EmptySeq, LenProperties
<1>3. \A i \in 1 .. Len(stack) : stack[i] \in Item
  BY <1>1, ElementOfSeq
<1>4. /\ Popped(stack) \in Seq(Item)
      /\ Len(Popped(stack)) = Len(stack) - 1
      /\ \A i \in 1 .. Len(stack) - 1 : Popped(stack)[i] = stack[i]
  <2>1. \A i \in 1 .. Len(stack) - 1 : stack[i] \in Item
    BY <1>2, <1>3
  <2>2. 1 \in Int /\ Len(stack) - 1 \in Int
    BY <1>2
  <2>3. /\ SubSeq(stack, 1, Len(stack) - 1) \in Seq(Item)
        /\ Len(SubSeq(stack, 1, Len(stack) - 1)) =
             IF 1 <= Len(stack) - 1 THEN Len(stack) - 1 - 1 + 1 ELSE 0
        /\ \A i \in 1 .. Len(stack) - 1 - 1 + 1 :
             SubSeq(stack, 1, Len(stack) - 1)[i] = stack[1 + i - 1]
    BY <2>1, <2>2, SubSeqProperties
  <2> QED
    BY <1>2, <2>3 DEF Popped
<1>5. DOMAIN Popped(stack) = 1 .. Len(stack) - 1
  BY <1>4, LenProperties
<1>6. Len(stack) \in 1 .. Len(stack)
  BY <1>2
<1>7. /\ Top(stack) \in Item
      /\ Top(stack) = stack[Len(stack)]
      /\ Top(stack).m.at = Top(stack).inverse.at
  BY <1>1, <1>2, <1>3, <1>6 DEF Top
<1>8. \A i \in DOMAIN Popped(stack) :
        i \in DOMAIN stack /\ Popped(stack)[i] = stack[i] /\ i < Len(stack)
  BY <1>2, <1>4, <1>5
<1>9. Entry(Popped(stack))
  BY <1>1, <1>4, <1>8 DEF Entry, Item
<1> QED
  BY <1>2, <1>4, <1>7, <1>8, <1>9

LEMMA AppendedEntry ==
  ASSUME NEW stack, Entry(stack), NEW e \in Item, e.m.at = e.inverse.at
  PROVE  /\ Entry(Append(stack, e))
         /\ Len(Append(stack, e)) = Len(stack) + 1 /\ Len(stack) \in Nat
         /\ DOMAIN stack = 1 .. Len(stack)
         /\ DOMAIN Append(stack, e) = 1 .. Len(stack) + 1
         /\ Append(stack, e)[Len(stack) + 1] = e
         /\ \A i \in DOMAIN stack : Append(stack, e)[i] = stack[i]
<1>1. stack \in Seq(Item) /\ \A i \in DOMAIN stack : stack[i].m.at = stack[i].inverse.at
  BY DEF Entry, Item
<1>2. Len(stack) \in Nat /\ DOMAIN stack = 1 .. Len(stack)
  BY <1>1, LenProperties
<1>3. /\ Append(stack, e) \in Seq(Item)
      /\ Len(Append(stack, e)) = Len(stack) + 1
      /\ \A i \in 1 .. Len(stack) : Append(stack, e)[i] = stack[i]
      /\ Append(stack, e)[Len(stack) + 1] = e
  BY <1>1, AppendProperties
<1>4. DOMAIN Append(stack, e) = 1 .. Len(stack) + 1
  BY <1>3, LenProperties
<1>5. \A i \in 1 .. Len(stack) + 1 : i \in 1 .. Len(stack) \/ i = Len(stack) + 1
  BY <1>2
<1>6. Entry(Append(stack, e))
  <2> SUFFICES ASSUME NEW i \in DOMAIN Append(stack, e)
               PROVE  Append(stack, e)[i].m.at = Append(stack, e)[i].inverse.at
    BY <1>3 DEF Entry, Item
  <2> QED
    BY <1>1, <1>2, <1>3, <1>4, <1>5
<1> QED
  BY <1>2, <1>3, <1>4, <1>6

\* The user: an operation of its own, undone or done again.
LEMMA ExecuteSteps ==
  ASSUME Typed, NEW m \in Mutations(rows, nextOp), Execute(m)
  PROVE  /\ Enqueued(m, 0)
         /\ \E e \in Item :
              /\ e.op = nextOp /\ e.committed = 0 /\ e.m.at = e.inverse.at
              /\ e.m = m /\ e.inverse = Inverted(rows, m)
              /\ undoStack' = Pushed(e)
         /\ redoStack' = <<>> /\ displaced' = displaced
<1>1. rows \in Document /\ nextOp \in Int /\ revision \in Nat
  BY DEF Typed, QueueTyped, PageTyped, Sheets
<1>2. m \in Mutation /\ InBounds(rows, m)
  BY <1>1, PossibleMutations
<1>3. 0 \in 0 .. MaxEdits /\ 0 \in Nat /\ FALSE \in BOOLEAN
  BY EditingAssumption
<1>4. Enqueued(m, 0)
  BY <1>2, <1>3, EnqueueQueues DEF Execute, Edit
<1>5. PICK e : e = [op |-> nextOp, base |-> revision, committed |-> 0,
                    m |-> m, inverse |-> Inverted(rows, m)]
  OBVIOUS
<1>6. Inverted(rows, m) \in Mutation /\ Inverted(rows, m).at = m.at
  BY <1>1, <1>2, InverseIsMutation DEF Inverted
<1>7. e \in Item
  BY <1>1, <1>2, <1>4, <1>5, <1>6 DEF Item, Enqueued
<1>8. /\ e.op = nextOp /\ e.committed = 0 /\ e.m.at = e.inverse.at
      /\ e.m = m /\ e.inverse = Inverted(rows, m)
  BY <1>5, <1>6
<1>9. undoStack' = Pushed(e) /\ redoStack' = <<>> /\ displaced' = displaced
  BY <1>5 DEF Execute
<1> QED
  BY <1>4, <1>7, <1>8, <1>9

LEMMA UndoSteps ==
  ASSUME Typed, Undo
  PROVE  \E e \in Item :
           /\ undoStack # <<>> /\ e = Top(undoStack) /\ Replayable(e)
           /\ Enqueued(e.inverse, e.op)
           /\ queue'[Len(queue) + 1].undoesBase = e.base
           /\ queue'[Len(queue) + 1].draft = (e.committed = 0)
           /\ undoStack' = Popped(undoStack)
           /\ redoStack' = Append(redoStack, e)
           /\ displaced' = displaced
<1>1. PICK e : e = Top(undoStack)
  OBVIOUS
<1>2. undoStack # <<>> /\ Entry(undoStack)
  BY DEF Undo, Typed, HistoryTyped
<1>3. e \in Item
  BY <1>1, <1>2, TopOf
<1>4. /\ e.inverse \in Mutation /\ e.op \in 0 .. MaxEdits /\ e.base \in Nat
      /\ (e.committed = 0) \in BOOLEAN
  BY <1>3, EditingAssumption DEF Item, Ops
<1>5. PICK draft \in BOOLEAN : draft = (e.committed = 0)
  BY <1>4
<1>6. Enqueue(e.inverse, e.op, e.base, draft)
  BY <1>1, <1>5 DEF Undo
<1>7. Enqueued(e.inverse, e.op)
  BY <1>4, <1>6, EnqueueQueues
<1>8. queue'[Len(queue) + 1].undoesBase = e.base /\ queue'[Len(queue) + 1].draft = draft
  BY <1>6, EnqueueNames
<1> QED
  BY <1>1, <1>2, <1>3, <1>5, <1>7, <1>8 DEF Undo

LEMMA RedoSteps ==
  ASSUME Typed, Redo
  PROVE  \E e, f \in Item :
           /\ redoStack # <<>> /\ f = Top(redoStack) /\ Replayable(f)
           /\ Enqueued(e.m, 0)
           /\ e.op = nextOp /\ e.committed = 0 /\ e.m.at = e.inverse.at
           /\ e.m = f.m /\ e.inverse = f.inverse
           /\ undoStack' = Append(undoStack, e)
           /\ redoStack' = Popped(redoStack)
           /\ displaced' = displaced
<1>1. PICK f : f = Top(redoStack)
  OBVIOUS
<1>2. redoStack # <<>> /\ Entry(redoStack) /\ revision \in Nat
  BY DEF Redo, Typed, HistoryTyped, PageTyped
<1>3. f \in Item /\ f.m.at = f.inverse.at
  BY <1>1, <1>2, TopOf
<1>4. f.m \in Mutation /\ 0 \in 0 .. MaxEdits /\ 0 \in Nat /\ FALSE \in BOOLEAN
  BY <1>3, EditingAssumption DEF Item
<1>5. Enqueue(f.m, 0, 0, FALSE)
  BY <1>1 DEF Redo
<1>6. Enqueued(f.m, 0)
  BY <1>4, <1>5, EnqueueQueues
<1>7. PICK e : e = Bound(f)
  OBVIOUS
<1>8. nextOp \in Ops
  BY <1>6 DEF Enqueued
<1>9. e = [op |-> nextOp, base |-> revision, committed |-> 0, m |-> f.m,
           inverse |-> f.inverse]
  BY <1>3, <1>7 DEF Bound, Item
<1>10. e \in Item
  BY <1>2, <1>3, <1>8, <1>9 DEF Item
<1>11. /\ e.op = nextOp /\ e.committed = 0 /\ e.m.at = e.inverse.at
       /\ e.m = f.m /\ e.inverse = f.inverse
  BY <1>3, <1>9
<1>12. Replayable(f)
  BY <1>1 DEF Redo
<1> QED
  BY <1>1, <1>2, <1>3, <1>6, <1>7, <1>10, <1>11, <1>12 DEF Redo

-----------------------------------------------------------------------------
(* Positions of a sequence. *)

LEMMA Places ==
  ASSUME NEW S, NEW s \in Seq(S)
  PROVE  /\ Len(s) \in Nat /\ DOMAIN s = 1 .. Len(s)
         /\ \A i \in DOMAIN s : s[i] \in S
         /\ s # <<>> <=> 1 \in DOMAIN s
         /\ s = <<>> <=> Len(s) = 0
<1>1. Len(s) \in Nat /\ DOMAIN s = 1 .. Len(s)
  BY LenProperties
<1>2. \A i \in DOMAIN s : s[i] \in S
  BY <1>1, ElementOfSeq
<1>3. s = <<>> <=> Len(s) = 0
  BY EmptySeq
<1> QED
  BY <1>1, <1>2, <1>3

LEMMA Appended ==
  ASSUME NEW S, NEW s \in Seq(S), NEW x \in S
  PROVE  /\ Append(s, x) \in Seq(S)
         /\ Len(Append(s, x)) = Len(s) + 1 /\ Len(s) \in Nat
         /\ DOMAIN Append(s, x) = 1 .. Len(s) + 1
         /\ DOMAIN s = 1 .. Len(s)
         /\ \A i \in DOMAIN s : i \in DOMAIN Append(s, x) /\ Append(s, x)[i] = s[i]
         /\ \A i \in DOMAIN Append(s, x) : i \in DOMAIN s \/ i = Len(s) + 1
         /\ Append(s, x)[Len(s) + 1] = x
<1>1. Len(s) \in Nat /\ DOMAIN s = 1 .. Len(s)
  BY LenProperties
<1>2. /\ Append(s, x) \in Seq(S)
      /\ Len(Append(s, x)) = Len(s) + 1
      /\ \A i \in 1 .. Len(s) : Append(s, x)[i] = s[i]
      /\ Append(s, x)[Len(s) + 1] = x
  BY AppendProperties
<1>3. DOMAIN Append(s, x) = 1 .. Len(s) + 1
  BY <1>2, LenProperties
<1> QED
  BY <1>1, <1>2, <1>3

-----------------------------------------------------------------------------
(* The server. *)

\* A revision is committed.
LogGrows(r) ==
  /\ r \in Row
  /\ log' = Append(log, r)
  /\ InBounds(sheet, r.m)
  /\ sheet' = Applied(sheet, r.m) /\ before' = sheet
  /\ r.hit = Under(sheet, r.m)
  /\ UNCHANGED <<queueVars, pageVars>>

\* The first operation of the queue, not handled so far, is committed as r.
OwnCommitted(r) ==
  /\ queue # <<>> /\ ~ refused
  /\ \A k \in DOMAIN log : log[k].op # queue[1].op
  /\ r.op = queue[1].op /\ r.base = queue[1].base /\ r.m = queue[1].m
  /\ r.undoes = queue[1].undoes /\ r.aim = queue[1].aim /\ r.astray = crossed
  /\ r.base <= Len(log)
  /\ \A k \in r.base + 1 .. Len(log) : ~ Moves(log[k].m) /\ ~ SameRow(log[k].m, r.m)
  /\ r.undoes # 0 => log # <<>> /\ log[Len(log)].op = r.undoes

LEMMA HeadOfQueue ==
  ASSUME Typed, queue # <<>>
  PROVE  Head(queue) = queue[1] /\ queue[1] \in Queued /\ 1 \in DOMAIN queue
BY Places, HeadTailProperties DEF Typed, QueueTyped

LEMMA AcceptSteps ==
  ASSUME Typed, Accept
  PROVE  \E r \in Row : LogGrows(r) /\ OwnCommitted(r)
<1>1. queue # <<>> /\ ~ refused /\ \A k \in DOMAIN log : log[k].op # Head(queue).op
  BY DEF Accept, InFlight
<1>2. PICK q : q = Head(queue)
  OBVIOUS
<1>3. q = queue[1] /\ q \in Queued
  BY <1>1, <1>2, HeadOfQueue
<1>4. Accepts(q) /\ Committed(q.op, q.base, q.m, q.undoes, q.aim, crossed)
  BY <1>2 DEF Accept
<1>5. PICK r : r = [op |-> q.op, base |-> q.base, m |-> q.m, undoes |-> q.undoes,
                    aim |-> q.aim, hit |-> Under(sheet, q.m), astray |-> crossed]
  OBVIOUS
<1>6. log' = Append(log, r) /\ sheet' = Applied(sheet, q.m) /\ before' = sheet
  BY <1>4, <1>5 DEF Committed
<1>7. q.base <= Len(log) /\ InBounds(sheet, q.m) /\ Disjoint(q)
  BY <1>4 DEF Accepts
<1>8. sheet \in Document /\ crossed \in BOOLEAN
  BY DEF Typed, ServerTyped, PageTyped, Sheets
<1>9. Under(sheet, q.m) \in Int
  BY <1>3, <1>7, <1>8, UnderIsCell DEF Queued
<1>10. q.op \in 0 .. MaxEdits
  BY <1>3, EditingAssumption DEF Queued, Ops
<1>11. r \in Row
  BY <1>3, <1>5, <1>8, <1>9, <1>10 DEF Queued, Row
<1>12. /\ r.op = q.op /\ r.base = q.base /\ r.m = q.m /\ r.undoes = q.undoes
       /\ r.aim = q.aim /\ r.hit = Under(sheet, q.m) /\ r.astray = crossed
  BY <1>5
<1>13. LogGrows(r)
  BY <1>6, <1>7, <1>11, <1>12 DEF LogGrows, Accept
<1>14. q.undoes # 0 => log # <<>> /\ log[Len(log)].op = q.undoes
  BY <1>4 DEF Accepts, UndoAllowed
<1>15. OwnCommitted(r)
  BY <1>1, <1>2, <1>3, <1>7, <1>12, <1>14 DEF OwnCommitted, Disjoint
<1> QED
  BY <1>11, <1>13, <1>15

LEMMA RemoteSteps ==
  ASSUME Typed, NEW m \in Mutations(sheet, -(Len(log) + 1)), RemoteCommit(m)
  PROVE  \E r \in Row :
           /\ LogGrows(r)
           /\ r.op = 0 /\ r.undoes = 0 /\ r.aim = r.hit /\ r.astray = FALSE
<1>1. sheet \in Document /\ Len(log) \in Nat
  BY Places DEF Typed, ServerTyped, Sheets
<1>2. -(Len(log) + 1) \in Int
  BY <1>1
<1>3. m \in Mutation /\ InBounds(sheet, m)
  BY <1>1, <1>2, PossibleMutations
<1>4. Under(sheet, m) \in Int
  BY <1>1, <1>3, UnderIsCell
<1>5. PICK r : r = [op |-> 0, base |-> Len(log), m |-> m, undoes |-> 0,
                    aim |-> Under(sheet, m), hit |-> Under(sheet, m), astray |-> FALSE]
  OBVIOUS
<1>6. log' = Append(log, r) /\ sheet' = Applied(sheet, m) /\ before' = sheet
  BY <1>5 DEF RemoteCommit, Committed
<1>7. 0 \in 0 .. MaxEdits
  BY EditingAssumption
<1>8. r \in Row
  BY <1>1, <1>3, <1>4, <1>5, <1>7 DEF Row
<1>9. /\ r.op = 0 /\ r.m = m /\ r.undoes = 0
      /\ r.aim = Under(sheet, m) /\ r.hit = Under(sheet, m) /\ r.astray = FALSE
  BY <1>5
<1>10. LogGrows(r)
  BY <1>3, <1>6, <1>8, <1>9 DEF LogGrows, RemoteCommit
<1> QED
  BY <1>8, <1>9, <1>10

-----------------------------------------------------------------------------
(* The page receives a revision. *)

OwnReceived ==
  /\ ~ stopped
  /\ revision < Len(log) /\ revision' = revision + 1 /\ revision' \in DOMAIN log
  /\ queue # <<>> /\ log[revision'].op = queue[1].op
  /\ queue' \in Seq(Queued) /\ Len(queue') = Len(queue) - 1
  /\ \A i \in DOMAIN queue' :
       /\ i \in Nat /\ i + 1 \in DOMAIN queue
       /\ queue'[i].op = queue[i + 1].op /\ queue'[i].m = queue[i + 1].m
       /\ queue'[i].undoes = queue[i + 1].undoes /\ queue'[i].aim = queue[i + 1].aim
       /\ queue'[i].draft = queue[i + 1].draft
       /\ queue'[i].base = revision' + i - 1
  /\ \A i \in DOMAIN queue : i # 1 => i - 1 \in DOMAIN queue'
  /\ UNCHANGED <<serverVars, refused, nextOp, rows, stopped, crossed>>

LEMMA RenumberedItem ==
  ASSUME NEW q \in Queued, NEW b \in Nat
  PROVE  /\ [q EXCEPT !.base = b] \in Queued
         /\ [q EXCEPT !.base = b].op = q.op
         /\ [q EXCEPT !.base = b].base = b
         /\ [q EXCEPT !.base = b].m = q.m
         /\ [q EXCEPT !.base = b].undoes = q.undoes
         /\ [q EXCEPT !.base = b].aim = q.aim
         /\ [q EXCEPT !.base = b].draft = q.draft
BY DEF Queued

LEMMA ReceiveOwnSteps ==
  ASSUME Typed, ReceiveOwn
  PROVE  OwnReceived
<1>1. /\ queue \in Seq(Queued) /\ queue # <<>> /\ revision \in Nat /\ log \in Seq(Row)
      /\ revision < Len(log) /\ revision' = revision + 1
  BY DEF Typed, ServerTyped, QueueTyped, PageTyped, ReceiveOwn, OwnIncoming
<1>2. /\ Len(queue) \in Nat \ {0} /\ DOMAIN queue = 1 .. Len(queue)
      /\ \A i \in DOMAIN queue : queue[i] \in Queued
  BY <1>1, Places
<1>3. PICK n \in Nat : n = Len(queue) - 1
  <2>1. Len(queue) - 1 \in Nat
    BY <1>2
  <2> QED
    BY <2>1
<1>4. queue' = [i \in 1 .. n |-> [queue[i + 1] EXCEPT !.base = revision' + i - 1]]
  BY <1>3 DEF ReceiveOwn, RestRenumbered
<1>5. ASSUME NEW i \in 1 .. n
      PROVE  /\ i \in Nat /\ i + 1 \in DOMAIN queue
             /\ queue'[i] \in Queued
             /\ queue'[i].op = queue[i + 1].op /\ queue'[i].m = queue[i + 1].m
             /\ queue'[i].undoes = queue[i + 1].undoes /\ queue'[i].aim = queue[i + 1].aim
             /\ queue'[i].draft = queue[i + 1].draft
             /\ queue'[i].base = revision' + i - 1
  <2>1. i \in Nat /\ i + 1 \in DOMAIN queue
    BY <1>2, <1>3
  <2>2. PICK q \in Queued : q = queue[i + 1]
    BY <1>2, <2>1
  <2>3. PICK b \in Nat : b = revision' + i - 1
    BY <1>1
  <2>4. PICK r : r = [q EXCEPT !.base = b]
    OBVIOUS
  <2>5. queue'[i] = r
    BY <1>4, <2>2, <2>3, <2>4
  <2>6. /\ r \in Queued /\ r.op = q.op /\ r.base = b /\ r.m = q.m
        /\ r.undoes = q.undoes /\ r.aim = q.aim /\ r.draft = q.draft
    BY <2>4, RenumberedItem
  <2> QED
    BY <2>1, <2>2, <2>3, <2>5, <2>6
<1>6. queue' \in [1 .. n -> Queued]
  <2>1. DOMAIN queue' = 1 .. n /\ queue' = [i \in 1 .. n |-> queue'[i]]
    BY <1>4
  <2> QED
    BY <1>5, <2>1
<1>7. queue' \in Seq(Queued)
  BY <1>6, SeqDef
<1>8. Len(queue') = n /\ DOMAIN queue' = 1 .. n
  BY <1>6, <1>7, Places
<1>9. revision' \in DOMAIN log
  BY <1>1, Places
<1>10. log[revision'].op = queue[1].op
  BY <1>1, HeadOfQueue DEF ReceiveOwn, OwnIncoming, Incoming
<1>11. \A i \in DOMAIN queue : i # 1 => i - 1 \in DOMAIN queue'
  BY <1>2, <1>3, <1>8
<1> QED
  BY <1>1, <1>3, <1>5, <1>7, <1>8, <1>9, <1>10, <1>11 DEF OwnReceived, ReceiveOwn

OtherReceived(c) ==
  /\ ~ stopped
  /\ revision < Len(log) /\ revision' = revision + 1 /\ revision' \in DOMAIN log
  /\ c = log[revision'].m /\ c \in Mutation /\ InBounds(rows, c)
  /\ queue # <<>> => log[revision'].op # queue[1].op
  /\ rows' = Applied(rows, c)
  /\ queue' \in Seq(Queued) /\ Len(queue') = Len(queue) /\ DOMAIN queue' = DOMAIN queue
  /\ \A i \in DOMAIN queue :
       /\ ~ SameRow(queue[i].m, c)
       /\ queue'[i].op = queue[i].op /\ queue'[i].undoes = queue[i].undoes
       /\ queue'[i].aim = queue[i].aim /\ queue'[i].draft = queue[i].draft
       /\ i # 1 => queue'[i].m = Rebased(queue[i].m, c)
       /\ i = 1 => queue'[i] = queue[i]
  /\ crossed' = (crossed \/ \E i \in DOMAIN queue :
                              Moves(queue[i].m) /\ c.at > queue[i].m.at)
  /\ UNCHANGED <<serverVars, refused, nextOp, stopped>>

LEMMA ReceiveOtherSteps ==
  ASSUME Typed, ReceiveOther
  PROVE  OtherReceived(Incoming.m)
<1>1. /\ queue \in Seq(Queued) /\ revision \in Nat /\ log \in Seq(Row)
      /\ revision < Len(log) /\ revision' = revision + 1
  BY DEF Typed, ServerTyped, QueueTyped, PageTyped, ReceiveOther
<1>2. /\ Len(queue) \in Nat /\ DOMAIN queue = 1 .. Len(queue)
      /\ \A i \in DOMAIN queue : queue[i] \in Queued
  BY <1>1, Places
<1>3. revision' \in DOMAIN log /\ log[revision'] \in Row
  BY <1>1, Places
<1>4. PICK c : c = Incoming.m
  OBVIOUS
<1>5. c = log[revision'].m /\ c \in Mutation
  BY <1>1, <1>3, <1>4 DEF Incoming, Row
<1>6. InBounds(rows, c) /\ \A i \in DOMAIN queue : ~ SameRow(queue[i].m, c)
  BY <1>4 DEF ReceiveOther, Conflicting
<1>7. PICK n \in Nat : n = Len(queue)
  BY <1>2
<1>8. queue' = [i \in 1 .. n |->
                  IF i > 1
                  THEN [queue[i] EXCEPT !.base = revision' + i - 1, !.m = Rebased(@, c)]
                  ELSE queue[i]]
  BY <1>2, <1>4, <1>7 DEF ReceiveOther, RebasedQueue
<1>9. ASSUME NEW i \in 1 .. n
      PROVE  /\ queue'[i] \in Queued
             /\ queue'[i].op = queue[i].op /\ queue'[i].undoes = queue[i].undoes
             /\ queue'[i].aim = queue[i].aim /\ queue'[i].draft = queue[i].draft
             /\ i # 1 => queue'[i].m = Rebased(queue[i].m, c)
             /\ i = 1 => queue'[i] = queue[i]
  <2>1. PICK q \in Queued : q = queue[i]
    BY <1>2, <1>7
  <2>2. CASE i = 1
    <3>1. ~ (i > 1)
      BY <2>2
    <3>2. queue'[i] = queue[i]
      BY <1>8, <3>1
    <3> QED
      BY <2>1, <2>2, <3>2
  <2>3. CASE i # 1
    <3>1. i > 1
      BY <2>3
    <3>2. PICK b \in Nat : b = revision' + i - 1
      BY <1>1
    <3>3. q.m \in Mutation /\ ~ SameRow(q.m, c)
      BY <1>2, <1>6, <1>7, <2>1 DEF Queued
    <3>4. Rebased(q.m, c) \in Mutation
      BY <1>5, <3>3, RebasedIsMutation
    <3>5. PICK m \in Mutation : m = Rebased(q.m, c)
      BY <3>4
    <3>6. PICK r : r = [q EXCEPT !.base = b, !.m = m]
      OBVIOUS
    <3>7. queue'[i] = r
      BY <1>8, <2>1, <3>1, <3>2, <3>5, <3>6 DEF Queued
    <3>8. /\ r \in Queued /\ r.op = q.op /\ r.m = m
          /\ r.undoes = q.undoes /\ r.aim = q.aim /\ r.draft = q.draft
      <4>1. q \in Queued /\ b \in Nat /\ m \in Mutation
        BY <2>1, <3>2, <3>5
      <4>2. /\ [q EXCEPT !.base = b, !.m = m] \in Queued
            /\ [q EXCEPT !.base = b, !.m = m].op = q.op
            /\ [q EXCEPT !.base = b, !.m = m].m = m
            /\ [q EXCEPT !.base = b, !.m = m].undoes = q.undoes
            /\ [q EXCEPT !.base = b, !.m = m].aim = q.aim
            /\ [q EXCEPT !.base = b, !.m = m].draft = q.draft
        BY <4>1 DEF Queued
      <4> QED
        BY <3>6, <4>2
    <3> QED
      BY <2>1, <2>3, <3>5, <3>7, <3>8
  <2> QED
    BY <2>2, <2>3
<1>10. queue' \in [1 .. n -> Queued]
  <2>1. DOMAIN queue' = 1 .. n /\ queue' = [i \in 1 .. n |-> queue'[i]]
    BY <1>8
  <2> QED
    BY <1>9, <2>1
<1>11. queue' \in Seq(Queued)
  BY <1>10, SeqDef
<1>12. Len(queue') = n /\ DOMAIN queue' = 1 .. n
  BY <1>10, <1>11, Places
<1>13. queue # <<>> => log[revision'].op # queue[1].op
  BY <1>1, HeadOfQueue DEF ReceiveOther, OwnIncoming, Incoming
<1>14. crossed' = (crossed \/ \E i \in DOMAIN queue :
                                Moves(queue[i].m) /\ c.at > queue[i].m.at)
  BY <1>4 DEF ReceiveOther, Crosses
<1>15. OtherReceived(c)
  <2>1. DOMAIN queue' = DOMAIN queue /\ Len(queue') = Len(queue)
    BY <1>2, <1>7, <1>12
  <2> QED
    BY <1>1, <1>2, <1>3, <1>4, <1>5, <1>6, <1>7, <1>9, <1>11, <1>13, <1>14, <2>1
      DEF OtherReceived, ReceiveOther
<1> QED
  BY <1>4, <1>15

-----------------------------------------------------------------------------
(* The entries of the stacks. *)

\* An entry after its operation was committed.
MarkedItem(e, f) ==
  /\ f \in Item /\ f.op = e.op /\ f.m = e.m /\ f.inverse = e.inverse
  /\ f.op # Incoming.op => f = e
  /\ f.op = Incoming.op => f.committed = revision + 1 /\ f.base = Incoming.base

LEMMA MarkedProperties ==
  ASSUME Typed, revision < Len(log), NEW stack, Entry(stack)
  PROVE  /\ Entry(Marked(stack)) /\ Len(Marked(stack)) = Len(stack)
         /\ DOMAIN Marked(stack) = DOMAIN stack
         /\ \A i \in DOMAIN stack : MarkedItem(stack[i], Marked(stack)[i])
<1>1. stack \in Seq(Item) /\ \A i \in DOMAIN stack : stack[i].m.at = stack[i].inverse.at
  BY DEF Entry, Item
<1>2. /\ Len(stack) \in Nat /\ DOMAIN stack = 1 .. Len(stack)
      /\ \A i \in DOMAIN stack : stack[i] \in Item
  BY <1>1, Places
<1>3. PICK n \in Nat : n = Len(stack)
  BY <1>2
<1>4. PICK s : s = Marked(stack)
  OBVIOUS
<1>5. PICK c \in Nat, b \in Nat : c = revision + 1 /\ b = Incoming.base
  <2>1. revision + 1 \in Nat /\ revision + 1 \in DOMAIN log
    BY Places DEF Typed, ServerTyped, PageTyped
  <2>2. log[revision + 1] \in Row
    BY <2>1, Places DEF Typed, ServerTyped
  <2>3. Incoming.base \in Nat
    BY <2>2 DEF Incoming, Row
  <2> QED
    BY <2>1, <2>3
<1>6. s = [i \in 1 .. n |-> IF stack[i].op = Incoming.op
                            THEN [stack[i] EXCEPT !.committed = c, !.base = b]
                            ELSE stack[i]]
  BY <1>2, <1>3, <1>4, <1>5 DEF Marked
<1>7. ASSUME NEW i \in 1 .. n
      PROVE  MarkedItem(stack[i], s[i])
  <2>1. PICK e \in Item : e = stack[i]
    BY <1>2, <1>3
  <2>2. CASE e.op = Incoming.op
    <3>1. PICK f : f = [e EXCEPT !.committed = c, !.base = b]
      OBVIOUS
    <3>2. s[i] = f
      BY <1>6, <2>1, <2>2, <3>1
    <3>3. /\ f \in Item /\ f.op = e.op /\ f.m = e.m /\ f.inverse = e.inverse
          /\ f.committed = c /\ f.base = b
      BY <1>5, <2>1, <3>1 DEF Item
    <3> QED
      BY <1>5, <2>1, <2>2, <3>2, <3>3 DEF MarkedItem
  <2>3. CASE e.op # Incoming.op
    <3>1. s[i] = e
      BY <1>6, <2>1, <2>3
    <3> QED
      BY <2>1, <2>3, <3>1 DEF MarkedItem
  <2> QED
    BY <2>2, <2>3
<1>8. s \in [1 .. n -> Item]
  <2>1. DOMAIN s = 1 .. n /\ s = [i \in 1 .. n |-> s[i]]
    BY <1>6
  <2>2. \A i \in 1 .. n : s[i] \in Item
    BY <1>7 DEF MarkedItem
  <2> QED
    BY <2>1, <2>2
<1>9. s \in Seq(Item) /\ Len(s) = n /\ DOMAIN s = 1 .. n
  BY <1>8, SeqDef, LenProperties
<1>10. Entry(s)
  <2>1. \A i \in 1 .. n : s[i].m.at = s[i].inverse.at
    BY <1>1, <1>2, <1>3, <1>7 DEF MarkedItem
  <2> QED
    BY <1>9, <2>1 DEF Entry, Item
<1> QED
  BY <1>2, <1>3, <1>4, <1>7, <1>9, <1>10

\* The entry f is e, moved by c.
MovedItem(e, f, c) ==
  /\ f \in Item
  /\ f.m = Rebased(e.m, c) /\ f.inverse = Rebased(e.inverse, c)
  /\ f.op = e.op /\ f.base = e.base /\ f.committed = e.committed
  /\ f.m.at = f.inverse.at

LEMMA ItemIsMoved ==
  ASSUME NEW e \in Item, e.m.at = e.inverse.at, NEW c \in Mutation, Survives(e, c)
  PROVE  MovedItem(e, Moved(e, c), c)
<1>1. c.kind = "insert" \/ (~ SameRow(e.m, c) /\ ~ SameRow(e.inverse, c))
  BY DEF Survives, SameRow
<1>2. PICK m \in Mutation, n \in Mutation : m = Rebased(e.m, c) /\ n = Rebased(e.inverse, c)
  <2>1. e.m \in Mutation /\ e.inverse \in Mutation
    BY DEF Item
  <2> QED
    BY <1>1, <2>1, RebasedIsMutation
<1>3. m.at = n.at
  BY <1>2 DEF Rebased, Item, Mutation
<1>4. Moved(e, c) = [e EXCEPT !.m = m, !.inverse = n]
  BY <1>2 DEF Moved, Item
<1>5. PICK f : f = [e EXCEPT !.m = m, !.inverse = n]
  OBVIOUS
<1>6. /\ f \in Item /\ f.op = e.op /\ f.base = e.base /\ f.committed = e.committed
      /\ f.m = m /\ f.inverse = n
  BY <1>2, <1>5 DEF Item
<1> QED
  BY <1>2, <1>3, <1>4, <1>5, <1>6 DEF MovedItem

\* The entries of s are those of a stack that survive c, in their order, moved.
Thinned(stack, s, c) ==
  /\ Entry(s) /\ Len(s) <= Len(stack)
  /\ \E f \in [DOMAIN s -> DOMAIN stack] :
       /\ \A i \in DOMAIN s : Survives(stack[f[i]], c) /\ MovedItem(stack[f[i]], s[i], c)
       /\ \A i, j \in DOMAIN s : i < j => f[i] < f[j]
       /\ \A k \in DOMAIN stack : Survives(stack[k], c) => \E i \in DOMAIN s : f[i] = k

LEMMA TransformedProperties ==
  ASSUME NEW stack, Entry(stack), NEW c \in Mutation
  PROVE  Thinned(stack, Transformed(stack, c), c)
<1>1. stack \in Seq(Item) /\ \A i \in DOMAIN stack : stack[i].m.at = stack[i].inverse.at
  BY DEF Entry, Item
<1>2. PICK K \in SUBSET DOMAIN stack : K = {i \in DOMAIN stack : Survives(stack[i], c)}
  OBVIOUS
<1>3. PICK kept : kept = Kept(stack, K)
  OBVIOUS
<1>4. /\ kept \in Seq(Item)
      /\ Len(kept) = Cardinality(K)
      /\ DOMAIN kept = 1 .. Cardinality(K)
      /\ \A i \in 1 .. Cardinality(K) : Nth(K, i) \in K /\ kept[i] = stack[Nth(K, i)]
      /\ \A i, j \in 1 .. Cardinality(K) : i < j => Nth(K, i) < Nth(K, j)
  BY <1>1, <1>3, KeptProperties
<1>5. Cardinality(K) \in Nat /\ Cardinality(K) <= Len(stack)
  BY <1>1, PositionsAreFinite
<1>6. PICK n \in Nat : n = Cardinality(K)
  BY <1>5
<1>7. PICK s : s = Transformed(stack, c)
  OBVIOUS
<1>8. s = [i \in 1 .. n |-> Moved(kept[i], c)]
  BY <1>2, <1>3, <1>4, <1>6, <1>7 DEF Transformed
<1>9. ASSUME NEW i \in 1 .. n
      PROVE  /\ Nth(K, i) \in DOMAIN stack /\ Survives(stack[Nth(K, i)], c)
             /\ MovedItem(stack[Nth(K, i)], s[i], c)
  <2>1. Nth(K, i) \in K /\ kept[i] = stack[Nth(K, i)]
    BY <1>4, <1>6
  <2>2. PICK e \in Item : e = stack[Nth(K, i)]
    BY <1>1, <2>1, Places
  <2>3. Survives(e, c) /\ e.m.at = e.inverse.at
    BY <1>1, <1>2, <2>1, <2>2
  <2>4. s[i] = Moved(e, c)
    BY <1>8, <2>1, <2>2
  <2> QED
    BY <1>2, <2>1, <2>2, <2>3, <2>4, ItemIsMoved
<1>10. s \in [1 .. n -> Item]
  <2>1. DOMAIN s = 1 .. n /\ s = [i \in 1 .. n |-> s[i]]
    BY <1>8
  <2>2. \A i \in 1 .. n : s[i] \in Item
    BY <1>9 DEF MovedItem
  <2> QED
    BY <2>1, <2>2
<1>11. s \in Seq(Item) /\ Len(s) = n /\ DOMAIN s = 1 .. n
  BY <1>10, SeqDef, LenProperties
<1>12. Entry(s)
  <2>1. \A i \in 1 .. n : s[i].m.at = s[i].inverse.at
    BY <1>9 DEF MovedItem
  <2> QED
    BY <1>11, <2>1 DEF Entry, Item
<1>13. PICK f : f = [i \in 1 .. n |-> Nth(K, i)]
  OBVIOUS
<1>14. /\ f \in [DOMAIN s -> DOMAIN stack]
       /\ \A i \in DOMAIN s : Survives(stack[f[i]], c) /\ MovedItem(stack[f[i]], s[i], c)
       /\ \A i, j \in DOMAIN s : i < j => f[i] < f[j]
  BY <1>4, <1>6, <1>9, <1>11, <1>13
<1>15. ASSUME NEW k \in DOMAIN stack, Survives(stack[k], c)
       PROVE  \E i \in DOMAIN s : f[i] = k
  <2>1. k \in K
    BY <1>2, <1>15
  <2>2. \A j \in K : Rank(K, j) \in 1 .. Cardinality(K) /\ Nth(K, Rank(K, j)) = j
    BY <1>1, KeptProperties
  <2>3. PICK i \in 1 .. Cardinality(K) : Nth(K, i) = k
    BY <2>1, <2>2
  <2> QED
    BY <1>6, <1>11, <1>13, <2>3
<1> QED
  BY <1>5, <1>6, <1>7, <1>11, <1>12, <1>14, <1>15 DEF Thinned

\* The newest entry is on top, and the oldest has gone if there were too many.
LEMMA PushedProperties ==
  ASSUME Entry(undoStack), Len(undoStack) <= HistoryLimit, NEW e \in Item,
         e.m.at = e.inverse.at
  PROVE  /\ Entry(Pushed(e)) /\ Len(Pushed(e)) <= HistoryLimit
         /\ \E d \in {0, 1} :
              \A i \in DOMAIN Pushed(e) :
                /\ i \in Nat
                /\ i + d \in 1 .. Len(undoStack) + 1
                /\ i + d \in DOMAIN undoStack => Pushed(e)[i] = undoStack[i + d]
                /\ i + d = Len(undoStack) + 1 => Pushed(e)[i] = e
<1>1. undoStack \in Seq(Item) /\ HistoryLimit \in Nat
  BY HistoryAssumption DEF Entry, Item
<1>2. PICK s : s = Append(undoStack, e)
  OBVIOUS
<1>3. /\ Entry(s) /\ Len(s) = Len(undoStack) + 1 /\ Len(undoStack) \in Nat
      /\ DOMAIN undoStack = 1 .. Len(undoStack)
      /\ DOMAIN s = 1 .. Len(undoStack) + 1
      /\ s[Len(undoStack) + 1] = e
      /\ \A i \in DOMAIN undoStack : s[i] = undoStack[i]
  BY <1>2, AppendedEntry
<1>4. s \in Seq(Item) /\ s # <<>> /\ \A i \in DOMAIN s : s[i].m.at = s[i].inverse.at
  BY <1>3, EmptySeq DEF Entry, Item
<1>5. CASE ~ (Len(s) > HistoryLimit)
  <2>1. Pushed(e) = s
    BY <1>2, <1>5 DEF Pushed
  <2>2. 0 \in {0, 1} /\ \A i \in DOMAIN s : i \in Nat /\ i + 0 = i
    BY <1>3
  <2> QED
    BY <1>1, <1>3, <1>5, <2>1, <2>2
<1>6. CASE Len(s) > HistoryLimit
  <2>1. Pushed(e) = Tail(s)
    BY <1>2, <1>6 DEF Pushed
  <2>2. /\ Tail(s) \in Seq(Item) /\ Len(Tail(s)) = Len(s) - 1
        /\ \A i \in 1 .. Len(s) - 1 : Tail(s)[i] = s[i + 1]
    BY <1>4, HeadTailProperties
  <2>3. DOMAIN Tail(s) = 1 .. Len(undoStack)
    BY <1>3, <2>2, LenProperties
  <2>4. \A i \in DOMAIN Tail(s) :
          i \in Nat /\ i + 1 \in DOMAIN s /\ Tail(s)[i] = s[i + 1]
    BY <1>3, <2>2, <2>3
  <2>5. Entry(Tail(s))
    BY <1>4, <2>2, <2>4 DEF Entry, Item
  <2>6. 1 \in {0, 1} /\ Len(Tail(s)) <= HistoryLimit
    BY <1>3, <2>2
  <2> QED
    BY <1>3, <2>1, <2>4, <2>5, <2>6
<1> QED
  BY <1>5, <1>6

-----------------------------------------------------------------------------
(* Every step is one of these. *)

Executed ==
  \E m \in Mutation, e \in Item :
    /\ Enqueued(m, 0)
    /\ e.op = nextOp /\ e.committed = 0 /\ e.m.at = e.inverse.at
    /\ e.m = m /\ e.inverse = Inverted(rows, m)
    /\ undoStack' = Pushed(e) /\ redoStack' = <<>>
    /\ displaced' = displaced

Undone ==
  \E e \in Item :
    /\ undoStack # <<>> /\ e = Top(undoStack) /\ Replayable(e)
    /\ Enqueued(e.inverse, e.op)
    /\ queue'[Len(queue) + 1].undoesBase = e.base
    /\ queue'[Len(queue) + 1].draft = (e.committed = 0)
    /\ undoStack' = Popped(undoStack) /\ redoStack' = Append(redoStack, e)
    /\ displaced' = displaced

Redone ==
  \E e, f \in Item :
    /\ redoStack # <<>> /\ f = Top(redoStack) /\ Replayable(f)
    /\ Enqueued(e.m, 0)
    /\ e.op = nextOp /\ e.committed = 0 /\ e.m.at = e.inverse.at
    /\ e.m = f.m /\ e.inverse = f.inverse
    /\ undoStack' = Append(undoStack, e) /\ redoStack' = Popped(redoStack)
    /\ displaced' = displaced

Acknowledged ==
  /\ OwnReceived
  /\ undoStack' = Marked(undoStack) /\ redoStack' = Marked(redoStack)
  /\ displaced' = displaced

Received ==
  \E c \in Mutation :
    /\ OtherReceived(c)
    /\ Thinned(undoStack, undoStack', c) /\ Thinned(redoStack, redoStack', c)
    /\ displaced' = (displaced \/ Displaces(undoStack, c) \/ Displaces(redoStack, c))

Reloaded ==
  /\ ~ InFlight
  /\ stopped \/ refused
  /\ rows' = sheet /\ revision' = Len(log) /\ queue' = <<>>
  /\ refused' = FALSE /\ stopped' = FALSE /\ crossed' = FALSE
  /\ undoStack' = <<>> /\ redoStack' = <<>> /\ displaced' = FALSE
  /\ UNCHANGED <<serverVars, nextOp>>

Grown ==
  \E r \in Row :
    /\ LogGrows(r)
    /\ \/ OwnCommitted(r)
       \/ r.op = 0 /\ r.undoes = 0 /\ r.aim = r.hit /\ r.astray = FALSE
    /\ UNCHANGED <<undoStack, redoStack, displaced>>

\* The first request is refused, or the page stops, or nothing happens.
Halted ==
  /\ UNCHANGED <<serverVars, queue, nextOp, rows, revision, crossed>>
  /\ UNCHANGED <<undoStack, redoStack, displaced>>
  /\ stopped' \in BOOLEAN /\ refused' \in BOOLEAN
  /\ refused' => refused \/ (queue # <<>> /\ \A k \in DOMAIN log : log[k].op # queue[1].op)
  /\ refused' => refused \/ ~ Accepts(queue[1])

LEMMA Steps ==
  ASSUME Typed, [Next]_vars
  PROVE  \/ Executed \/ Undone \/ Redone \/ Acknowledged
         \/ Received \/ Reloaded \/ Grown \/ Halted
<1>1. ASSUME NEW m \in Mutations(rows, nextOp), Execute(m) PROVE Executed
  <2>1. m \in Mutation
    <3>1. rows \in Document /\ nextOp \in Int
      BY DEF Typed, QueueTyped, PageTyped, Sheets
    <3> QED
      BY <3>1, PossibleMutations
  <2> QED
    BY <1>1, <2>1, ExecuteSteps DEF Executed
<1>2. ASSUME Undo PROVE Undone
  BY <1>2, UndoSteps DEF Undone
<1>3. ASSUME Redo PROVE Redone
  BY <1>3, RedoSteps DEF Redone
<1>4. ASSUME Acknowledge PROVE Acknowledged
  BY <1>4, ReceiveOwnSteps DEF Acknowledge, Acknowledged
<1>5. ASSUME ReceiveRemote PROVE Received
  <2>1. PICK c : c = Incoming.m
    OBVIOUS
  <2>2. OtherReceived(c)
    BY <1>5, <2>1, ReceiveOtherSteps DEF ReceiveRemote
  <2>3. c \in Mutation
    BY <2>2 DEF OtherReceived
  <2>4. Entry(undoStack) /\ Entry(redoStack)
    BY DEF Typed, HistoryTyped
  <2>5. /\ undoStack' = Transformed(undoStack, c) /\ redoStack' = Transformed(redoStack, c)
        /\ displaced' = (displaced \/ Displaces(undoStack, c) \/ Displaces(redoStack, c))
    BY <1>5, <2>1 DEF ReceiveRemote
  <2> QED
    BY <2>2, <2>3, <2>4, <2>5, TransformedProperties DEF Received
<1>6. ASSUME Reload PROVE Reloaded
  BY <1>6 DEF Reload, Discard, Reloaded
<1>7. ASSUME Server PROVE Grown \/ Halted
  <2>1. ASSUME Accept PROVE Grown
    BY <1>7, <2>1, AcceptSteps DEF Grown, Server
  <2>2. ASSUME NEW m \in Mutations(sheet, -(Len(log) + 1)), RemoteCommit(m) PROVE Grown
    BY <1>7, <2>2, RemoteSteps DEF Grown, Server
  <2>3. ASSUME Refuse PROVE Halted
    <3>1. /\ queue # <<>> /\ \A k \in DOMAIN log : log[k].op # queue[1].op
          /\ ~ Accepts(queue[1])
      BY <2>3, HeadOfQueue DEF Refuse, InFlight
    <3>2. stopped \in BOOLEAN
      BY DEF Typed, PageTyped
    <3>3. UNCHANGED <<serverVars, queue, nextOp, pageVars, undoStack, redoStack, displaced>>
      BY <1>7, <2>3 DEF Refuse, Server
    <3> QED
      BY <2>3, <3>1, <3>2, <3>3 DEF Refuse, Halted, pageVars
  <2>4. ASSUME Stop PROVE Halted
    <3>1. refused \in BOOLEAN
      BY DEF Typed, QueueTyped
    <3> QED
      BY <1>7, <2>4, <3>1 DEF Stop, Halted, queueVars, Server
  <2> QED
    BY <1>7, <2>1, <2>2, <2>3, <2>4 DEF Server
<1>8. ASSUME UNCHANGED vars PROVE Halted
  <2>1. refused \in BOOLEAN /\ stopped \in BOOLEAN
    BY DEF Typed, QueueTyped, PageTyped
  <2> QED
    BY <1>8, <2>1 DEF vars, editingVars, queueVars, pageVars, Halted
<1> QED
  BY <1>1, <1>2, <1>3, <1>4, <1>5, <1>6, <1>7, <1>8 DEF Next

-----------------------------------------------------------------------------
(* Types. *)

LEMMA EmptyEntry == Entry(<<>>) /\ Len(<<>>) = 0
BY EmptySeq DEF Entry

LEMMA EnqueuedTyped ==
  ASSUME Typed, NEW m \in Mutation, NEW undoes, Enqueued(m, undoes)
  PROVE  ServerTyped' /\ QueueTyped' /\ PageTyped'
<1>1. rows' \in Sheets
  BY SheetsChange DEF Typed, PageTyped, Enqueued
<1>2. PICK q \in Queued : queue' = Append(queue, q)
  BY DEF Enqueued
<1>3. queue' \in Seq(Queued)
  BY <1>2, Appended DEF Typed, QueueTyped
<1>4. nextOp' \in 1 .. MaxEdits + 1
  BY EditingAssumption DEF Enqueued, Ops
<1> QED
  BY <1>1, <1>3, <1>4 DEF Typed, ServerTyped, QueueTyped, PageTyped, Enqueued, serverVars

LEMMA TypedSteps ==
  ASSUME Typed, [Next]_vars
  PROVE  Typed'
<1> USE DEF Typed
<1>1. /\ Entry(undoStack) /\ Entry(redoStack)
      /\ Len(undoStack) \in Nat /\ Len(redoStack) \in Nat /\ HistoryLimit \in Nat
      /\ Len(undoStack) + Len(redoStack) <= HistoryLimit
  BY HistoryAssumption, Places DEF HistoryTyped, Entry
<1>2. CASE Executed
  <2>1. PICK m \in Mutation, e \in Item :
          /\ Enqueued(m, 0) /\ e.m.at = e.inverse.at
          /\ undoStack' = Pushed(e) /\ redoStack' = <<>>
    BY <1>2 DEF Executed
  <2>2. Entry(Pushed(e)) /\ Len(Pushed(e)) <= HistoryLimit
    BY <1>1, <2>1, PushedProperties
  <2>3. Entry(undoStack') /\ Entry(redoStack') /\ Len(redoStack') = 0
    BY <2>1, <2>2, EmptyEntry
  <2>4. Len(undoStack') \in Nat
    BY <2>3, Places DEF Entry
  <2>5. HistoryTyped'
    BY <1>1, <2>1, <2>2, <2>3, <2>4 DEF HistoryTyped, Entry
  <2> QED
    BY <2>1, <2>5, EnqueuedTyped
<1>3. CASE Undone
  <2>1. PICK e \in Item :
          /\ undoStack # <<>> /\ e = Top(undoStack)
          /\ Enqueued(e.inverse, e.op)
          /\ undoStack' = Popped(undoStack) /\ redoStack' = Append(redoStack, e)
    BY <1>3 DEF Undone
  <2>2. /\ e.m.at = e.inverse.at
        /\ Entry(undoStack') /\ Len(undoStack') = Len(undoStack) - 1
    BY <1>1, <2>1, TopOf
  <2>3. Entry(redoStack') /\ Len(redoStack') = Len(redoStack) + 1
    BY <1>1, <2>1, <2>2, AppendedEntry
  <2>4. HistoryTyped'
    BY <1>1, <2>2, <2>3 DEF HistoryTyped, Entry
  <2>5. e.inverse \in Mutation
    BY DEF Item
  <2> QED
    BY <2>1, <2>4, <2>5, EnqueuedTyped
<1>4. CASE Redone
  <2>1. PICK e \in Item :
          /\ redoStack # <<>>
          /\ Enqueued(e.m, 0) /\ e.m.at = e.inverse.at
          /\ undoStack' = Append(undoStack, e) /\ redoStack' = Popped(redoStack)
    BY <1>4 DEF Redone
  <2>2. Entry(redoStack') /\ Len(redoStack') = Len(redoStack) - 1
    BY <1>1, <2>1, TopOf
  <2>3. Entry(undoStack') /\ Len(undoStack') = Len(undoStack) + 1
    BY <1>1, <2>1, AppendedEntry
  <2>4. HistoryTyped'
    BY <1>1, <2>2, <2>3 DEF HistoryTyped, Entry
  <2>5. e.m \in Mutation
    BY DEF Item
  <2> QED
    BY <2>1, <2>4, <2>5, EnqueuedTyped
<1>5. CASE Acknowledged
  <2>1. revision < Len(log)
    BY <1>5 DEF Acknowledged, OwnReceived
  <2>2. /\ Entry(undoStack') /\ Len(undoStack') = Len(undoStack)
        /\ Entry(redoStack') /\ Len(redoStack') = Len(redoStack)
    BY <1>1, <1>5, <2>1, MarkedProperties DEF Acknowledged
  <2>3. HistoryTyped'
    BY <1>1, <2>2 DEF HistoryTyped, Entry
  <2>4. revision' \in Nat /\ revision' <= Len(log)
    BY <1>5, Places DEF Acknowledged, OwnReceived, ServerTyped, PageTyped
  <2> QED
    BY <1>5, <2>3, <2>4
      DEF Acknowledged, OwnReceived, ServerTyped, QueueTyped, PageTyped, serverVars
<1>6. CASE Received
  <2>1. PICK c \in Mutation :
          /\ OtherReceived(c)
          /\ Thinned(undoStack, undoStack', c) /\ Thinned(redoStack, redoStack', c)
    BY <1>6 DEF Received
  <2>2. /\ Entry(undoStack') /\ Len(undoStack') <= Len(undoStack)
        /\ Entry(redoStack') /\ Len(redoStack') <= Len(redoStack)
    BY <2>1 DEF Thinned
  <2>3. Len(undoStack') \in Nat /\ Len(redoStack') \in Nat
    BY <2>2, Places DEF Entry
  <2>4. HistoryTyped'
    BY <1>1, <2>2, <2>3 DEF HistoryTyped, Entry
  <2>5. revision' \in Nat /\ revision' <= Len(log)
    BY <2>1, Places DEF OtherReceived, ServerTyped, PageTyped
  <2>6. rows' \in Sheets
    BY <2>1, SheetsChange DEF OtherReceived, PageTyped
  <2>7. crossed' \in BOOLEAN
    BY <2>1 DEF OtherReceived, PageTyped
  <2> QED
    BY <2>1, <2>4, <2>5, <2>6, <2>7
      DEF OtherReceived, ServerTyped, QueueTyped, PageTyped, serverVars
<1>7. CASE Reloaded
  <2>1. Len(log) \in Nat /\ queue' \in Seq(Queued)
    BY <1>7, Places, EmptySeq DEF Reloaded, ServerTyped
  <2>2. Entry(undoStack') /\ Entry(redoStack') /\ Len(undoStack') = 0 /\ Len(redoStack') = 0
    BY <1>7, EmptyEntry DEF Reloaded
  <2>3. HistoryTyped'
    BY <1>1, <2>2 DEF HistoryTyped, Entry
  <2>4. ServerTyped'
    BY <1>7 DEF Reloaded, ServerTyped, serverVars
  <2>5. QueueTyped'
    BY <1>7, <2>1 DEF Reloaded, QueueTyped
  <2>6. PageTyped'
    <3>1. rows' = sheet /\ revision' = Len(log) /\ log' = log
      BY <1>7 DEF Reloaded, serverVars
    <3>2. stopped' \in BOOLEAN /\ crossed' \in BOOLEAN
      BY <1>7 DEF Reloaded
    <3>3. revision' \in Nat /\ revision' <= Len(log')
      BY <2>1, <3>1
    <3> QED
      BY <3>1, <3>2, <3>3 DEF PageTyped, ServerTyped
  <2> QED
    BY <2>3, <2>4, <2>5, <2>6
<1>8. CASE Grown
  <2>1. PICK r \in Row : LogGrows(r) /\ UNCHANGED <<undoStack, redoStack>>
    BY <1>8 DEF Grown
  <2>2. log' \in Seq(Row) /\ Len(log') = Len(log) + 1 /\ Len(log) \in Nat
    BY <2>1, Appended DEF LogGrows, ServerTyped
  <2>3. r.m \in Mutation
    BY DEF Row
  <2>4. sheet' \in Sheets
    BY <2>1, <2>3, SheetsChange DEF LogGrows, ServerTyped
  <2>5. HistoryTyped'
    BY <1>1, <2>1 DEF HistoryTyped, Entry
  <2> QED
    BY <2>1, <2>2, <2>4, <2>5
      DEF LogGrows, ServerTyped, QueueTyped, PageTyped, queueVars, pageVars
<1>9. CASE Halted
  <2>1. HistoryTyped'
    BY <1>1, <1>9 DEF Halted, HistoryTyped, Entry
  <2> QED
    BY <1>9, <2>1 DEF Halted, ServerTyped, QueueTyped, PageTyped, serverVars
<1> QED
  BY <1>2, <1>3, <1>4, <1>5, <1>6, <1>7, <1>8, <1>9, Steps

-----------------------------------------------------------------------------
(* The first operation of the queue is the only one the server may have     *)
(* handled and the page not know of.                                        *)

NumbersAreNew ==
  /\ \A i \in DOMAIN queue : queue[i].op < nextOp /\ queue[i].undoes < nextOp
  /\ \A k \in DOMAIN log : log[k].op < nextOp /\ log[k].undoes < nextOp

CommittedOnce ==
  \A k, l \in DOMAIN log : log[k].op # 0 /\ log[k].op = log[l].op => k = l

OwnAhead ==
  \A k \in DOMAIN log :
    k > revision /\ log[k].op # 0 =>
      /\ queue # <<>>
      /\ log[k].op = queue[1].op /\ log[k].m = queue[1].m
      /\ log[k].base = queue[1].base

HeadBase == queue # <<>> => queue[1].base <= revision

Quiet(l, base, k, m) ==
  \A j \in base + 1 .. k - 1 : ~ Moves(l[j].m) /\ ~ SameRow(l[j].m, m)

OwnWereQuiet ==
  \A k \in DOMAIN log :
    log[k].op # 0 => log[k].base < k /\ Quiet(log, log[k].base, k, log[k].m)

RefusedHead ==
  refused => queue # <<>> /\ \A k \in DOMAIN log : log[k].op # queue[1].op

Own ==
  NumbersAreNew /\ CommittedOnce /\ OwnAhead /\ HeadBase /\ OwnWereQuiet /\ RefusedHead

LEMMA TypedPlaces ==
  ASSUME Typed
  PROVE  /\ Len(log) \in Nat /\ DOMAIN log = 1 .. Len(log)
         /\ \A k \in DOMAIN log : k \in Nat /\ log[k] \in Row
         /\ Len(queue) \in Nat /\ DOMAIN queue = 1 .. Len(queue)
         /\ \A i \in DOMAIN queue : i \in Nat /\ queue[i] \in Queued
         /\ queue # <<>> <=> 1 \in DOMAIN queue
         /\ nextOp \in Nat /\ revision \in Nat /\ revision <= Len(log)
<1>1. log \in Seq(Row) /\ queue \in Seq(Queued)
  BY DEF Typed, ServerTyped, QueueTyped
<1>2. /\ Len(log) \in Nat /\ DOMAIN log = 1 .. Len(log)
      /\ \A k \in DOMAIN log : log[k] \in Row
      /\ Len(queue) \in Nat /\ DOMAIN queue = 1 .. Len(queue)
      /\ \A i \in DOMAIN queue : queue[i] \in Queued
      /\ queue # <<>> <=> 1 \in DOMAIN queue
  BY <1>1, Places
<1> QED
  BY <1>2, EditingAssumption DEF Typed, QueueTyped, PageTyped

\* What an own operation does to the queue, position by position.
LEMMA EnqueuedPlaces ==
  ASSUME Typed, NEW m, NEW undoes, Enqueued(m, undoes)
  PROVE  /\ DOMAIN queue' = 1 .. Len(queue) + 1 /\ Len(queue') = Len(queue) + 1
         /\ \A i \in DOMAIN queue : i \in DOMAIN queue' /\ queue'[i] = queue[i]
         /\ \A i \in DOMAIN queue' : i \in DOMAIN queue \/ i = Len(queue) + 1
         /\ queue'[Len(queue) + 1].op = nextOp
         /\ queue'[Len(queue) + 1].base = revision
         /\ queue'[Len(queue) + 1].m = m
         /\ queue'[Len(queue) + 1].undoes = undoes
         /\ queue'[Len(queue) + 1].aim = Under(rows, m)
         /\ queue' # <<>>
         /\ queue # <<>> => queue'[1] = queue[1]
         /\ queue = <<>> => Len(queue) = 0
<1>1. queue \in Seq(Queued)
  BY DEF Typed, QueueTyped
<1>2. PICK q \in Queued :
        /\ q.op = nextOp /\ q.base = revision /\ q.m = m /\ q.undoes = undoes
        /\ q.aim = Under(rows, m)
        /\ queue' = Append(queue, q)
  BY DEF Enqueued
<1>3. /\ queue' \in Seq(Queued)
      /\ DOMAIN queue' = 1 .. Len(queue) + 1 /\ Len(queue') = Len(queue) + 1
      /\ \A i \in DOMAIN queue : i \in DOMAIN queue' /\ queue'[i] = queue[i]
      /\ \A i \in DOMAIN queue' : i \in DOMAIN queue \/ i = Len(queue) + 1
      /\ queue'[Len(queue) + 1] = q
  BY <1>1, <1>2, Appended
<1>4. Len(queue) \in Nat /\ (queue # <<>> <=> 1 \in DOMAIN queue) /\ (queue = <<>> <=> Len(queue) = 0)
  BY <1>1, Places
<1>5. queue' # <<>>
  BY <1>3, <1>4, EmptySeq
<1> QED
  BY <1>2, <1>3, <1>4, <1>5

LEMMA GrownPlaces ==
  ASSUME Typed, NEW r \in Row, LogGrows(r)
  PROVE  /\ DOMAIN log' = 1 .. Len(log) + 1 /\ Len(log') = Len(log) + 1
         /\ \A k \in DOMAIN log : k \in DOMAIN log' /\ log'[k] = log[k]
         /\ \A k \in DOMAIN log' : k \in DOMAIN log \/ k = Len(log) + 1
         /\ log'[Len(log) + 1] = r
         /\ queue' = queue /\ refused' = refused /\ nextOp' = nextOp
         /\ rows' = rows /\ revision' = revision /\ stopped' = stopped /\ crossed' = crossed
BY Appended DEF Typed, ServerTyped, LogGrows, queueVars, pageVars

LEMMA OwnEnqueued ==
  ASSUME Typed, Own, NEW m, NEW undoes \in Nat, undoes < nextOp, Enqueued(m, undoes)
  PROVE  Own'
<1>1. /\ nextOp' = nextOp + 1 /\ log' = log /\ revision' = revision /\ refused' = refused
  BY DEF Enqueued, serverVars
<1>2. /\ nextOp \in Nat /\ revision \in Nat /\ 1 \in Nat /\ Len(queue) \in Nat
      /\ \A k \in DOMAIN log : log[k] \in Row
      /\ \A i \in DOMAIN queue : queue[i] \in Queued
  BY TypedPlaces
<1>3. NumbersAreNew'
  <2>1. \A k \in DOMAIN log : log[k].op \in Nat /\ log[k].undoes \in Nat
    BY <1>2, EditingAssumption DEF Row
  <2>2. \A i \in DOMAIN queue : queue[i].op \in Nat /\ queue[i].undoes \in Nat
    BY <1>2, EditingAssumption DEF Queued, Ops
  <2>3. \A k \in DOMAIN log : log[k].op < nextOp + 1 /\ log[k].undoes < nextOp + 1
    BY <1>2, <2>1 DEF Own, NumbersAreNew
  <2>4. ASSUME NEW i \in DOMAIN queue'
        PROVE  queue'[i].op < nextOp + 1 /\ queue'[i].undoes < nextOp + 1
    <3>1. CASE i \in DOMAIN queue
      <4>1. queue'[i] = queue[i]
        BY <3>1, EnqueuedPlaces
      <4> QED
        BY <1>2, <2>2, <3>1, <4>1 DEF Own, NumbersAreNew
    <3>2. CASE i = Len(queue) + 1
      <4>1. queue'[i].op = nextOp /\ queue'[i].undoes = undoes
        BY <3>2, EnqueuedPlaces
      <4> QED
        BY <1>2, <4>1
    <3> QED
      BY <3>1, <3>2, EnqueuedPlaces
  <2> QED
    BY <1>1, <2>3, <2>4 DEF NumbersAreNew
<1>4. CommittedOnce' /\ OwnWereQuiet'
  BY <1>1 DEF Own, CommittedOnce, OwnWereQuiet
<1>5. OwnAhead'
  BY <1>1, EnqueuedPlaces DEF Own, OwnAhead
<1>6. HeadBase'
  <2>1. CASE queue = <<>>
    <3>1. queue'[1].base = revision
      BY <2>1, EnqueuedPlaces
    <3> QED
      BY <1>1, <1>2, <3>1 DEF HeadBase
  <2>2. CASE queue # <<>>
    BY <1>1, <2>2, EnqueuedPlaces DEF Own, HeadBase
  <2> QED
    BY <2>1, <2>2
<1>7. RefusedHead'
  BY <1>1, EnqueuedPlaces DEF Own, RefusedHead
<1> QED
  BY <1>3, <1>4, <1>5, <1>6, <1>7 DEF Own

LEMMA OwnAfterOwn ==
  ASSUME Typed, Own, OwnReceived
  PROVE  Own'
<1>1. /\ nextOp' = nextOp /\ log' = log /\ refused' = refused
      /\ revision' = revision + 1 /\ revision' \in DOMAIN log
      /\ queue # <<>> /\ log[revision'].op = queue[1].op
  BY DEF OwnReceived, serverVars
<1>2. /\ nextOp \in Nat /\ revision \in Nat
      /\ \A k \in DOMAIN log : log[k] \in Row /\ k \in Nat
      /\ \A i \in DOMAIN queue : queue[i] \in Queued
      /\ 1 \in DOMAIN queue
  BY <1>1, TypedPlaces
<1>3. \A i \in DOMAIN queue' :
        i + 1 \in DOMAIN queue /\ queue'[i].op = queue[i + 1].op
          /\ queue'[i].undoes = queue[i + 1].undoes
  BY DEF OwnReceived
<1>4. NumbersAreNew'
  BY <1>1, <1>3 DEF Own, NumbersAreNew
<1>5. CommittedOnce' /\ OwnWereQuiet'
  BY <1>1 DEF Own, CommittedOnce, OwnWereQuiet
<1>6. OwnAhead'
  <2> SUFFICES ASSUME NEW k \in DOMAIN log, k > revision + 1, log[k].op # 0
               PROVE  FALSE
    BY <1>1 DEF OwnAhead
  <2>1. k > revision
    BY <1>2
  <2>2. log[k].op = queue[1].op
    BY <2>1 DEF Own, OwnAhead
  <2>3. k = revision'
    BY <1>1, <2>2 DEF Own, CommittedOnce
  <2> QED
    BY <1>1, <1>2, <2>3
<1>7. HeadBase'
  <2> SUFFICES ASSUME queue' # <<>> PROVE queue'[1].base <= revision'
    BY DEF HeadBase
  <2>1. 1 \in DOMAIN queue'
    <3>1. queue' \in Seq(Queued)
      BY DEF OwnReceived
    <3> QED
      BY <3>1, Places
  <2>2. queue'[1].base = revision' + 1 - 1
    BY <2>1 DEF OwnReceived
  <2> QED
    BY <1>1, <1>2, <2>2
<1>8. RefusedHead'
  BY <1>1 DEF Own, RefusedHead
<1> QED
  BY <1>4, <1>5, <1>6, <1>7, <1>8 DEF Own

LEMMA OwnAfterOther ==
  ASSUME Typed, Own, NEW c, OtherReceived(c)
  PROVE  Own'
<1>1. /\ nextOp' = nextOp /\ log' = log /\ refused' = refused
      /\ revision' = revision + 1
      /\ DOMAIN queue' = DOMAIN queue
      /\ \A i \in DOMAIN queue : queue'[i].op = queue[i].op
                                   /\ queue'[i].undoes = queue[i].undoes
      /\ 1 \in DOMAIN queue => queue'[1] = queue[1]
  BY DEF OtherReceived, serverVars
<1>2. /\ revision \in Nat
      /\ \A k \in DOMAIN log : k \in Nat
      /\ \A i \in DOMAIN queue : queue[i] \in Queued
      /\ queue # <<>> <=> 1 \in DOMAIN queue
  BY TypedPlaces
<1>3. queue' # <<>> <=> 1 \in DOMAIN queue'
  <2>1. queue' \in Seq(Queued)
    BY DEF OtherReceived
  <2> QED
    BY <2>1, Places
<1>4. NumbersAreNew' /\ CommittedOnce' /\ OwnWereQuiet'
  BY <1>1 DEF Own, NumbersAreNew, CommittedOnce, OwnWereQuiet
<1>5. OwnAhead'
  <2>1. \A k \in DOMAIN log : k > revision + 1 => k > revision
    BY <1>2
  <2> QED
    BY <1>1, <1>2, <1>3, <2>1 DEF Own, OwnAhead
<1>6. HeadBase'
  <2> SUFFICES ASSUME queue' # <<>> PROVE queue'[1].base <= revision'
    BY DEF HeadBase
  <2>1. queue'[1] = queue[1] /\ queue[1] \in Queued /\ queue[1].base <= revision
    BY <1>1, <1>2, <1>3 DEF Own, HeadBase
  <2>2. queue[1].base \in Nat
    BY <2>1 DEF Queued
  <2> QED
    BY <1>1, <1>2, <2>1, <2>2
<1>7. RefusedHead'
  BY <1>1, <1>2, <1>3 DEF Own, RefusedHead
<1> QED
  BY <1>4, <1>5, <1>6, <1>7 DEF Own

LEMMA OwnGrown ==
  ASSUME Typed, Own, NEW r \in Row, LogGrows(r), OwnCommitted(r) \/ r.op = 0,
         r.undoes < nextOp
  PROVE  Own'
<1>1. /\ Len(log) \in Nat /\ DOMAIN log = 1 .. Len(log)
      /\ \A k \in DOMAIN log : k \in Nat /\ log[k] \in Row
      /\ nextOp \in Nat /\ revision \in Nat /\ revision <= Len(log)
      /\ queue # <<>> <=> 1 \in DOMAIN queue
  BY TypedPlaces
<1>2. /\ \A k \in DOMAIN log : k \in DOMAIN log' /\ log'[k] = log[k]
      /\ \A k \in DOMAIN log' : k \in DOMAIN log \/ k = Len(log) + 1
      /\ log'[Len(log) + 1] = r
      /\ queue' = queue /\ refused' = refused /\ nextOp' = nextOp /\ revision' = revision
  BY GrownPlaces
<1>3. r.op < nextOp
  <2>1. CASE r.op = 0
    <3>1. nextOp \in 1 .. MaxEdits + 1
      BY DEF Typed, QueueTyped
    <3> QED
      BY <2>1, <3>1, EditingAssumption
  <2>2. CASE OwnCommitted(r)
    BY <1>1, <2>2 DEF OwnCommitted, Own, NumbersAreNew
  <2> QED
    BY <2>1, <2>2
<1>4. NumbersAreNew'
  BY <1>2, <1>3 DEF Own, NumbersAreNew
<1>5. \A k \in DOMAIN log : r.op # 0 => log[k].op # r.op
  BY DEF OwnCommitted
<1>6. CommittedOnce'
  <2> SUFFICES ASSUME NEW k \in DOMAIN log', NEW l \in DOMAIN log',
                      log'[k].op # 0, log'[k].op = log'[l].op
               PROVE  k = l
    BY DEF CommittedOnce
  <2> QED
    BY <1>2, <1>5 DEF Own, CommittedOnce
<1>7. OwnAhead'
  <2> SUFFICES ASSUME NEW k \in DOMAIN log', k > revision, log'[k].op # 0
               PROVE  /\ queue # <<>> /\ log'[k].op = queue[1].op
                      /\ log'[k].m = queue[1].m /\ log'[k].base = queue[1].base
    BY <1>2 DEF OwnAhead
  <2>1. CASE k \in DOMAIN log
    BY <1>2, <2>1 DEF Own, OwnAhead
  <2>2. CASE k = Len(log) + 1
    BY <1>2, <2>2 DEF OwnCommitted
  <2> QED
    BY <1>2, <2>1, <2>2
<1>8. HeadBase'
  BY <1>2 DEF Own, HeadBase
<1>9. OwnWereQuiet'
  <2> SUFFICES ASSUME NEW k \in DOMAIN log', log'[k].op # 0
               PROVE  log'[k].base < k /\ Quiet(log', log'[k].base, k, log'[k].m)
    BY DEF OwnWereQuiet
  <2>1. CASE k \in DOMAIN log
    <3>1. log'[k] = log[k] /\ log[k].base < k /\ Quiet(log, log[k].base, k, log[k].m)
      BY <1>2, <2>1 DEF Own, OwnWereQuiet
    <3>2. log[k].base \in Nat
      BY <1>1, <2>1 DEF Row
    <3>3. \A j \in log[k].base + 1 .. k - 1 : j \in DOMAIN log
      BY <1>1, <2>1, <3>2
    <3> QED
      BY <1>2, <3>1, <3>3 DEF Quiet
  <2>2. CASE k = Len(log) + 1
    <3>1. log'[k] = r /\ OwnCommitted(r)
      BY <1>2, <2>2
    <3>2. r.base \in Nat /\ r.base <= Len(log)
      BY <3>1 DEF Row, OwnCommitted
    <3>3. r.base < k /\ k - 1 = Len(log)
      BY <1>1, <2>2, <3>2
    <3>4. \A j \in r.base + 1 .. Len(log) : j \in DOMAIN log
      BY <1>1, <3>2
    <3>5. \A j \in r.base + 1 .. Len(log) : ~ Moves(log'[j].m) /\ ~ SameRow(log'[j].m, r.m)
      BY <1>2, <3>1, <3>4 DEF OwnCommitted
    <3> QED
      BY <3>1, <3>3, <3>5 DEF Quiet
  <2> QED
    BY <1>2, <2>1, <2>2
<1>10. RefusedHead'
  <2> SUFFICES ASSUME refused
               PROVE  queue # <<>> /\ \A k \in DOMAIN log' : log'[k].op # queue[1].op
    BY <1>2 DEF RefusedHead
  <2>1. queue # <<>> /\ \A k \in DOMAIN log : log[k].op # queue[1].op
    BY DEF Own, RefusedHead
  <2>2. r.op = 0
    BY DEF OwnCommitted
  <2>3. queue[1].op # 0
    <3>1. queue[1] \in Queued
      BY <1>1, <2>1, TypedPlaces
    <3> QED
      BY <3>1, EditingAssumption DEF Queued, Ops
  <2> QED
    BY <1>2, <2>1, <2>2, <2>3
<1> QED
  BY <1>4, <1>6, <1>7, <1>8, <1>9, <1>10 DEF Own

-----------------------------------------------------------------------------
(* The identities in the entries of the stacks. *)

Old(stack) == \A i \in DOMAIN stack : stack[i].op < nextOp

EntriesAreOld == Old(undoStack) /\ Old(redoStack)

LEMMA EntryPlaces ==
  ASSUME NEW stack, Entry(stack)
  PROVE  /\ Len(stack) \in Nat /\ DOMAIN stack = 1 .. Len(stack)
         /\ \A i \in DOMAIN stack : i \in Nat /\ stack[i] \in Item /\ stack[i].op \in Nat \ {0}
<1>1. stack \in Seq(Item)
  BY DEF Entry, Item
<1>2. \A e \in Item : e.op \in Nat \ {0}
  BY EditingAssumption DEF Item, Ops
<1> QED
  BY <1>1, <1>2, Places

LEMMA TopIsOld ==
  ASSUME Typed, EntriesAreOld, undoStack # <<>>
  PROVE  /\ Top(undoStack).op < nextOp /\ Top(undoStack).op \in Nat \ {0}
         /\ Len(undoStack) \in DOMAIN undoStack
         /\ Top(undoStack) = undoStack[Len(undoStack)]
<1>1. Entry(undoStack)
  BY DEF Typed, HistoryTyped
<1>2. Len(undoStack) \in Nat \ {0} /\ Top(undoStack) = undoStack[Len(undoStack)]
  BY <1>1, TopOf
<1>3. Len(undoStack) \in DOMAIN undoStack
  BY <1>1, <1>2, EntryPlaces
<1> QED
  BY <1>1, <1>2, <1>3, EntryPlaces DEF EntriesAreOld, Old

\* What each step does to the entries of both stacks: where those of the next
\* state come from.
FromBelow(stack, s) ==
  \E f \in [DOMAIN s -> DOMAIN stack] :
    /\ \A i \in DOMAIN s : s[i].op = stack[f[i]].op
    /\ \A i, j \in DOMAIN s : f[i] = f[j] => i = j

LEMMA FromItself ==
  ASSUME NEW stack
  PROVE  FromBelow(stack, stack)
<1>1. PICK f : f = [i \in DOMAIN stack |-> i]
  OBVIOUS
<1>2. /\ f \in [DOMAIN stack -> DOMAIN stack]
      /\ \A i \in DOMAIN stack : stack[i].op = stack[f[i]].op
      /\ \A i, j \in DOMAIN stack : f[i] = f[j] => i = j
  BY <1>1
<1> QED
  BY <1>2 DEF FromBelow

LEMMA FromNothing ==
  ASSUME NEW stack
  PROVE  FromBelow(stack, <<>>)
<1>1. PICK f : f = [i \in {} |-> i]
  OBVIOUS
<1>2. DOMAIN <<>> = {} /\ f \in [{} -> DOMAIN stack]
  BY <1>1
<1> QED
  BY <1>2 DEF FromBelow

LEMMA FromPopped ==
  ASSUME NEW stack, Entry(stack), stack # <<>>
  PROVE  FromBelow(stack, Popped(stack))
<1>1. PICK f : f = [i \in DOMAIN Popped(stack) |-> i]
  OBVIOUS
<1>2. /\ f \in [DOMAIN Popped(stack) -> DOMAIN stack]
      /\ \A i \in DOMAIN Popped(stack) : Popped(stack)[i].op = stack[f[i]].op
      /\ \A i, j \in DOMAIN Popped(stack) : f[i] = f[j] => i = j
  BY <1>1, TopOf
<1> QED
  BY <1>2 DEF FromBelow

LEMMA FromMarked ==
  ASSUME Typed, revision < Len(log), NEW stack, Entry(stack)
  PROVE  FromBelow(stack, Marked(stack))
<1>1. PICK s : s = Marked(stack)
  OBVIOUS
<1>2. DOMAIN s = DOMAIN stack /\ \A i \in DOMAIN stack : MarkedItem(stack[i], s[i])
  BY <1>1, MarkedProperties
<1>3. PICK f : f = [i \in DOMAIN stack |-> i]
  OBVIOUS
<1>4. /\ f \in [DOMAIN s -> DOMAIN stack]
      /\ \A i \in DOMAIN s : s[i].op = stack[f[i]].op
      /\ \A i, j \in DOMAIN s : f[i] = f[j] => i = j
  BY <1>2, <1>3 DEF MarkedItem
<1> QED
  BY <1>1, <1>4 DEF FromBelow

LEMMA FromThinned ==
  ASSUME NEW stack, NEW s, NEW c, Entry(stack), Thinned(stack, s, c)
  PROVE  FromBelow(stack, s)
<1>1. PICK f \in [DOMAIN s -> DOMAIN stack] :
        /\ \A i \in DOMAIN s : MovedItem(stack[f[i]], s[i], c)
        /\ \A i, j \in DOMAIN s : i < j => f[i] < f[j]
  BY DEF Thinned
<1>2. Entry(s)
  BY DEF Thinned
<1>3. \A i \in DOMAIN s : i \in Nat /\ f[i] \in Nat
  BY <1>2, EntryPlaces
<1>4. ASSUME NEW i \in DOMAIN s, NEW j \in DOMAIN s, f[i] = f[j] PROVE i = j
  <2>1. i < j \/ j < i \/ i = j
    BY <1>3
  <2>2. ~ (f[i] < f[j]) /\ ~ (f[j] < f[i])
    BY <1>3, <1>4
  <2> QED
    BY <1>1, <2>1, <2>2
<1>5. \A i \in DOMAIN s : s[i].op = stack[f[i]].op
  BY <1>1 DEF MovedItem
<1> QED
  BY <1>1, <1>4, <1>5 DEF FromBelow

\* The operation that a step issues is on top of the undo stack, or none is.
Topped(stack, s, op) ==
  \E f \in [DOMAIN s -> 1 .. Len(stack) + 1] :
    /\ \A i \in DOMAIN s : f[i] \in DOMAIN stack => s[i].op = stack[f[i]].op
    /\ \A i \in DOMAIN s : f[i] \notin DOMAIN stack => s[i].op = op
    /\ \A i, j \in DOMAIN s : f[i] = f[j] => i = j

LEMMA ToppedByPush ==
  ASSUME Typed, NEW e \in Item, e.m.at = e.inverse.at
  PROVE  Topped(undoStack, Pushed(e), e.op)
<1>1. Entry(undoStack) /\ Len(undoStack) <= HistoryLimit
  <2>1. Entry(undoStack) /\ Entry(redoStack) /\ Len(undoStack) + Len(redoStack) <= HistoryLimit
    BY DEF Typed, HistoryTyped
  <2> QED
    BY <2>1, EntryPlaces, HistoryAssumption
<1>2. PICK s : s = Pushed(e)
  OBVIOUS
<1>3. PICK d \in {0, 1} :
        \A i \in DOMAIN s :
          /\ i \in Nat
          /\ i + d \in 1 .. Len(undoStack) + 1
          /\ i + d \in DOMAIN undoStack => s[i] = undoStack[i + d]
          /\ i + d = Len(undoStack) + 1 => s[i] = e
  BY <1>1, <1>2, PushedProperties
<1>4. PICK f : f = [i \in DOMAIN s |-> i + d]
  OBVIOUS
<1>5. /\ f \in [DOMAIN s -> 1 .. Len(undoStack) + 1]
      /\ \A i, j \in DOMAIN s : f[i] = f[j] => i = j
  BY <1>3, <1>4
<1>6. DOMAIN undoStack = 1 .. Len(undoStack) /\ Len(undoStack) \in Nat
  BY <1>1, EntryPlaces
<1>7. \A i \in DOMAIN s : f[i] \in DOMAIN undoStack => s[i].op = undoStack[f[i]].op
  BY <1>3, <1>4
<1>8. ASSUME NEW i \in DOMAIN s, f[i] \notin DOMAIN undoStack PROVE s[i].op = e.op
  <2>1. i + d = Len(undoStack) + 1
    BY <1>3, <1>4, <1>6, <1>8
  <2> QED
    BY <1>3, <2>1
<1> QED
  BY <1>2, <1>5, <1>7, <1>8 DEF Topped

LEMMA ToppedByAppend ==
  ASSUME NEW stack, Entry(stack), NEW e \in Item, e.m.at = e.inverse.at
  PROVE  Topped(stack, Append(stack, e), e.op)
<1>1. PICK s : s = Append(stack, e)
  OBVIOUS
<1>2. /\ Len(stack) \in Nat
      /\ DOMAIN stack = 1 .. Len(stack)
      /\ DOMAIN s = 1 .. Len(stack) + 1
      /\ s[Len(stack) + 1] = e
      /\ \A i \in DOMAIN stack : s[i] = stack[i]
  BY <1>1, AppendedEntry
<1>3. PICK f : f = [i \in DOMAIN s |-> i]
  OBVIOUS
<1>4. \A i \in DOMAIN s : i \notin DOMAIN stack => i = Len(stack) + 1
  BY <1>2
<1>5. /\ f \in [DOMAIN s -> 1 .. Len(stack) + 1]
      /\ \A i \in DOMAIN s : f[i] \in DOMAIN stack => s[i].op = stack[f[i]].op
      /\ \A i \in DOMAIN s : f[i] \notin DOMAIN stack => s[i].op = e.op
      /\ \A i, j \in DOMAIN s : f[i] = f[j] => i = j
  BY <1>2, <1>3, <1>4
<1> QED
  BY <1>1, <1>5 DEF Topped

-----------------------------------------------------------------------------
(* What was undone. *)

\* Every operation of the page that is committed or queued, with the one that
\* it undoes, or 0; an operation of another user is <<0, 0>>.
Made ==
  {<<log[k].op, log[k].undoes>> : k \in DOMAIN log}
    \cup {<<queue[i].op, queue[i].undoes>> : i \in DOMAIN queue}

\* No operation is undone twice; what is on the undo stack is there once, and
\* was not undone.
OnceIn(made) == \A x, y \in made : x[2] # 0 /\ x[2] = y[2] => x[1] = y[1]

DistinctEntries(stack) == \A i, j \in DOMAIN stack : stack[i].op = stack[j].op => i = j

Undoable(made, stack) == \A x \in made : \A i \in DOMAIN stack : x[2] # stack[i].op

Linked ==
  EntriesAreOld /\ OnceIn(Made) /\ DistinctEntries(undoStack) /\ Undoable(Made, undoStack)

LEMMA MadeIsOld ==
  ASSUME Typed, Own
  PROVE  \A x \in Made : x[2] \in Nat /\ x[2] < nextOp
<1>1. ASSUME NEW k \in DOMAIN log PROVE log[k].undoes \in Nat /\ log[k].undoes < nextOp
  <2>1. log[k] \in Row
    BY TypedPlaces
  <2> QED
    BY <2>1, EditingAssumption DEF Row, Own, NumbersAreNew
<1>2. ASSUME NEW i \in DOMAIN queue PROVE queue[i].undoes \in Nat /\ queue[i].undoes < nextOp
  <2>1. queue[i] \in Queued
    BY TypedPlaces
  <2> QED
    BY <2>1, EditingAssumption DEF Queued, Own, NumbersAreNew
<1> QED
  BY <1>1, <1>2 DEF Made

\* What is not an operation of the page makes nothing, drops it, or leaves it.
Rests ==
  /\ nextOp' = nextOp
  /\ Made' \subseteq Made \cup {<<0, 0>>}
  /\ FromBelow(undoStack, undoStack') /\ FromBelow(redoStack, redoStack')

Makes(undoes) ==
  /\ nextOp' = nextOp + 1
  /\ Made' \subseteq Made \cup {<<nextOp, undoes>>}

LEMMA EnqueuedMakes ==
  ASSUME Typed, NEW m, NEW undoes, Enqueued(m, undoes)
  PROVE  Makes(undoes)
<1>1. /\ \A i \in DOMAIN queue : queue'[i] = queue[i]
      /\ \A i \in DOMAIN queue' : i \in DOMAIN queue \/ i = Len(queue) + 1
      /\ queue'[Len(queue) + 1].op = nextOp
      /\ queue'[Len(queue) + 1].undoes = undoes
  BY EnqueuedPlaces
<1>2. log' = log /\ nextOp' = nextOp + 1
  BY DEF Enqueued, serverVars
<1> QED
  BY <1>1, <1>2 DEF Makes, Made

LEMMA OthersRest ==
  ASSUME Typed, Own, Acknowledged \/ Received \/ Reloaded \/ Grown \/ Halted
  PROVE  Rests
<1>1. Entry(undoStack) /\ Entry(redoStack)
  BY DEF Typed, HistoryTyped
<1>2. CASE Acknowledged
  <2>1. revision < Len(log)
    BY <1>2 DEF Acknowledged, OwnReceived
  <2>2. FromBelow(undoStack, undoStack') /\ FromBelow(redoStack, redoStack')
    BY <1>1, <1>2, <2>1, FromMarked DEF Acknowledged
  <2>3. /\ log' = log
        /\ \A i \in DOMAIN queue' :
             /\ i + 1 \in DOMAIN queue
             /\ queue'[i].op = queue[i + 1].op /\ queue'[i].undoes = queue[i + 1].undoes
    BY <1>2 DEF Acknowledged, OwnReceived, serverVars
  <2>4. Made' \subseteq Made
    BY <2>3 DEF Made
  <2> QED
    BY <1>2, <2>2, <2>4 DEF Acknowledged, OwnReceived, Rests
<1>3. CASE Received
  <2>1. PICK c \in Mutation :
          /\ OtherReceived(c)
          /\ Thinned(undoStack, undoStack', c) /\ Thinned(redoStack, redoStack', c)
    BY <1>3 DEF Received
  <2>2. FromBelow(undoStack, undoStack') /\ FromBelow(redoStack, redoStack')
    BY <1>1, <2>1, FromThinned
  <2>3. Made' \subseteq Made
    BY <2>1 DEF OtherReceived, Made, serverVars
  <2> QED
    BY <2>1, <2>2, <2>3 DEF OtherReceived, Rests
<1>4. CASE Reloaded
  <2>1. FromBelow(undoStack, undoStack') /\ FromBelow(redoStack, redoStack')
    BY <1>4, FromNothing DEF Reloaded
  <2>2. DOMAIN queue' = {} /\ log' = log
    BY <1>4 DEF Reloaded, serverVars
  <2>3. Made' \subseteq Made
    BY <2>2 DEF Made
  <2> QED
    BY <1>4, <2>1, <2>3 DEF Reloaded, Rests
<1>5. CASE Grown
  <2>1. PICK r \in Row :
          /\ LogGrows(r) /\ UNCHANGED <<undoStack, redoStack>>
          /\ OwnCommitted(r) \/ (r.op = 0 /\ r.undoes = 0)
    BY <1>5 DEF Grown
  <2>2. FromBelow(undoStack, undoStack') /\ FromBelow(redoStack, redoStack')
    BY <2>1, FromItself
  <2>3. /\ \A k \in DOMAIN log : log'[k] = log[k]
        /\ \A k \in DOMAIN log' : k \in DOMAIN log \/ k = Len(log) + 1
        /\ log'[Len(log) + 1] = r
        /\ queue' = queue /\ nextOp' = nextOp
    BY <2>1, GrownPlaces
  <2>4. <<r.op, r.undoes>> \in Made \cup {<<0, 0>>}
    <3>1. CASE OwnCommitted(r)
      <4>1. 1 \in DOMAIN queue /\ r.op = queue[1].op /\ r.undoes = queue[1].undoes
        BY <3>1, TypedPlaces DEF OwnCommitted
      <4> QED
        BY <4>1 DEF Made
    <3> QED
      BY <2>1, <3>1
  <2>5. Made' \subseteq Made \cup {<<0, 0>>}
    <3>1. Made' \subseteq Made \cup {<<r.op, r.undoes>>}
      BY <2>3 DEF Made
    <3> QED
      BY <2>4, <3>1
  <2> QED
    BY <2>2, <2>3, <2>5 DEF Rests
<1>6. CASE Halted
  <2>1. /\ log' = log /\ queue' = queue /\ nextOp' = nextOp
        /\ undoStack' = undoStack /\ redoStack' = redoStack
    BY <1>6 DEF Halted, serverVars
  <2>2. FromBelow(undoStack, undoStack') /\ FromBelow(redoStack, redoStack')
    BY <2>1, FromItself
  <2> QED
    BY <2>1, <2>2 DEF Rests, Made
<1> QED
  BY <1>2, <1>3, <1>4, <1>5, <1>6

LEMMA LinkedRests ==
  ASSUME Typed, Linked, Rests
  PROVE  Linked'
<1>1. PICK f \in [DOMAIN undoStack' -> DOMAIN undoStack] :
        /\ \A i \in DOMAIN undoStack' : undoStack'[i].op = undoStack[f[i]].op
        /\ \A i, j \in DOMAIN undoStack' : f[i] = f[j] => i = j
  BY DEF Rests, FromBelow
<1>2. PICK g \in [DOMAIN redoStack' -> DOMAIN redoStack] :
        \A i \in DOMAIN redoStack' : redoStack'[i].op = redoStack[g[i]].op
  BY DEF Rests, FromBelow
<1>3. EntriesAreOld'
  BY <1>1, <1>2 DEF Linked, EntriesAreOld, Old, Rests
<1>4. DistinctEntries(undoStack')
  BY <1>1 DEF Linked, DistinctEntries
<1>5. \A i \in DOMAIN undoStack' : undoStack'[i].op # 0
  <2>1. Entry(undoStack)
    BY DEF Typed, HistoryTyped
  <2>2. \A i \in DOMAIN undoStack : undoStack[i].op # 0
    BY <2>1, EntryPlaces
  <2> QED
    BY <1>1, <2>2
<1>6. PICK made : made = Made'
  OBVIOUS
<1>7. made \subseteq Made \cup {<<0, 0>>}
  BY <1>6 DEF Rests
<1>8. OnceIn(made)
  <2> SUFFICES ASSUME NEW x \in made, NEW y \in made, x[2] # 0, x[2] = y[2]
               PROVE  x[1] = y[1]
    BY DEF OnceIn
  <2>1. x \in Made /\ y \in Made
    BY <1>7
  <2> QED
    BY <2>1 DEF Linked, OnceIn
<1>9. Undoable(made, undoStack')
  <2> SUFFICES ASSUME NEW x \in made, NEW i \in DOMAIN undoStack'
               PROVE  x[2] # undoStack'[i].op
    BY DEF Undoable
  <2>1. CASE x \in Made
    BY <1>1, <2>1 DEF Linked, Undoable
  <2>2. CASE x = <<0, 0>>
    BY <1>5, <2>2
  <2> QED
    BY <1>7, <2>1, <2>2
<1> QED
  BY <1>3, <1>4, <1>6, <1>8, <1>9 DEF Linked

LEMMA LinkedMakes ==
  ASSUME Typed, Own, Linked, Makes(0),
         Topped(undoStack, undoStack', nextOp), FromBelow(redoStack, redoStack')
  PROVE  Linked'
<1>1. PICK f \in [DOMAIN undoStack' -> 1 .. Len(undoStack) + 1] :
        /\ \A i \in DOMAIN undoStack' :
             f[i] \in DOMAIN undoStack => undoStack'[i].op = undoStack[f[i]].op
        /\ \A i \in DOMAIN undoStack' :
             f[i] \notin DOMAIN undoStack => undoStack'[i].op = nextOp
        /\ \A i, j \in DOMAIN undoStack' : f[i] = f[j] => i = j
  BY DEF Topped
<1>2. PICK g \in [DOMAIN redoStack' -> DOMAIN redoStack] :
        \A i \in DOMAIN redoStack' : redoStack'[i].op = redoStack[g[i]].op
  BY DEF FromBelow
<1>3. Entry(undoStack) /\ Entry(redoStack) /\ nextOp \in Nat \ {0}
  BY EditingAssumption DEF Typed, HistoryTyped, QueueTyped
<1>4. /\ \A i \in DOMAIN undoStack : undoStack[i].op \in Nat \ {0} /\ undoStack[i].op < nextOp
      /\ \A i \in DOMAIN redoStack : redoStack[i].op \in Nat \ {0} /\ redoStack[i].op < nextOp
      /\ DOMAIN undoStack = 1 .. Len(undoStack) /\ Len(undoStack) \in Nat
  BY <1>3, EntryPlaces DEF Linked, EntriesAreOld, Old
<1>5. nextOp' = nextOp + 1
  BY DEF Makes
<1>6. EntriesAreOld'
  <2>1. ASSUME NEW i \in DOMAIN undoStack' PROVE undoStack'[i].op < nextOp + 1
    <3>1. undoStack'[i].op = nextOp
            \/ (undoStack'[i].op \in Nat /\ undoStack'[i].op < nextOp)
      BY <1>1, <1>4
    <3> QED
      BY <1>3, <3>1
  <2>2. ASSUME NEW i \in DOMAIN redoStack' PROVE redoStack'[i].op < nextOp + 1
    <3>1. redoStack'[i].op \in Nat /\ redoStack'[i].op < nextOp
      BY <1>2, <1>4
    <3> QED
      BY <1>3, <3>1
  <2> QED
    BY <1>5, <2>1, <2>2 DEF EntriesAreOld, Old
<1>7. DistinctEntries(undoStack')
  <2> SUFFICES ASSUME NEW i \in DOMAIN undoStack', NEW j \in DOMAIN undoStack',
                      undoStack'[i].op = undoStack'[j].op
               PROVE  i = j
    BY DEF DistinctEntries
  <2>1. f[i] \in 1 .. Len(undoStack) + 1 /\ f[j] \in 1 .. Len(undoStack) + 1
    OBVIOUS
  <2>2. CASE f[i] \in DOMAIN undoStack /\ f[j] \in DOMAIN undoStack
    <3>1. f[i] = f[j]
      BY <1>1, <2>2 DEF Linked, DistinctEntries
    <3> QED
      BY <1>1, <3>1
  <2>3. CASE f[i] \notin DOMAIN undoStack /\ f[j] \notin DOMAIN undoStack
    <3>1. f[i] = f[j]
      BY <1>4, <2>1, <2>3
    <3> QED
      BY <1>1, <3>1
  <2>4. \A k \in DOMAIN undoStack : undoStack[k].op # nextOp
    BY <1>3, <1>4
  <2> QED
    BY <1>1, <2>2, <2>3, <2>4
<1>8. PICK made : made = Made'
  OBVIOUS
<1>9. made \subseteq Made \cup {<<nextOp, 0>>}
  BY <1>8 DEF Makes
<1>10. OnceIn(made)
  <2> SUFFICES ASSUME NEW x \in made, NEW y \in made, x[2] # 0, x[2] = y[2]
               PROVE  x[1] = y[1]
    BY DEF OnceIn
  <2>1. x \in Made /\ y \in Made
    BY <1>9
  <2> QED
    BY <2>1 DEF Linked, OnceIn
<1>11. Undoable(made, undoStack')
  <2> SUFFICES ASSUME NEW x \in made, NEW i \in DOMAIN undoStack'
               PROVE  x[2] # undoStack'[i].op
    BY DEF Undoable
  <2>1. CASE x = <<nextOp, 0>>
    <3>1. undoStack'[i].op # 0
      BY <1>1, <1>3, <1>4
    <3> QED
      BY <2>1, <3>1
  <2>2. CASE x \in Made
    <3>1. x[2] \in Nat /\ x[2] < nextOp
      BY <2>2, MadeIsOld
    <3>2. CASE f[i] \in DOMAIN undoStack
      BY <1>1, <2>2, <3>2 DEF Linked, Undoable
    <3>3. CASE f[i] \notin DOMAIN undoStack
      <4>1. undoStack'[i].op = nextOp
        BY <1>1, <3>3
      <4> QED
        BY <1>3, <3>1, <4>1
    <3> QED
      BY <3>2, <3>3
  <2> QED
    BY <1>9, <2>1, <2>2
<1> QED
  BY <1>6, <1>7, <1>8, <1>10, <1>11 DEF Linked

LEMMA LinkedUndone ==
  ASSUME Typed, Own, Linked, Undone
  PROVE  Linked'
<1>1. PICK e \in Item :
        /\ undoStack # <<>> /\ e = Top(undoStack)
        /\ Enqueued(e.inverse, e.op)
        /\ undoStack' = Popped(undoStack) /\ redoStack' = Append(redoStack, e)
  BY DEF Undone
<1>2. Entry(undoStack) /\ Entry(redoStack) /\ nextOp \in Nat \ {0}
  BY EditingAssumption DEF Typed, HistoryTyped, QueueTyped
<1>3. /\ e.op < nextOp /\ e.op \in Nat \ {0}
      /\ Len(undoStack) \in DOMAIN undoStack
      /\ e = undoStack[Len(undoStack)]
  BY <1>1, TopIsOld DEF Linked
<1>4. Makes(e.op)
  BY <1>1, EnqueuedMakes
<1>5. \A i \in DOMAIN undoStack' :
        i \in DOMAIN undoStack /\ undoStack'[i] = undoStack[i] /\ i < Len(undoStack)
  BY <1>1, <1>2, TopOf
<1>6. e.m.at = e.inverse.at
  BY <1>1, <1>2, TopOf
<1>7. Topped(redoStack, redoStack', e.op)
  BY <1>1, <1>2, <1>6, ToppedByAppend
<1>8. EntriesAreOld'
  <2>1. nextOp' = nextOp + 1
    BY <1>4 DEF Makes
  <2>2. \A i \in DOMAIN undoStack' : undoStack'[i].op \in Nat /\ undoStack'[i].op < nextOp
    BY <1>2, <1>5, EntryPlaces DEF Linked, EntriesAreOld, Old
  <2>3. \A i \in DOMAIN redoStack : redoStack[i].op \in Nat /\ redoStack[i].op < nextOp
    BY <1>2, EntryPlaces DEF Linked, EntriesAreOld, Old
  <2>4. \A i \in DOMAIN redoStack' : redoStack'[i].op \in Nat /\ redoStack'[i].op < nextOp
    BY <1>3, <1>7, <2>3 DEF Topped
  <2>5. \A x \in Nat : x < nextOp => x < nextOp + 1
    BY <1>2
  <2> QED
    BY <2>1, <2>2, <2>4, <2>5 DEF EntriesAreOld, Old
<1>9. DistinctEntries(undoStack')
  BY <1>5 DEF Linked, DistinctEntries
<1>10. PICK made : made = Made'
  OBVIOUS
<1>11. made \subseteq Made \cup {<<nextOp, e.op>>}
  BY <1>4, <1>10 DEF Makes
<1>12. \A x \in Made : x[2] # e.op
  BY <1>3 DEF Linked, Undoable
<1>13. OnceIn(made)
  <2> SUFFICES ASSUME NEW x \in made, NEW y \in made, x[2] # 0, x[2] = y[2]
               PROVE  x[1] = y[1]
    BY DEF OnceIn
  <2>1. CASE x \in Made /\ y \in Made
    BY <2>1 DEF Linked, OnceIn
  <2>2. CASE x = <<nextOp, e.op>>
    <3>1. y \notin Made
      BY <1>12, <2>2
    <3> QED
      BY <1>11, <2>2, <3>1
  <2>3. CASE y = <<nextOp, e.op>>
    <3>1. x \notin Made
      BY <1>12, <2>3
    <3> QED
      BY <1>11, <2>3, <3>1
  <2> QED
    BY <1>11, <2>1, <2>2, <2>3
<1>14. Undoable(made, undoStack')
  <2> SUFFICES ASSUME NEW x \in made, NEW i \in DOMAIN undoStack'
               PROVE  x[2] # undoStack'[i].op
    BY DEF Undoable
  <2>1. i \in DOMAIN undoStack /\ undoStack'[i] = undoStack[i] /\ i # Len(undoStack)
    <3>1. i \in Nat /\ Len(undoStack) \in Nat
      BY <1>2, <1>5, EntryPlaces
    <3> QED
      BY <1>5, <3>1
  <2>2. CASE x \in Made
    BY <2>1, <2>2 DEF Linked, Undoable
  <2>3. CASE x = <<nextOp, e.op>>
    BY <1>3, <2>1, <2>3 DEF Linked, DistinctEntries
  <2> QED
    BY <1>11, <2>2, <2>3
<1> QED
  BY <1>8, <1>9, <1>10, <1>13, <1>14 DEF Linked

LEMMA LinkedSteps ==
  ASSUME Typed, Own, Linked, [Next]_vars
  PROVE  Linked'
<1>1. Entry(undoStack) /\ Entry(redoStack)
  BY DEF Typed, HistoryTyped
<1>2. CASE Executed
  <2>1. PICK m \in Mutation, e \in Item :
          /\ Enqueued(m, 0) /\ e.op = nextOp /\ e.m.at = e.inverse.at
          /\ undoStack' = Pushed(e) /\ redoStack' = <<>>
    BY <1>2 DEF Executed
  <2>2. Topped(undoStack, undoStack', nextOp)
    BY <2>1, ToppedByPush
  <2> QED
    BY <2>1, <2>2, EnqueuedMakes, FromNothing, LinkedMakes
<1>3. CASE Redone
  <2>1. PICK e \in Item :
          /\ redoStack # <<>> /\ Enqueued(e.m, 0)
          /\ e.op = nextOp /\ e.m.at = e.inverse.at
          /\ undoStack' = Append(undoStack, e) /\ redoStack' = Popped(redoStack)
    BY <1>3 DEF Redone
  <2>2. Topped(undoStack, undoStack', nextOp)
    BY <1>1, <2>1, ToppedByAppend
  <2>3. FromBelow(redoStack, redoStack')
    BY <1>1, <2>1, FromPopped
  <2> QED
    BY <2>1, <2>2, <2>3, EnqueuedMakes, LinkedMakes
<1>4. CASE Undone
  BY <1>4, LinkedUndone
<1> QED
  BY <1>2, <1>3, <1>4, OthersRest, LinkedRests, Steps

LEMMA OwnSteps ==
  ASSUME Typed, Own, EntriesAreOld, [Next]_vars
  PROVE  Own'
<1>1. 0 \in Nat /\ 0 < nextOp
  <2>1. nextOp \in 1 .. MaxEdits + 1
    BY DEF Typed, QueueTyped
  <2> QED
    BY <2>1, EditingAssumption
<1>2. CASE Executed
  BY <1>1, <1>2, OwnEnqueued DEF Executed
<1>3. CASE Redone
  BY <1>1, <1>3, OwnEnqueued DEF Redone
<1>4. CASE Acknowledged
  BY <1>4, OwnAfterOwn DEF Acknowledged
<1>5. CASE Received
  BY <1>5, OwnAfterOther DEF Received
<1>6. CASE Reloaded
  <2>1. /\ log' = log /\ nextOp' = nextOp /\ queue' = <<>> /\ revision' = Len(log)
        /\ refused' = FALSE
    BY <1>6 DEF Reloaded, serverVars
  <2>2. DOMAIN queue' = {}
    BY <2>1
  <2>3. \A k \in DOMAIN log : ~ (k > Len(log))
    BY TypedPlaces
  <2>4. NumbersAreNew' /\ CommittedOnce' /\ OwnWereQuiet'
    BY <2>1, <2>2 DEF Own, NumbersAreNew, CommittedOnce, OwnWereQuiet
  <2>5. OwnAhead'
    BY <2>1, <2>3 DEF OwnAhead
  <2>6. HeadBase' /\ RefusedHead'
    BY <2>1 DEF HeadBase, RefusedHead
  <2> QED
    BY <2>4, <2>5, <2>6 DEF Own
<1>7. CASE Grown
  <2>1. PICK r \in Row :
          LogGrows(r) /\ (OwnCommitted(r) \/ (r.op = 0 /\ r.undoes = 0))
    BY <1>7 DEF Grown
  <2>2. r.undoes < nextOp
    <3>1. CASE OwnCommitted(r)
      <4>1. 1 \in DOMAIN queue /\ r.undoes = queue[1].undoes
        BY <3>1, TypedPlaces DEF OwnCommitted
      <4> QED
        BY <4>1 DEF Own, NumbersAreNew
    <3> QED
      BY <1>1, <2>1, <3>1
  <2> QED
    BY <2>1, <2>2, OwnGrown
<1>8. CASE Halted
  <2>1. /\ log' = log /\ nextOp' = nextOp /\ queue' = queue /\ revision' = revision
        /\ refused' => refused \/ (queue # <<>> /\ \A k \in DOMAIN log : log[k].op # queue[1].op)
    BY <1>8 DEF Halted, serverVars
  <2>2. NumbersAreNew' /\ CommittedOnce' /\ OwnWereQuiet' /\ OwnAhead' /\ HeadBase'
    BY <2>1 DEF Own, NumbersAreNew, CommittedOnce, OwnWereQuiet, OwnAhead, HeadBase
  <2>3. RefusedHead'
    BY <2>1 DEF Own, RefusedHead
  <2> QED
    BY <2>2, <2>3 DEF Own
<1>9. CASE Undone
  <2>1. PICK e \in Item :
          undoStack # <<>> /\ e = Top(undoStack) /\ Enqueued(e.inverse, e.op)
    BY <1>9 DEF Undone
  <2>2. e.op < nextOp /\ e.op \in Nat
    BY <2>1, TopIsOld
  <2> QED
    BY <2>1, <2>2, OwnEnqueued
<1> QED
  BY <1>2, <1>3, <1>4, <1>5, <1>6, <1>7, <1>8, <1>9, Steps

-----------------------------------------------------------------------------
(* Where the operations of the entries are. *)

KnownIn(e, q, l, r) ==
  IF e.committed = 0
  THEN \E i \in DOMAIN q : q[i].op = e.op
  ELSE e.committed <= r /\ l[e.committed].op = e.op /\ l[e.committed].base = e.base

AllKnownIn(stack, q, l, r) == \A i \in DOMAIN stack : KnownIn(stack[i], q, l, r)

Known ==
  AllKnownIn(undoStack, queue, log, revision) /\ AllKnownIn(redoStack, queue, log, revision)

\* The queue gains operations, and the log revisions.
LEMMA StaysKnown ==
  ASSUME Typed, NEW e, e.committed \in Nat, KnownIn(e, queue, log, revision),
         NEW q, NEW l, NEW r, r \in Nat, revision <= r,
         \A k \in DOMAIN log : l[k] = log[k],
         \A i \in DOMAIN queue : \E j \in DOMAIN q : q[j].op = queue[i].op
  PROVE  KnownIn(e, q, l, r)
<1>1. CASE e.committed = 0
  BY <1>1 DEF KnownIn
<1>2. CASE e.committed # 0
  <2>1. e.committed <= revision /\ revision \in Nat /\ DOMAIN log = 1 .. Len(log)
          /\ revision <= Len(log) /\ Len(log) \in Nat
    BY <1>2, TypedPlaces DEF KnownIn
  <2>2. e.committed \in DOMAIN log /\ e.committed <= r
    BY <1>2, <2>1
  <2> QED
    BY <1>2, <2>2 DEF KnownIn
<1> QED
  BY <1>1, <1>2

LEMMA MovedIsKnown ==
  ASSUME NEW e, NEW f, NEW c, MovedItem(e, f, c), NEW q, NEW l, NEW r, KnownIn(e, q, l, r)
  PROVE  KnownIn(f, q, l, r)
BY DEF MovedItem, KnownIn

\* The first operation leaves the queue for the next revision.
LEMMA MarkedIsKnown ==
  ASSUME Typed, NEW e \in Item, NEW f, MarkedItem(e, f), OwnReceived,
         KnownIn(e, queue, log, revision)
  PROVE  KnownIn(f, queue', log', revision')
<1>1. /\ log' = log /\ revision' = revision + 1 /\ revision' \in DOMAIN log
      /\ log[revision'].op = queue[1].op
      /\ \A i \in DOMAIN queue : i # 1 => i - 1 \in DOMAIN queue'
      /\ \A i \in DOMAIN queue' : i \in Nat /\ queue'[i].op = queue[i + 1].op
  BY DEF OwnReceived, serverVars
<1>2. Incoming = log[revision'] /\ revision \in Nat
  BY <1>1, TypedPlaces DEF Incoming
<1>3. CASE f.op = Incoming.op
  <2>1. f.committed = revision + 1 /\ f.base = Incoming.base /\ revision + 1 # 0
    BY <1>2, <1>3 DEF MarkedItem
  <2> QED
    BY <1>1, <1>2, <1>3, <2>1 DEF KnownIn
<1>4. CASE f.op # Incoming.op
  <2>1. f = e /\ e.op # queue[1].op
    BY <1>1, <1>2, <1>4 DEF MarkedItem
  <2>2. CASE e.committed = 0
    <3>1. PICK i \in DOMAIN queue : queue[i].op = e.op
      BY <2>2 DEF KnownIn
    <3>2. i # 1 /\ i \in Nat
      BY <2>1, <3>1, TypedPlaces
    <3>3. i - 1 \in DOMAIN queue' /\ i - 1 + 1 = i
      BY <1>1, <3>2
    <3>4. queue'[i - 1].op = e.op
      BY <1>1, <3>1, <3>3
    <3> QED
      BY <2>1, <2>2, <3>3, <3>4 DEF KnownIn
  <2>3. CASE e.committed # 0
    <3>1. e.committed <= revision + 1
      <4>1. e.committed <= revision /\ e.committed \in Nat
        BY <2>3 DEF KnownIn, Item
      <4> QED
        BY <1>2, <4>1
    <3> QED
      BY <1>1, <2>1, <2>3, <3>1 DEF KnownIn
  <2> QED
    BY <2>2, <2>3
<1> QED
  BY <1>3, <1>4

LEMMA KnownMarked ==
  ASSUME Typed, OwnReceived, NEW stack, Entry(stack),
         AllKnownIn(stack, queue, log, revision)
  PROVE  AllKnownIn(Marked(stack), queue', log', revision')
<1>1. revision < Len(log)
  BY DEF OwnReceived
<1>2. PICK s : s = Marked(stack)
  OBVIOUS
<1>3. DOMAIN s = DOMAIN stack /\ \A i \in DOMAIN stack : MarkedItem(stack[i], s[i])
  BY <1>1, <1>2, MarkedProperties
<1>4. \A i \in DOMAIN stack : stack[i] \in Item /\ KnownIn(stack[i], queue, log, revision)
  BY EntryPlaces DEF AllKnownIn
<1>5. \A i \in DOMAIN s : KnownIn(s[i], queue', log', revision')
  BY <1>3, <1>4, MarkedIsKnown
<1> QED
  BY <1>2, <1>5 DEF AllKnownIn

LEMMA KnownEnqueued ==
  ASSUME Typed, NEW m, NEW undoes, Enqueued(m, undoes),
         NEW stack, Entry(stack), AllKnownIn(stack, queue, log, revision)
  PROVE  /\ AllKnownIn(stack, queue', log', revision')
         /\ \A e \in Item :
              e.op = nextOp /\ e.committed = 0 => KnownIn(e, queue', log', revision')
<1>1. log' = log /\ revision' = revision
  BY DEF Enqueued, serverVars
<1>2. \A i \in DOMAIN queue : i \in DOMAIN queue' /\ queue'[i] = queue[i]
  BY EnqueuedPlaces
<1>3. revision \in Nat /\ revision <= revision /\ Len(queue) \in Nat
  BY TypedPlaces
<1>4. \A i \in DOMAIN stack : stack[i].committed \in Nat
  BY EntryPlaces DEF Item
<1>5. \A i \in DOMAIN queue : \E j \in DOMAIN queue' : queue'[j].op = queue[i].op
  BY <1>2
<1>6. AllKnownIn(stack, queue', log', revision')
  <2> SUFFICES ASSUME NEW i \in DOMAIN stack
               PROVE  KnownIn(stack[i], queue', log', revision')
    BY DEF AllKnownIn
  <2>1. KnownIn(stack[i], queue, log, revision) /\ stack[i].committed \in Nat
    BY <1>4 DEF AllKnownIn
  <2> QED
    BY <1>1, <1>3, <1>5, <2>1, StaysKnown
<1>7. Len(queue) + 1 \in DOMAIN queue' /\ queue'[Len(queue) + 1].op = nextOp
  BY <1>3, EnqueuedPlaces
<1> QED
  BY <1>6, <1>7 DEF KnownIn

LEMMA KnownThinned ==
  ASSUME NEW stack, NEW s, NEW c, Thinned(stack, s, c), NEW q, NEW l, NEW r,
         AllKnownIn(stack, q, l, r)
  PROVE  AllKnownIn(s, q, l, r)
<1>1. PICK f \in [DOMAIN s -> DOMAIN stack] :
        \A i \in DOMAIN s : MovedItem(stack[f[i]], s[i], c)
  BY DEF Thinned
<1>2. \A i \in DOMAIN s : KnownIn(stack[f[i]], q, l, r)
  BY DEF AllKnownIn
<1> QED
  BY <1>1, <1>2, MovedIsKnown DEF AllKnownIn

LEMMA KnownGoesOn ==
  ASSUME Typed, NEW stack, Entry(stack), AllKnownIn(stack, queue, log, revision),
         NEW q, NEW l, NEW r, r \in Nat, revision <= r,
         \A k \in DOMAIN log : l[k] = log[k],
         \A i \in DOMAIN queue : i \in DOMAIN q /\ q[i].op = queue[i].op
  PROVE  AllKnownIn(stack, q, l, r)
<1> SUFFICES ASSUME NEW i \in DOMAIN stack PROVE KnownIn(stack[i], q, l, r)
  BY DEF AllKnownIn
<1>1. KnownIn(stack[i], queue, log, revision) /\ stack[i].committed \in Nat
  BY EntryPlaces DEF AllKnownIn, Item
<1>2. \A j \in DOMAIN queue : \E k \in DOMAIN q : q[k].op = queue[j].op
  OBVIOUS
<1> QED
  BY <1>1, <1>2, StaysKnown

LEMMA KnownOnStack ==
  ASSUME NEW stack, Entry(stack), NEW e \in Item, e.m.at = e.inverse.at,
         NEW q, NEW l, NEW r, AllKnownIn(stack, q, l, r), KnownIn(e, q, l, r)
  PROVE  AllKnownIn(Append(stack, e), q, l, r)
<1>1. PICK s : s = Append(stack, e)
  OBVIOUS
<1>2. /\ Len(stack) \in Nat /\ DOMAIN stack = 1 .. Len(stack)
      /\ DOMAIN s = 1 .. Len(stack) + 1
      /\ s[Len(stack) + 1] = e
      /\ \A i \in DOMAIN stack : s[i] = stack[i]
  BY <1>1, AppendedEntry
<1>3. \A i \in DOMAIN s : i \in DOMAIN stack \/ i = Len(stack) + 1
  BY <1>2
<1>4. \A i \in DOMAIN s : KnownIn(s[i], q, l, r)
  BY <1>2, <1>3 DEF AllKnownIn
<1> QED
  BY <1>1, <1>4 DEF AllKnownIn

LEMMA KnownPopped ==
  ASSUME NEW stack, Entry(stack), stack # <<>>, NEW q, NEW l, NEW r,
         AllKnownIn(stack, q, l, r)
  PROVE  AllKnownIn(Popped(stack), q, l, r)
BY TopOf DEF AllKnownIn

LEMMA KnownPushed ==
  ASSUME Typed, NEW e \in Item, e.m.at = e.inverse.at,
         NEW q, NEW l, NEW r, AllKnownIn(undoStack, q, l, r), KnownIn(e, q, l, r)
  PROVE  AllKnownIn(Pushed(e), q, l, r)
<1>1. Entry(undoStack) /\ Len(undoStack) <= HistoryLimit
  <2>1. Entry(undoStack) /\ Entry(redoStack) /\ Len(undoStack) + Len(redoStack) <= HistoryLimit
    BY DEF Typed, HistoryTyped
  <2> QED
    BY <2>1, EntryPlaces, HistoryAssumption
<1>2. PICK s : s = Pushed(e)
  OBVIOUS
<1>3. PICK d \in {0, 1} :
        \A i \in DOMAIN s :
          /\ i + d \in 1 .. Len(undoStack) + 1
          /\ i + d \in DOMAIN undoStack => s[i] = undoStack[i + d]
          /\ i + d = Len(undoStack) + 1 => s[i] = e
  BY <1>1, <1>2, PushedProperties
<1>4. DOMAIN undoStack = 1 .. Len(undoStack) /\ Len(undoStack) \in Nat
  BY <1>1, EntryPlaces
<1>5. ASSUME NEW i \in DOMAIN s PROVE KnownIn(s[i], q, l, r)
  <2>1. i + d \in DOMAIN undoStack \/ i + d = Len(undoStack) + 1
    BY <1>3, <1>4
  <2> QED
    BY <1>3, <2>1 DEF AllKnownIn
<1> QED
  BY <1>2, <1>5 DEF AllKnownIn

LEMMA NothingKnown ==
  ASSUME NEW q, NEW l, NEW r
  PROVE  AllKnownIn(<<>>, q, l, r)
<1>1. DOMAIN <<>> = {}
  OBVIOUS
<1> QED
  BY <1>1 DEF AllKnownIn

LEMMA KnownSteps ==
  ASSUME Typed, Known, [Next]_vars
  PROVE  Known'
<1>1. Entry(undoStack) /\ Entry(redoStack)
  BY DEF Typed, HistoryTyped
<1>2. /\ AllKnownIn(undoStack, queue, log, revision)
      /\ AllKnownIn(redoStack, queue, log, revision)
  BY DEF Known
<1>3. SUFFICES /\ AllKnownIn(undoStack', queue', log', revision')
               /\ AllKnownIn(redoStack', queue', log', revision')
  BY DEF Known
<1>4. CASE Executed
  <2>1. PICK m \in Mutation, e \in Item :
          /\ Enqueued(m, 0)
          /\ e.op = nextOp /\ e.committed = 0 /\ e.m.at = e.inverse.at
          /\ undoStack' = Pushed(e) /\ redoStack' = <<>>
    BY <1>4 DEF Executed
  <2>2. AllKnownIn(undoStack, queue', log', revision') /\ KnownIn(e, queue', log', revision')
    BY <1>1, <1>2, <2>1, KnownEnqueued
  <2> QED
    BY <2>1, <2>2, KnownPushed, NothingKnown
<1>5. CASE Undone
  <2>1. PICK e \in Item :
          /\ undoStack # <<>> /\ e = Top(undoStack) /\ Enqueued(e.inverse, e.op)
          /\ undoStack' = Popped(undoStack) /\ redoStack' = Append(redoStack, e)
    BY <1>5 DEF Undone
  <2>2. /\ AllKnownIn(undoStack, queue', log', revision')
        /\ AllKnownIn(redoStack, queue', log', revision')
    BY <1>1, <1>2, <2>1, KnownEnqueued
  <2>3. AllKnownIn(Popped(undoStack), queue', log', revision')
    BY <1>1, <2>1, <2>2, KnownPopped
  <2>4. e.m.at = e.inverse.at /\ e = undoStack[Len(undoStack)]
          /\ Len(undoStack) \in DOMAIN undoStack
    BY <1>1, <2>1, TopOf, EntryPlaces
  <2>5. KnownIn(e, queue', log', revision')
    BY <2>2, <2>4 DEF AllKnownIn
  <2>6. AllKnownIn(Append(redoStack, e), queue', log', revision')
    BY <1>1, <2>2, <2>4, <2>5, KnownOnStack
  <2> QED
    BY <2>1, <2>3, <2>6
<1>6. CASE Redone
  <2>1. PICK e \in Item :
          /\ redoStack # <<>> /\ Enqueued(e.m, 0)
          /\ e.op = nextOp /\ e.committed = 0 /\ e.m.at = e.inverse.at
          /\ undoStack' = Append(undoStack, e) /\ redoStack' = Popped(redoStack)
    BY <1>6 DEF Redone
  <2>2. /\ AllKnownIn(undoStack, queue', log', revision')
        /\ AllKnownIn(redoStack, queue', log', revision')
        /\ KnownIn(e, queue', log', revision')
    BY <1>1, <1>2, <2>1, KnownEnqueued
  <2>3. AllKnownIn(Popped(redoStack), queue', log', revision')
    BY <1>1, <2>1, <2>2, KnownPopped
  <2>4. AllKnownIn(Append(undoStack, e), queue', log', revision')
    BY <1>1, <2>1, <2>2, KnownOnStack
  <2> QED
    BY <2>1, <2>3, <2>4
<1>7. CASE Acknowledged
  <2>1. /\ AllKnownIn(Marked(undoStack), queue', log', revision')
        /\ AllKnownIn(Marked(redoStack), queue', log', revision')
    BY <1>1, <1>2, <1>7, KnownMarked DEF Acknowledged
  <2> QED
    BY <1>7, <2>1 DEF Acknowledged
<1>8. CASE Received
  <2>1. PICK c \in Mutation :
          /\ OtherReceived(c)
          /\ Thinned(undoStack, undoStack', c) /\ Thinned(redoStack, redoStack', c)
    BY <1>8 DEF Received
  <2>2. /\ revision' = revision + 1 /\ log' = log
        /\ \A i \in DOMAIN queue : i \in DOMAIN queue' /\ queue'[i].op = queue[i].op
    BY <2>1 DEF OtherReceived, serverVars
  <2>3. revision' \in Nat /\ revision <= revision'
    BY <2>2, TypedPlaces
  <2>4. \A k \in DOMAIN log : log'[k] = log[k]
    BY <2>2
  <2>5. /\ AllKnownIn(undoStack, queue', log', revision')
        /\ AllKnownIn(redoStack, queue', log', revision')
    BY <1>1, <1>2, <2>2, <2>3, <2>4, KnownGoesOn
  <2> QED
    BY <2>1, <2>5, KnownThinned
<1>9. CASE Reloaded
  BY <1>9, NothingKnown DEF Reloaded
<1>10. CASE Grown
  <2>1. PICK r \in Row : LogGrows(r) /\ UNCHANGED <<undoStack, redoStack>>
    BY <1>10 DEF Grown
  <2>2. /\ \A k \in DOMAIN log : log'[k] = log[k]
        /\ queue' = queue /\ revision' = revision
    BY <2>1, GrownPlaces
  <2>3. revision' \in Nat /\ revision <= revision'
    BY <2>2, TypedPlaces
  <2>4. \A i \in DOMAIN queue : i \in DOMAIN queue' /\ queue'[i].op = queue[i].op
    BY <2>2
  <2>5. /\ AllKnownIn(undoStack, queue', log', revision')
        /\ AllKnownIn(redoStack, queue', log', revision')
    BY <1>1, <1>2, <2>2, <2>3, <2>4, KnownGoesOn
  <2> QED
    BY <2>1, <2>5
<1>11. CASE Halted
  BY <1>2, <1>11 DEF Halted, serverVars
<1> QED
  BY <1>4, <1>5, <1>6, <1>7, <1>8, <1>9, <1>10, <1>11, Steps

-----------------------------------------------------------------------------
(* An operation that is queued was not received. *)

DistinctQueue == \A i, j \in DOMAIN queue : queue[i].op = queue[j].op => i = j

ReceivedLeft ==
  \A k \in DOMAIN log : \A i \in DOMAIN queue :
    log[k].op = queue[i].op => k > revision /\ i = 1

Waiting == DistinctQueue /\ ReceivedLeft

LEMMA WaitingEnqueued ==
  ASSUME Typed, Own, Waiting, NEW m, NEW undoes, Enqueued(m, undoes)
  PROVE  Waiting'
<1>1. /\ \A i \in DOMAIN queue : queue'[i] = queue[i]
      /\ \A i \in DOMAIN queue' : i \in DOMAIN queue \/ i = Len(queue) + 1
      /\ queue'[Len(queue) + 1].op = nextOp
      /\ log' = log /\ revision' = revision
  BY EnqueuedPlaces DEF Enqueued, serverVars
<1>2. nextOp \in Nat /\ \A x \in Nat : x < nextOp => x # nextOp
  BY TypedPlaces
<1>3. \A i \in DOMAIN queue : queue[i].op # nextOp
  <2>1. \A i \in DOMAIN queue : queue[i] \in Queued
    BY TypedPlaces
  <2> QED
    BY <1>2, <2>1, EditingAssumption DEF Own, NumbersAreNew, Queued, Ops
<1>4. \A k \in DOMAIN log : log[k].op # nextOp
  <2>1. \A k \in DOMAIN log : log[k] \in Row
    BY TypedPlaces
  <2> QED
    BY <1>2, <2>1, EditingAssumption DEF Own, NumbersAreNew, Row
<1>5. DistinctQueue'
  BY <1>1, <1>3 DEF Waiting, DistinctQueue
<1>6. ReceivedLeft'
  BY <1>1, <1>4 DEF Waiting, ReceivedLeft
<1> QED
  BY <1>5, <1>6 DEF Waiting

LEMMA WaitingAfterOwn ==
  ASSUME Typed, Waiting, OwnReceived
  PROVE  Waiting'
<1>1. /\ log' = log
      /\ \A i \in DOMAIN queue' :
           i \in Nat /\ i + 1 \in DOMAIN queue /\ queue'[i].op = queue[i + 1].op
  BY DEF OwnReceived, serverVars
<1>2. \A i \in DOMAIN queue' : i # 0
  <2>1. queue' \in Seq(Queued)
    BY DEF OwnReceived
  <2>2. DOMAIN queue' = 1 .. Len(queue') /\ Len(queue') \in Nat
    BY <2>1, Places
  <2> QED
    BY <2>2
<1>3. DistinctQueue'
  <2> SUFFICES ASSUME NEW i \in DOMAIN queue', NEW j \in DOMAIN queue',
                      queue'[i].op = queue'[j].op
               PROVE  i = j
    BY DEF DistinctQueue
  <2>1. i + 1 = j + 1
    BY <1>1 DEF Waiting, DistinctQueue
  <2> QED
    BY <1>1, <2>1
<1>4. ReceivedLeft'
  <2> SUFFICES ASSUME NEW k \in DOMAIN log, NEW i \in DOMAIN queue', log[k].op = queue'[i].op
               PROVE  FALSE
    BY <1>1 DEF ReceivedLeft
  <2>1. i + 1 = 1
    BY <1>1 DEF Waiting, ReceivedLeft
  <2> QED
    BY <1>1, <1>2, <2>1
<1> QED
  BY <1>3, <1>4 DEF Waiting

LEMMA WaitingAfterOther ==
  ASSUME Typed, Waiting, NEW c, OtherReceived(c)
  PROVE  Waiting'
<1>1. /\ log' = log /\ revision' = revision + 1
      /\ DOMAIN queue' = DOMAIN queue
      /\ \A i \in DOMAIN queue : queue'[i].op = queue[i].op
      /\ queue # <<>> => log[revision'].op # queue[1].op
  BY DEF OtherReceived, serverVars
<1>2. DistinctQueue'
  BY <1>1 DEF Waiting, DistinctQueue
<1>3. ReceivedLeft'
  <2> SUFFICES ASSUME NEW k \in DOMAIN log, NEW i \in DOMAIN queue, log[k].op = queue[i].op
               PROVE  k > revision + 1 /\ i = 1
    BY <1>1 DEF ReceivedLeft
  <2>1. k > revision /\ i = 1
    BY DEF Waiting, ReceivedLeft
  <2>2. k # revision + 1
    BY <1>1, <2>1, TypedPlaces
  <2>3. k \in Nat /\ revision \in Nat
    BY TypedPlaces
  <2> QED
    BY <2>1, <2>2, <2>3
<1> QED
  BY <1>2, <1>3 DEF Waiting

LEMMA WaitingGrown ==
  ASSUME Typed, Waiting, NEW r \in Row, LogGrows(r), OwnCommitted(r) \/ r.op = 0
  PROVE  Waiting'
<1>1. /\ \A k \in DOMAIN log : log'[k] = log[k]
      /\ \A k \in DOMAIN log' : k \in DOMAIN log \/ k = Len(log) + 1
      /\ log'[Len(log) + 1] = r
      /\ queue' = queue /\ revision' = revision
  BY GrownPlaces
<1>2. DistinctQueue'
  BY <1>1 DEF Waiting, DistinctQueue
<1>3. ReceivedLeft'
  <2> SUFFICES ASSUME NEW k \in DOMAIN log', NEW i \in DOMAIN queue, log'[k].op = queue[i].op
               PROVE  k > revision /\ i = 1
    BY <1>1 DEF ReceivedLeft
  <2>1. CASE k \in DOMAIN log
    BY <1>1, <2>1 DEF Waiting, ReceivedLeft
  <2>2. CASE k = Len(log) + 1
    <3>1. k > revision
      BY <2>2, TypedPlaces
    <3>2. queue[i].op # 0
      <4>1. queue[i] \in Queued
        BY TypedPlaces
      <4> QED
        BY <4>1, EditingAssumption DEF Queued, Ops
    <3>3. OwnCommitted(r) /\ r.op = queue[i].op
      BY <1>1, <2>2, <3>2
    <3>4. 1 \in DOMAIN queue /\ queue[1].op = queue[i].op
      BY <3>3, TypedPlaces DEF OwnCommitted
    <3> QED
      BY <3>1, <3>4 DEF Waiting, DistinctQueue
  <2> QED
    BY <1>1, <2>1, <2>2
<1> QED
  BY <1>2, <1>3 DEF Waiting

LEMMA WaitingSteps ==
  ASSUME Typed, Own, Waiting, [Next]_vars
  PROVE  Waiting'
<1>1. CASE Executed
  BY <1>1, WaitingEnqueued DEF Executed
<1>2. CASE Undone
  BY <1>2, WaitingEnqueued DEF Undone
<1>3. CASE Redone
  BY <1>3, WaitingEnqueued DEF Redone
<1>4. CASE Acknowledged
  BY <1>4, WaitingAfterOwn DEF Acknowledged
<1>5. CASE Received
  BY <1>5, WaitingAfterOther DEF Received
<1>6. CASE Reloaded
  <2>1. DOMAIN queue' = {}
    BY <1>6 DEF Reloaded
  <2> QED
    BY <2>1 DEF Waiting, DistinctQueue, ReceivedLeft
<1>7. CASE Grown
  BY <1>7, WaitingGrown DEF Grown
<1>8. CASE Halted
  BY <1>8 DEF Halted, serverVars, Waiting, DistinctQueue, ReceivedLeft
<1> QED
  BY <1>1, <1>2, <1>3, <1>4, <1>5, <1>6, <1>7, <1>8, Steps

-----------------------------------------------------------------------------
(* The documents of the revisions, and those of the drafts over them. *)

History(e, l, s) ==
  /\ e \in [0 .. Len(l) -> Sheets]
  /\ e[Len(l)] = s
  /\ \A k \in 1 .. Len(l) :
       InBounds(e[k - 1], l[k].m) /\ e[k] = Applied(e[k - 1], l[k].m)

Drafts(d, first, q, last) ==
  /\ d \in [0 .. Len(q) -> Sheets]
  /\ d[0] = first /\ d[Len(q)] = last
  /\ \A i \in 1 .. Len(q) :
       /\ InBounds(d[i - 1], q[i].m) /\ d[i] = Applied(d[i - 1], q[i].m)
       /\ q[i].aim = Under(d[i - 1], q[i].m)

\* The server is going to refuse the first operation: rows moved since its base.
Doomed(q, l) ==
  /\ q # <<>>
  /\ \A k \in DOMAIN l : l[k].op # q[1].op
  /\ \E k \in q[1].base + 1 .. Len(l) : Moves(l[k].m)

\* The page shows a revision with its drafts over it.
Overlaid(e) ==
  crossed \/ Doomed(queue, log) \/ \E d : Drafts(d, e[revision], queue, rows)

InPlace == \E e : History(e, log, sheet) /\ Overlaid(e)

LEMMA Extended ==
  ASSUME NEW n \in Nat, NEW d \in [0 .. n -> Sheets], NEW x \in Sheets
  PROVE  \E f \in [0 .. n + 1 -> Sheets] : f[n + 1] = x /\ \A i \in 0 .. n : f[i] = d[i]
<1>1. PICK f : f = [i \in 0 .. n + 1 |-> IF i = n + 1 THEN x ELSE d[i]]
  OBVIOUS
<1>2. \A i \in 0 .. n + 1 : i \in 0 .. n \/ i = n + 1
  OBVIOUS
<1>3. f \in [0 .. n + 1 -> Sheets]
  BY <1>1, <1>2
<1>4. \A i \in 0 .. n : i \in 0 .. n + 1 /\ i # n + 1
  OBVIOUS
<1>5. f[n + 1] = x /\ \A i \in 0 .. n : f[i] = d[i]
  BY <1>1, <1>4
<1> QED
  BY <1>3, <1>5

\* Of a set of positions: if each holds the next one, it holds them all.
LEMMA StepByStep ==
  ASSUME NEW a \in Nat, NEW b \in Nat, NEW S, a \in S,
         \A k \in a + 1 .. b : k - 1 \in S => k \in S
  PROVE  \A k \in a .. b : k \in S
<1> DEFINE T == {k \in a .. b : k \notin S}
<1>1. SUFFICES ASSUME T # {} PROVE FALSE
  OBVIOUS
<1>2. T \in SUBSET Nat
  OBVIOUS
<1> HIDE DEF T
<1>3. PICK m \in T : \A k \in T : m <= k
  BY <1>1, <1>2, LeastExists
<1>4. m \in a .. b /\ m \notin S
  BY <1>3 DEF T
<1>5. m \in a + 1 .. b /\ m - 1 \in a .. b /\ ~ (m <= m - 1)
  BY <1>4
<1>6. m - 1 \notin T
  BY <1>3, <1>5
<1>7. m - 1 \in S
  BY <1>5, <1>6 DEF T
<1> QED
  BY <1>4, <1>5, <1>7

LEMMA OverlaidEnqueued ==
  ASSUME Typed, NEW m \in Mutation, NEW undoes, Enqueued(m, undoes),
         NEW e, Overlaid(e)
  PROVE  crossed' \/ Doomed(queue', log') \/ \E d : Drafts(d, e[revision'], queue', rows')
<1>1. crossed' = crossed /\ log' = log /\ revision' = revision
  BY DEF Enqueued, serverVars
<1>2. CASE crossed
  BY <1>1, <1>2
<1>3. CASE Doomed(queue, log)
  BY <1>1, <1>3, EnqueuedPlaces DEF Doomed
<1>4. ASSUME NEW d, Drafts(d, e[revision], queue, rows)
      PROVE  \E f : Drafts(f, e[revision'], queue', rows')
  <2>1. /\ InBounds(rows, m) /\ rows' = Applied(rows, m) /\ rows \in Sheets
    BY DEF Enqueued, Typed, PageTyped
  <2>2. rows' \in Sheets
    BY <2>1, SheetsChange
  <2>3. PICK n \in Nat : n = Len(queue)
    BY TypedPlaces
  <2>4. /\ d \in [0 .. n -> Sheets] /\ d[0] = e[revision] /\ d[n] = rows
        /\ \A i \in 1 .. n :
             /\ InBounds(d[i - 1], queue[i].m) /\ d[i] = Applied(d[i - 1], queue[i].m)
             /\ queue[i].aim = Under(d[i - 1], queue[i].m)
    BY <1>4, <2>3 DEF Drafts
  <2>5. PICK f \in [0 .. n + 1 -> Sheets] : f[n + 1] = rows' /\ \A i \in 0 .. n : f[i] = d[i]
    BY <2>2, <2>4, Extended
  <2>6. /\ Len(queue') = n + 1
        /\ \A i \in 1 .. n : queue'[i] = queue[i]
        /\ queue'[n + 1].m = m /\ queue'[n + 1].aim = Under(rows, m)
    BY <2>3, EnqueuedPlaces, TypedPlaces
  <2>7. f[0] = e[revision] /\ f[n] = rows
    BY <2>4, <2>5
  <2>8. ASSUME NEW i \in 1 .. n + 1
        PROVE  /\ InBounds(f[i - 1], queue'[i].m) /\ f[i] = Applied(f[i - 1], queue'[i].m)
               /\ queue'[i].aim = Under(f[i - 1], queue'[i].m)
    <3>1. CASE i \in 1 .. n
      <4>1. i \in 0 .. n /\ i - 1 \in 0 .. n
        BY <3>1
      <4>2. f[i] = d[i] /\ f[i - 1] = d[i - 1] /\ queue'[i] = queue[i]
        BY <2>5, <2>6, <3>1, <4>1
      <4> QED
        BY <2>4, <3>1, <4>2
    <3>2. CASE i = n + 1
      <4>1. i - 1 = n
        BY <3>2
      <4> QED
        BY <2>1, <2>5, <2>6, <2>7, <3>2, <4>1
    <3> QED
      BY <3>1, <3>2
  <2>9. Drafts(f, e[revision], queue', rows')
    BY <2>5, <2>6, <2>7, <2>8 DEF Drafts
  <2> QED
    BY <1>1, <2>9
<1> QED
  BY <1>2, <1>3, <1>4 DEF Overlaid

\* The first draft becomes the revision it was committed as.
LEMMA OverlaidAfterOwn ==
  ASSUME Typed, Own, OwnReceived, NEW e, History(e, log, sheet), Overlaid(e)
  PROVE  crossed' \/ Doomed(queue', log') \/ \E d : Drafts(d, e[revision'], queue', rows')
<1>1. /\ crossed' = crossed /\ log' = log /\ rows' = rows
      /\ revision' = revision + 1 /\ revision' \in DOMAIN log
      /\ queue # <<>> /\ log[revision'].op = queue[1].op
      /\ Len(queue') = Len(queue) - 1
  BY DEF OwnReceived, serverVars
<1>2. CASE crossed
  BY <1>1, <1>2
<1>3. CASE Doomed(queue, log)
  BY <1>1, <1>3 DEF Doomed
<1>4. ASSUME NEW d, Drafts(d, e[revision], queue, rows)
      PROVE  \E f : Drafts(f, e[revision'], queue', rows')
  <2>1. 1 \in DOMAIN queue /\ Len(queue) \in Nat /\ DOMAIN queue = 1 .. Len(queue)
    BY <1>1, TypedPlaces
  <2>2. PICK n \in Nat : n = Len(queue) - 1
    <3>1. Len(queue) - 1 \in Nat
      BY <2>1
    <3> QED
      BY <3>1
  <2>3. /\ d \in [0 .. n + 1 -> Sheets] /\ d[0] = e[revision] /\ d[n + 1] = rows
        /\ \A i \in 1 .. n + 1 :
             /\ InBounds(d[i - 1], queue[i].m) /\ d[i] = Applied(d[i - 1], queue[i].m)
             /\ queue[i].aim = Under(d[i - 1], queue[i].m)
    <3>1. Len(queue) = n + 1
      BY <2>1, <2>2
    <3> QED
      BY <1>4, <3>1 DEF Drafts
  <2>4. log[revision'].m = queue[1].m
    <3>1. revision' > revision
      BY <1>1, TypedPlaces
    <3>2. log[revision'].op # 0
      <4>1. queue[1] \in Queued
        BY <2>1, TypedPlaces
      <4> QED
        BY <1>1, <4>1, EditingAssumption DEF Queued, Ops
    <3> QED
      BY <1>1, <3>1, <3>2 DEF Own, OwnAhead
  <2>5. d[1] = e[revision']
    <3>1. revision' \in 1 .. Len(log) /\ revision' - 1 = revision
      BY <1>1, TypedPlaces
    <3>2. e[revision'] = Applied(e[revision], log[revision'].m)
      BY <3>1 DEF History
    <3>3. 1 \in 1 .. n + 1 /\ 1 - 1 = 0
      BY <2>2
    <3>4. d[1] = Applied(d[0], queue[1].m)
      BY <2>3, <3>3
    <3> QED
      BY <2>3, <2>4, <3>2, <3>4
  <2>6. PICK f : f = [i \in 0 .. n |-> d[i + 1]]
    OBVIOUS
  <2>7. f \in [0 .. n -> Sheets]
    <3>1. \A i \in 0 .. n : i + 1 \in 0 .. n + 1
      OBVIOUS
    <3> QED
      BY <2>3, <2>6, <3>1
  <2>8. f[0] = e[revision'] /\ f[n] = rows
    <3>1. 0 \in 0 .. n /\ n \in 0 .. n /\ 0 + 1 = 1
      BY <2>2
    <3> QED
      BY <2>3, <2>5, <2>6, <3>1
  <2>9. Len(queue') = n /\ DOMAIN queue' = 1 .. n
    <3>1. queue' \in Seq(Queued)
      BY DEF OwnReceived
    <3> QED
      BY <1>1, <2>1, <2>2, <3>1, Places
  <2>10. ASSUME NEW i \in 1 .. n
         PROVE  /\ InBounds(f[i - 1], queue'[i].m) /\ f[i] = Applied(f[i - 1], queue'[i].m)
                /\ queue'[i].aim = Under(f[i - 1], queue'[i].m)
    <3>1. /\ i \in 0 .. n /\ i - 1 \in 0 .. n /\ i + 1 \in 1 .. n + 1
          /\ i - 1 + 1 = i /\ i + 1 - 1 = i
      BY <2>2
    <3>2. f[i] = d[i + 1] /\ f[i - 1] = d[i]
      BY <2>6, <3>1
    <3>3. queue'[i].m = queue[i + 1].m /\ queue'[i].aim = queue[i + 1].aim
      BY <2>9 DEF OwnReceived
    <3>4. /\ InBounds(d[i], queue[i + 1].m) /\ d[i + 1] = Applied(d[i], queue[i + 1].m)
          /\ queue[i + 1].aim = Under(d[i], queue[i + 1].m)
      BY <2>3, <3>1
    <3> QED
      BY <3>2, <3>3, <3>4
  <2>11. Drafts(f, e[revision'], queue', rows)
    BY <2>7, <2>8, <2>9, <2>10 DEF Drafts
  <2> QED
    BY <1>1, <2>11
<1> QED
  BY <1>2, <1>3, <1>4 DEF Overlaid

\* A write of another row, above those that drafts move, commutes with a draft.
LEMMA WriteCommutes ==
  ASSUME NEW doc \in Sheets, NEW m \in Mutation, NEW c \in Mutation, ~ Moves(c),
         InBounds(doc, m), InBounds(doc, c), ~ SameRow(m, c),
         ~ (Moves(m) /\ c.at > m.at)
  PROVE  /\ InBounds(Applied(doc, m), c)
         /\ InBounds(Applied(doc, c), m)
         /\ Applied(Applied(doc, c), m) = Applied(Applied(doc, m), c)
         /\ Under(Applied(doc, c), m) = Under(doc, m)
<1>1. doc \in Document /\ Len(doc) \in Nat /\ Len(doc) > 0 /\ c.kind = "set"
  BY RowsOf DEF Sheets, Moves, Mutation
<1>2. c.at \in 1 .. Len(doc) /\ m.at \in Nat \ {0} /\ c.at # m.at
  BY <1>1 DEF InBounds, Mutation, SameRow
<1>3. /\ Applied(doc, c) \in Document /\ Len(Applied(doc, c)) = Len(doc)
      /\ Applied(doc, c) = [doc EXCEPT ![c.at] = c.cell]
  BY <1>1, SetRows DEF Applied
<1>4. InBounds(Applied(doc, c), m)
  BY <1>1, <1>3, Bounds
<1>5. Applied(doc, m) \in Document /\ Len(Applied(doc, m)) = Len(doc) + Growth(m)
  BY <1>1, AppliedRows
<1>6. InBounds(Applied(doc, m), c)
  <2>1. m.kind = "delete" => c.at < m.at /\ m.at \in 1 .. Len(doc)
    BY <1>2 DEF Moves, InBounds
  <2>2. m.kind \in {"set", "insert", "delete"}
    BY DEF Mutation
  <2>3. c.at <= Len(doc) + Growth(m)
    BY <1>1, <1>2, <2>1, <2>2 DEF Growth
  <2> QED
    BY <1>1, <1>2, <1>5, <2>3 DEF InBounds
<1>7. Applied(Applied(doc, c), m) = Applied(Applied(doc, m), c)
  <2>1. Rebased(m, c) = m
    BY <1>1 DEF Rebased, RowAfter, Mutation
  <2>2. ~ SameRow(c, m) /\ ~ (c.kind = "delete" /\ m.kind = "delete")
    BY <1>1 DEF SameRow
  <2>3. Applied(Applied(doc, c), Rebased(m, c)) = Applied(Applied(doc, m), c)
    BY <1>1, <2>2, UncrossedCommutes
  <2> QED
    BY <2>1, <2>3
<1>8. Under(Applied(doc, c), m) = Under(doc, m)
  <2>1. CASE m.kind = "insert"
    BY <2>1 DEF Under
  <2>2. CASE m.kind # "insert"
    <3>1. m.at \in DOMAIN doc
      BY <1>1, <2>2, RowsOf DEF InBounds, Mutation
    <3>2. Applied(doc, c)[m.at] = doc[m.at]
      BY <1>2, <1>3, <3>1
    <3> QED
      BY <2>2, <3>2 DEF Under
  <2> QED
    BY <2>1, <2>2
<1> QED
  BY <1>4, <1>6, <1>7, <1>8

\* A change of another user that reaches a page whose first operation is not
\* going to be refused moves no rows.
LEMMA OthersOnlyWrite ==
  ASSUME Typed, Own, Waiting, NEW c, OtherReceived(c), queue # <<>>, ~ Doomed(queue, log)
  PROVE  ~ Moves(c)
<1>1. /\ revision' = revision + 1 /\ revision' \in DOMAIN log
      /\ c = log[revision'].m /\ log[revision'].op # queue[1].op
  BY DEF OtherReceived
<1>2. /\ 1 \in DOMAIN queue /\ queue[1] \in Queued /\ revision \in Nat
      /\ Len(log) \in Nat /\ DOMAIN log = 1 .. Len(log)
  BY TypedPlaces
<1>3. queue[1].base \in Nat /\ queue[1].base <= revision
  BY <1>2 DEF Queued, Own, HeadBase
<1>4. CASE \A k \in DOMAIN log : log[k].op # queue[1].op
  <2>1. revision' \in queue[1].base + 1 .. Len(log)
    BY <1>1, <1>2, <1>3
  <2> QED
    BY <1>1, <1>4, <2>1 DEF Doomed
<1>5. CASE \E k \in DOMAIN log : log[k].op = queue[1].op
  <2>1. PICK k \in DOMAIN log : log[k].op = queue[1].op
    BY <1>5
  <2>2. k > revision /\ k # revision' /\ k \in Nat
    BY <1>1, <1>2, <2>1 DEF Waiting, ReceivedLeft
  <2>3. log[k].op # 0
    BY <1>2, <2>1, EditingAssumption DEF Queued, Ops
  <2>4. log[k].base = queue[1].base
    BY <2>1, <2>2, <2>3 DEF Own, OwnAhead
  <2>5. revision' \in log[k].base + 1 .. k - 1
    BY <1>1, <1>2, <1>3, <2>2, <2>4
  <2>6. Quiet(log, log[k].base, k, log[k].m)
    BY <2>3 DEF Own, OwnWereQuiet
  <2> QED
    BY <1>1, <2>5, <2>6 DEF Quiet
<1> QED
  BY <1>4, <1>5

LEMMA OverlaidAfterOther ==
  ASSUME Typed, Own, Waiting, NEW c \in Mutation, OtherReceived(c),
         NEW e, History(e, log, sheet), Overlaid(e)
  PROVE  crossed' \/ Doomed(queue', log') \/ \E d : Drafts(d, e[revision'], queue', rows')
<1>1. /\ log' = log /\ rows' = Applied(rows, c)
      /\ revision' = revision + 1 /\ revision' \in DOMAIN log
      /\ c = log[revision'].m
      /\ Len(queue') = Len(queue) /\ DOMAIN queue' = DOMAIN queue
      /\ crossed' = (crossed \/ \E i \in DOMAIN queue :
                                  Moves(queue[i].m) /\ c.at > queue[i].m.at)
  BY DEF OtherReceived, serverVars
<1>2. CASE crossed'
  BY <1>2
<1>3. CASE Doomed(queue, log)
  <2>1. 1 \in DOMAIN queue
    BY <1>3, TypedPlaces DEF Doomed
  <2>2. queue'[1] = queue[1]
    BY <2>1 DEF OtherReceived
  <2>3. queue' # <<>>
    <3>1. queue' \in Seq(Queued)
      BY DEF OtherReceived
    <3> QED
      BY <1>1, <2>1, <3>1, Places
  <2> QED
    BY <1>1, <1>3, <2>2, <2>3 DEF Doomed
<1>4. ASSUME ~ crossed', ~ Doomed(queue, log), NEW d, Drafts(d, e[revision], queue, rows)
      PROVE  \E f : Drafts(f, e[revision'], queue', rows')
  <2>1. PICK n \in Nat : n = Len(queue)
    BY TypedPlaces
  <2>2. DOMAIN queue = 1 .. n
    BY <2>1, TypedPlaces
  <2>3. /\ d \in [0 .. n -> Sheets] /\ d[0] = e[revision] /\ d[n] = rows
        /\ \A i \in 1 .. n :
             /\ InBounds(d[i - 1], queue[i].m) /\ d[i] = Applied(d[i - 1], queue[i].m)
             /\ queue[i].aim = Under(d[i - 1], queue[i].m)
    BY <1>4, <2>1 DEF Drafts
  <2>4. InBounds(d[0], c) /\ Applied(d[0], c) = e[revision']
    <3>1. revision' \in 1 .. Len(log) /\ revision' - 1 = revision
      BY <1>1, TypedPlaces
    <3> QED
      BY <1>1, <2>3, <3>1 DEF History
  <2>5. ASSUME NEW i \in 1 .. n
        PROVE  /\ ~ Moves(c) /\ queue[i].m \in Mutation
               /\ ~ SameRow(queue[i].m, c)
               /\ ~ (Moves(queue[i].m) /\ c.at > queue[i].m.at)
               /\ queue'[i].m = queue[i].m /\ queue'[i].aim = queue[i].aim
    <3>1. i \in DOMAIN queue
      BY <2>2
    <3>2. queue # <<>>
      BY <3>1
    <3>3. ~ Moves(c)
      BY <1>4, <3>2, OthersOnlyWrite
    <3>4. queue[i].m \in Mutation
      <4>1. queue[i] \in Queued
        BY <3>1, TypedPlaces
      <4> QED
        BY <4>1 DEF Queued
    <3>5. Rebased(queue[i].m, c) = queue[i].m
      BY <3>3, <3>4 DEF Rebased, RowAfter, Mutation, Moves
    <3>6. queue'[i].m = queue[i].m /\ queue'[i].aim = queue[i].aim
      BY <3>1, <3>5 DEF OtherReceived
    <3>7. ~ SameRow(queue[i].m, c)
      BY <3>1 DEF OtherReceived
    <3>8. ~ (Moves(queue[i].m) /\ c.at > queue[i].m.at)
      BY <1>1, <1>4, <3>1
    <3> QED
      BY <3>3, <3>4, <3>6, <3>7, <3>8
  <2>6. \A i \in 0 .. n : InBounds(d[i], c)
    <3>1. PICK S : S = {i \in 0 .. n : InBounds(d[i], c)}
      OBVIOUS
    <3>2. 0 \in S /\ 0 \in Nat
      BY <2>4, <3>1
    <3>3. ASSUME NEW i \in 0 + 1 .. n, i - 1 \in S PROVE i \in S
      <4>1. i \in 1 .. n /\ i \in 0 .. n /\ i - 1 \in 0 .. n
        OBVIOUS
      <4>2. InBounds(d[i - 1], c) /\ d[i - 1] \in Sheets
        BY <2>3, <3>1, <3>3, <4>1
      <4>3. InBounds(Applied(d[i - 1], queue[i].m), c)
        BY <2>3, <2>5, <4>1, <4>2, WriteCommutes
      <4> QED
        BY <2>3, <3>1, <4>1, <4>3
    <3>4. \A i \in 0 .. n : i \in S
      BY <3>2, <3>3, StepByStep
    <3> QED
      BY <3>1, <3>4
  <2>7. PICK f : f = [i \in 0 .. n |-> Applied(d[i], c)]
    OBVIOUS
  <2>8. \A i \in 0 .. n : f[i] = Applied(d[i], c) /\ f[i] \in Sheets
    BY <2>3, <2>6, <2>7, SheetsChange
  <2>9. f \in [0 .. n -> Sheets] /\ f[0] = e[revision'] /\ f[n] = rows'
    <3>1. 0 \in 0 .. n /\ n \in 0 .. n
      OBVIOUS
    <3> QED
      BY <1>1, <2>3, <2>4, <2>7, <2>8, <3>1
  <2>10. ASSUME NEW i \in 1 .. n
         PROVE  /\ InBounds(f[i - 1], queue'[i].m) /\ f[i] = Applied(f[i - 1], queue'[i].m)
                /\ queue'[i].aim = Under(f[i - 1], queue'[i].m)
    <3>1. i \in 0 .. n /\ i - 1 \in 0 .. n
      OBVIOUS
    <3>2. PICK x \in Sheets : x = d[i - 1]
      BY <2>3, <3>1
    <3>3. PICK m \in Mutation : m = queue[i].m
      BY <2>5
    <3>4. /\ InBounds(x, m) /\ InBounds(x, c) /\ ~ Moves(c) /\ ~ SameRow(m, c)
          /\ ~ (Moves(m) /\ c.at > m.at)
          /\ d[i] = Applied(x, m) /\ queue[i].aim = Under(x, m)
      BY <2>3, <2>5, <2>6, <3>1, <3>2, <3>3
    <3>5. /\ InBounds(Applied(x, c), m)
          /\ Applied(Applied(x, c), m) = Applied(Applied(x, m), c)
          /\ Under(Applied(x, c), m) = Under(x, m)
      BY <3>4, WriteCommutes
    <3>6. f[i - 1] = Applied(x, c) /\ f[i] = Applied(Applied(x, m), c)
      BY <2>8, <3>1, <3>2, <3>4
    <3>7. queue'[i].m = m /\ queue'[i].aim = Under(x, m)
      BY <2>5, <3>3, <3>4
    <3> QED
      BY <3>5, <3>6, <3>7
  <2>11. Drafts(f, e[revision'], queue', rows')
    BY <1>1, <2>1, <2>9, <2>10 DEF Drafts
  <2> QED
    BY <2>11
<1> QED
  BY <1>1, <1>2, <1>3, <1>4 DEF Overlaid

LEMMA HistoryGrows ==
  ASSUME Typed, NEW r \in Row, LogGrows(r), NEW e, History(e, log, sheet)
  PROVE  \E f : History(f, log', sheet') /\ f[revision'] = e[revision]
<1>1. PICK n \in Nat : n = Len(log)
  BY TypedPlaces
<1>2. /\ InBounds(sheet, r.m) /\ sheet' = Applied(sheet, r.m) /\ sheet \in Sheets
      /\ r.m \in Mutation
  BY DEF LogGrows, Typed, ServerTyped, Row
<1>3. sheet' \in Sheets
  BY <1>2, SheetsChange
<1>4. /\ e \in [0 .. n -> Sheets] /\ e[n] = sheet
      /\ \A k \in 1 .. n : InBounds(e[k - 1], log[k].m) /\ e[k] = Applied(e[k - 1], log[k].m)
  BY <1>1 DEF History
<1>5. PICK f \in [0 .. n + 1 -> Sheets] : f[n + 1] = sheet' /\ \A k \in 0 .. n : f[k] = e[k]
  BY <1>3, <1>4, Extended
<1>6. /\ Len(log') = n + 1 /\ log'[n + 1] = r /\ revision' = revision
      /\ \A k \in 1 .. n : log'[k] = log[k]
  BY <1>1, GrownPlaces, TypedPlaces
<1>7. ASSUME NEW k \in 1 .. n + 1
      PROVE  InBounds(f[k - 1], log'[k].m) /\ f[k] = Applied(f[k - 1], log'[k].m)
  <2>1. CASE k \in 1 .. n
    <3>1. k \in 0 .. n /\ k - 1 \in 0 .. n
      BY <2>1
    <3>2. f[k] = e[k] /\ f[k - 1] = e[k - 1] /\ log'[k] = log[k]
      BY <1>5, <1>6, <2>1, <3>1
    <3> QED
      BY <1>4, <2>1, <3>2
  <2>2. CASE k = n + 1
    <3>1. k - 1 = n /\ n \in 0 .. n
      BY <2>2
    <3>2. f[k - 1] = sheet
      BY <1>4, <1>5, <3>1
    <3> QED
      BY <1>2, <1>5, <1>6, <2>2, <3>2
  <2> QED
    BY <2>1, <2>2
<1>8. History(f, log', sheet')
  BY <1>5, <1>6, <1>7 DEF History
<1>9. revision \in 0 .. n
  BY <1>1, TypedPlaces
<1> QED
  BY <1>5, <1>6, <1>8, <1>9

LEMMA OverlaidGrown ==
  ASSUME Typed, NEW r \in Row, LogGrows(r), OwnCommitted(r) \/ r.op = 0,
         NEW e, Overlaid(e), NEW f, f[revision'] = e[revision]
  PROVE  crossed' \/ Doomed(queue', log') \/ \E d : Drafts(d, f[revision'], queue', rows')
<1>1. /\ \A k \in DOMAIN log : k \in DOMAIN log' /\ log'[k] = log[k]
      /\ \A k \in DOMAIN log' : k \in DOMAIN log \/ k = Len(log) + 1
      /\ log'[Len(log) + 1] = r
      /\ queue' = queue /\ crossed' = crossed /\ rows' = rows
      /\ Len(log') = Len(log) + 1
  BY GrownPlaces
<1>2. CASE Doomed(queue, log)
  <2>1. 1 \in DOMAIN queue /\ queue[1] \in Queued /\ Len(log) \in Nat /\ DOMAIN log = 1 .. Len(log)
    BY <1>2, TypedPlaces DEF Doomed
  <2>2. queue[1].base \in Nat /\ queue[1].op # 0
    BY <2>1, EditingAssumption DEF Queued, Ops
  <2>3. PICK k \in queue[1].base + 1 .. Len(log) : Moves(log[k].m)
    BY <1>2 DEF Doomed
  <2>4. r.op = 0
    <3>1. ~ OwnCommitted(r)
      BY <2>3 DEF OwnCommitted
    <3> QED
      BY <3>1
  <2>5. \A j \in DOMAIN log' : log'[j].op # queue[1].op
    BY <1>1, <1>2, <2>2, <2>4 DEF Doomed
  <2>6. k \in DOMAIN log /\ k \in queue[1].base + 1 .. Len(log')
    BY <1>1, <2>1, <2>2
  <2>7. Moves(log'[k].m)
    BY <1>1, <2>3, <2>6
  <2> QED
    BY <1>1, <1>2, <2>5, <2>6, <2>7 DEF Doomed
<1> QED
  BY <1>1, <1>2 DEF Overlaid

\* Writes of other rows leave what is in a row.
LEMMA OtherRowsStay ==
  ASSUME NEW doc \in Sheets, NEW c \in Mutation, ~ Moves(c), InBounds(doc, c),
         NEW m \in Mutation, ~ SameRow(c, m), InBounds(doc, m)
  PROVE  InBounds(Applied(doc, c), m) /\ Under(Applied(doc, c), m) = Under(doc, m)
<1>1. doc \in Document /\ Len(doc) \in Nat /\ c.kind = "set"
  BY RowsOf DEF Sheets, Moves, Mutation
<1>2. c.at \in 1 .. Len(doc) /\ c.at # m.at
  BY <1>1 DEF InBounds, SameRow
<1>3. /\ Applied(doc, c) \in Document /\ Len(Applied(doc, c)) = Len(doc)
      /\ Applied(doc, c) = [doc EXCEPT ![c.at] = c.cell]
  BY <1>1, SetRows DEF Applied
<1>4. InBounds(Applied(doc, c), m)
  BY <1>1, <1>3, Bounds
<1>5. CASE m.kind = "insert"
  BY <1>4, <1>5 DEF Under
<1>6. CASE m.kind # "insert"
  <2>1. m.at \in DOMAIN doc
    BY <1>1, <1>6, RowsOf DEF InBounds, Mutation
  <2>2. Applied(doc, c)[m.at] = doc[m.at]
    BY <1>2, <1>3, <2>1
  <2> QED
    BY <1>4, <1>6, <2>2 DEF Under
<1> QED
  BY <1>5, <1>6

LEMMA LandedGrown ==
  ASSUME Typed, Own, NEW r \in Row, LogGrows(r), OwnCommitted(r),
         NEW e, History(e, log, sheet), Overlaid(e)
  PROVE  r.astray \/ r.aim = r.hit
<1>1. /\ queue # <<>> /\ r.m = queue[1].m /\ r.aim = queue[1].aim /\ r.base = queue[1].base
      /\ r.astray = crossed
      /\ \A k \in r.base + 1 .. Len(log) : ~ Moves(log[k].m) /\ ~ SameRow(log[k].m, r.m)
  BY DEF OwnCommitted
<1>2. ~ Doomed(queue, log)
  BY <1>1 DEF Doomed
<1>3. CASE crossed
  BY <1>1, <1>3
<1>4. ASSUME NEW d, Drafts(d, e[revision], queue, rows)
      PROVE  r.aim = r.hit
  <2>1. /\ 1 \in DOMAIN queue /\ DOMAIN queue = 1 .. Len(queue) /\ Len(queue) \in Nat
        /\ revision \in Nat /\ revision <= Len(log) /\ DOMAIN log = 1 .. Len(log)
        /\ \A k \in DOMAIN log : log[k] \in Row
    BY <1>1, TypedPlaces
  <2>2. InBounds(d[1 - 1], queue[1].m) /\ queue[1].aim = Under(d[1 - 1], queue[1].m)
          /\ d[0] = e[revision] /\ 1 - 1 = 0
    BY <1>4, <2>1 DEF Drafts
  <2>3. r.m \in Mutation /\ r.base \in Nat /\ r.base <= revision
    BY <1>1 DEF Row, Own, HeadBase
  <2>4. PICK n \in Nat : n = Len(log)
    BY TypedPlaces
  <2>5. /\ e \in [0 .. n -> Sheets] /\ e[n] = sheet
        /\ \A k \in 1 .. n : InBounds(e[k - 1], log[k].m) /\ e[k] = Applied(e[k - 1], log[k].m)
    BY <2>4 DEF History
  <2>6. PICK S : S = {k \in revision .. n : InBounds(e[k], r.m) /\ Under(e[k], r.m) = r.aim}
    OBVIOUS
  <2>7. revision \in S
    BY <1>1, <2>1, <2>2, <2>4, <2>6
  <2>8. ASSUME NEW k \in revision + 1 .. n, k - 1 \in S PROVE k \in S
    <3>1. /\ k \in 1 .. n /\ k \in r.base + 1 .. n /\ k - 1 \in 0 .. n
          /\ k \in revision .. n
      BY <2>1, <2>3
    <3>2. PICK c \in Mutation : c = log[k].m
      <4>1. log[k] \in Row
        BY <2>1, <2>4, <3>1
      <4> QED
        BY <4>1 DEF Row
    <3>3. ~ Moves(c) /\ ~ SameRow(c, r.m)
      BY <1>1, <2>4, <3>1, <3>2
    <3>4. PICK doc \in Sheets : doc = e[k - 1]
      BY <2>5, <3>1
    <3>5. InBounds(doc, c) /\ e[k] = Applied(doc, c)
      BY <2>5, <3>1, <3>2, <3>4
    <3>6. InBounds(doc, r.m) /\ Under(doc, r.m) = r.aim
      BY <2>6, <2>8, <3>4
    <3>7. InBounds(e[k], r.m) /\ Under(e[k], r.m) = r.aim
      BY <2>3, <3>3, <3>5, <3>6, OtherRowsStay
    <3> QED
      BY <2>6, <3>1, <3>7
  <2>9. n \in S
    <3>1. \A k \in revision .. n : k \in S
      BY <2>1, <2>7, <2>8, StepByStep
    <3>2. n \in revision .. n
      BY <2>1, <2>4
    <3> QED
      BY <3>1, <3>2
  <2>10. Under(sheet, r.m) = r.aim
    BY <2>5, <2>6, <2>9
  <2> QED
    BY <2>10 DEF LogGrows
<1> QED
  BY <1>2, <1>3, <1>4 DEF Overlaid

LEMMA InPlaceSteps ==
  ASSUME Typed, Own, Waiting, InPlace, LandsWhereAimed, [Next]_vars
  PROVE  InPlace' /\ LandsWhereAimed'
<1>1. PICK e : History(e, log, sheet) /\ Overlaid(e)
  BY DEF InPlace
<1>2. ASSUME NEW m \in Mutation, NEW undoes, Enqueued(m, undoes)
      PROVE  InPlace' /\ LandsWhereAimed'
  <2>1. log' = log /\ sheet' = sheet
    BY <1>2 DEF Enqueued, serverVars
  <2>2. History(e, log', sheet') /\ LandsWhereAimed'
    BY <1>1, <2>1 DEF LandsWhereAimed
  <2>3. crossed' \/ Doomed(queue', log') \/ \E d : Drafts(d, e[revision'], queue', rows')
    BY <1>1, <1>2, OverlaidEnqueued
  <2> QED
    BY <2>2, <2>3 DEF InPlace, Overlaid
<1>3. CASE Executed
  BY <1>2, <1>3 DEF Executed
<1>4. CASE Undone
  <2>1. PICK x \in Item : Enqueued(x.inverse, x.op)
    BY <1>4 DEF Undone
  <2>2. x.inverse \in Mutation
    BY DEF Item
  <2> QED
    BY <1>2, <2>1, <2>2
<1>5. CASE Redone
  <2>1. PICK x \in Item : Enqueued(x.m, 0)
    BY <1>5 DEF Redone
  <2>2. x.m \in Mutation
    BY DEF Item
  <2> QED
    BY <1>2, <2>1, <2>2
<1>6. CASE Acknowledged
  <2>1. OwnReceived /\ log' = log /\ sheet' = sheet
    BY <1>6 DEF Acknowledged, OwnReceived, serverVars
  <2>2. History(e, log', sheet') /\ LandsWhereAimed'
    BY <1>1, <2>1 DEF LandsWhereAimed
  <2>3. crossed' \/ Doomed(queue', log') \/ \E d : Drafts(d, e[revision'], queue', rows')
    BY <1>1, <2>1, OverlaidAfterOwn
  <2> QED
    BY <2>2, <2>3 DEF InPlace, Overlaid
<1>7. CASE Received
  <2>1. PICK c \in Mutation : OtherReceived(c)
    BY <1>7 DEF Received
  <2>2. log' = log /\ sheet' = sheet
    BY <2>1 DEF OtherReceived, serverVars
  <2>3. History(e, log', sheet') /\ LandsWhereAimed'
    BY <1>1, <2>2 DEF LandsWhereAimed
  <2>4. crossed' \/ Doomed(queue', log') \/ \E d : Drafts(d, e[revision'], queue', rows')
    BY <1>1, <2>1, OverlaidAfterOther
  <2> QED
    BY <2>3, <2>4 DEF InPlace, Overlaid
<1>8. CASE Reloaded
  <2>1. /\ log' = log /\ sheet' = sheet /\ rows' = sheet /\ revision' = Len(log)
        /\ queue' = <<>>
    BY <1>8 DEF Reloaded, serverVars
  <2>2. History(e, log', sheet') /\ LandsWhereAimed'
    BY <1>1, <2>1 DEF LandsWhereAimed
  <2>3. e[revision'] = sheet /\ sheet \in Sheets
    BY <1>1, <2>1 DEF History, Typed, ServerTyped
  <2>4. Drafts([i \in 0 .. 0 |-> sheet], e[revision'], queue', rows')
    <3>1. Len(queue') = 0
      BY <2>1
    <3> QED
      BY <2>1, <2>3, <3>1 DEF Drafts
  <2> QED
    BY <2>2, <2>4 DEF InPlace, Overlaid
<1>9. CASE Grown
  <2>1. PICK r \in Row :
          /\ LogGrows(r)
          /\ OwnCommitted(r) \/ (r.op = 0 /\ r.undoes = 0 /\ r.aim = r.hit)
    BY <1>9 DEF Grown
  <2>2. PICK f : History(f, log', sheet') /\ f[revision'] = e[revision]
    BY <1>1, <2>1, HistoryGrows
  <2>3. crossed' \/ Doomed(queue', log') \/ \E d : Drafts(d, f[revision'], queue', rows')
    BY <1>1, <2>1, <2>2, OverlaidGrown
  <2>4. r.astray \/ r.aim = r.hit
    BY <1>1, <2>1, LandedGrown
  <2>5. LandsWhereAimed'
    <3>1. /\ \A k \in DOMAIN log : log'[k] = log[k]
          /\ \A k \in DOMAIN log' : k \in DOMAIN log \/ k = Len(log) + 1
          /\ log'[Len(log) + 1] = r
      BY <2>1, GrownPlaces
    <3> QED
      BY <2>4, <3>1 DEF LandsWhereAimed
  <2> QED
    BY <2>2, <2>3, <2>5 DEF InPlace, Overlaid
<1>10. CASE Halted
  <2>1. /\ log' = log /\ sheet' = sheet /\ rows' = rows /\ revision' = revision
        /\ queue' = queue /\ crossed' = crossed
    BY <1>10 DEF Halted, serverVars
  <2> QED
    BY <1>1, <2>1 DEF InPlace, Overlaid, LandsWhereAimed
<1> QED
  BY <1>3, <1>4, <1>5, <1>6, <1>7, <1>8, <1>9, <1>10, Steps

-----------------------------------------------------------------------------
(* The theorems. *)

IInv ==
  Typed /\ Own /\ Waiting /\ Linked /\ Known /\ InPlace /\ LandsWhereAimed

LEMMA Starts ==
  ASSUME Init
  PROVE  IInv
<1>1. /\ log = <<>> /\ queue = <<>> /\ undoStack = <<>> /\ redoStack = <<>>
      /\ sheet = Start /\ before = Start /\ rows = Start /\ revision = 0
      /\ refused = FALSE /\ stopped = FALSE /\ crossed = FALSE /\ nextOp = 1
  BY DEF Init, EditingInit
<1>2. Start \in Sheets
  BY EditingAssumption DEF Sheets
<1>3. /\ DOMAIN log = {} /\ DOMAIN queue = {} /\ DOMAIN undoStack = {} /\ DOMAIN redoStack = {}
      /\ Len(log) = 0 /\ Len(queue) = 0 /\ Len(undoStack) = 0 /\ Len(redoStack) = 0
  BY <1>1
<1>4. Typed
  <2>1. ServerTyped
    BY <1>1, <1>2, EmptySeq DEF ServerTyped
  <2>2. QueueTyped
    <3>1. refused \in BOOLEAN
      BY <1>1
    <3>2. nextOp \in 1 .. MaxEdits + 1
      BY <1>1, EditingAssumption
    <3> QED
      BY <1>1, <3>1, <3>2, EmptySeq DEF QueueTyped
  <2>3. PageTyped
    <3>1. stopped \in BOOLEAN /\ crossed \in BOOLEAN
      BY <1>1
    <3>2. revision \in Nat /\ revision <= Len(log)
      BY <1>1, <1>3
    <3> QED
      BY <1>1, <1>2, <3>1, <3>2 DEF PageTyped
  <2>4. HistoryTyped
    BY <1>1, <1>3, EmptyEntry, HistoryAssumption DEF HistoryTyped
  <2> QED
    BY <2>1, <2>2, <2>3, <2>4 DEF Typed
<1>5. Own
  BY <1>1, <1>3 DEF Own, NumbersAreNew, CommittedOnce, OwnAhead, HeadBase, OwnWereQuiet, RefusedHead
<1>6. Waiting
  BY <1>3 DEF Waiting, DistinctQueue, ReceivedLeft
<1>7. Linked
  <2>1. Made = {}
    BY <1>3 DEF Made
  <2> QED
    BY <1>3, <2>1 DEF Linked, EntriesAreOld, Old, OnceIn, DistinctEntries, Undoable
<1>8. Known
  BY <1>1, NothingKnown DEF Known
<1>9. InPlace
  <2>1. PICK e : e = [i \in 0 .. 0 |-> Start]
    OBVIOUS
  <2>2. e \in [0 .. 0 -> Sheets] /\ e[0] = Start
    BY <1>2, <2>1
  <2>3. History(e, log, sheet)
    BY <1>1, <1>3, <2>2 DEF History
  <2>4. Drafts(e, e[revision], queue, rows)
    BY <1>1, <1>3, <2>2 DEF Drafts
  <2> QED
    BY <2>3, <2>4 DEF InPlace, Overlaid
<1>10. LandsWhereAimed
  BY <1>3 DEF LandsWhereAimed
<1> QED
  BY <1>4, <1>5, <1>6, <1>7, <1>8, <1>9, <1>10 DEF IInv

\* The page and the server keep the invariant that the other theorems rest on:
\* what is between two revisions, where each operation of the history is, and
\* which documents the drafts were made on.
THEOREM InvariantHolds == Spec => []IInv
<1>1. Init => IInv
  BY Starts
<1>2. IInv /\ [Next]_vars => IInv'
  BY TypedSteps, OwnSteps, WaitingSteps, LinkedSteps, KnownSteps, InPlaceSteps
    DEF IInv, Linked
<1> QED
  BY <1>1, <1>2, PTL DEF Spec

\* Every variable keeps its type, and the stacks their bound.
THEOREM TypesHold == Spec => []TypeOK
<1>1. IInv => TypeOK
  <2> SUFFICES ASSUME IInv PROVE TypeOK
    OBVIOUS
  <2>1. Typed /\ RefusedHead
    BY DEF IInv, Own
  <2>2. \A i \in DOMAIN queue : queue[i].op \in Ops /\ queue[i].m \in Mutation
    <3>1. \A i \in DOMAIN queue : queue[i] \in Queued
      BY <2>1, TypedPlaces
    <3> QED
      BY <3>1 DEF Queued
  <2>3. revision \in 0 .. Len(log)
    BY <2>1, TypedPlaces
  <2>4. refused => queue # <<>>
    BY <2>1 DEF RefusedHead
  <2>5. sheet \in Document /\ before \in Document /\ rows \in Document
    BY <2>1 DEF Typed, ServerTyped, PageTyped, Sheets
  <2> QED
    BY <2>1, <2>2, <2>3, <2>4, <2>5 DEF TypeOK, Typed, HistoryTyped
<1> QED
  BY <1>1, InvariantHolds, PTL

\* Once everything was sent and received the page shows the document of the
\* server, if no revision was applied across rows it had inserted or deleted.
THEOREM PagesConverge == Spec => []ConvergesUnlessCrossed
<1>1. IInv => ConvergesUnlessCrossed
  <2> SUFFICES ASSUME IInv, queue = <<>>, revision = Len(log), ~ crossed
               PROVE  rows = sheet
    BY DEF ConvergesUnlessCrossed
  <2>1. PICK e : History(e, log, sheet) /\ Overlaid(e)
    BY DEF IInv, InPlace
  <2>2. ~ Doomed(queue, log)
    BY DEF Doomed
  <2>3. PICK d : Drafts(d, e[revision], queue, rows)
    BY <2>1, <2>2 DEF Overlaid
  <2>4. Len(queue) = 0
    OBVIOUS
  <2> QED
    BY <2>1, <2>3, <2>4 DEF Drafts, History
<1> QED
  BY <1>1, InvariantHolds, PTL

\* What the server commits for the page writes over what its user saw there.
THEOREM EditsLandWhereAimed == Spec => []LandsWhereAimed
<1>1. IInv => LandsWhereAimed
  BY DEF IInv
<1> QED
  BY <1>1, InvariantHolds, PTL

\* No operation is undone twice, whatever was redone, transformed or dropped.
THEOREM NothingIsUndoneTwice == Spec => []UndoneOnce
<1>1. IInv => UndoneOnce
  <2> SUFFICES ASSUME IInv,
                      NEW p \in {log[k] : k \in DOMAIN log} \cup {queue[i] : i \in DOMAIN queue},
                      NEW q \in {log[k] : k \in DOMAIN log} \cup {queue[i] : i \in DOMAIN queue},
                      p.undoes # 0, p.undoes = q.undoes
               PROVE  p.op = q.op
    BY DEF UndoneOnce
  <2>1. <<p.op, p.undoes>> \in Made /\ <<q.op, q.undoes>> \in Made
    BY DEF Made
  <2> QED
    BY <2>1 DEF IInv, Linked, OnceIn
<1> QED
  BY <1>1, InvariantHolds, PTL

\* An entry of the history knows the revision of its operation, and the base it
\* was sent with, or the operation is still queued.
THEOREM HistoryIsKnown == Spec => []HistoryKnowsItsOperations
<1>1. IInv => HistoryKnowsItsOperations
  <2> SUFFICES ASSUME IInv,
                      NEW e \in {undoStack[i] : i \in DOMAIN undoStack}
                                  \cup {redoStack[i] : i \in DOMAIN redoStack}
               PROVE  IF e.committed = 0
                      THEN \E i \in DOMAIN queue : queue[i].op = e.op
                      ELSE /\ e.committed <= revision
                           /\ log[e.committed].op = e.op
                           /\ log[e.committed].base = e.base
    BY DEF HistoryKnowsItsOperations
  <2> QED
    BY DEF IInv, Known, AllKnownIn, KnownIn
<1> QED
  BY <1>1, InvariantHolds, PTL

-----------------------------------------------------------------------------
(* What the stacks hold, in any order. *)

Members(stack) == {stack[i] : i \in DOMAIN stack}

LEMMA MembersTyped ==
  ASSUME NEW stack, Entry(stack)
  PROVE  \A e \in Members(stack) : e \in Item /\ e.m.at = e.inverse.at
<1>1. \A i \in DOMAIN stack : stack[i] \in Item
  BY EntryPlaces
<1> QED
  BY <1>1 DEF Members, Entry

LEMMA MembersOfNothing == Members(<<>>) = {}
<1>1. DOMAIN <<>> = {}
  OBVIOUS
<1> QED
  BY <1>1 DEF Members

LEMMA MembersPushed ==
  ASSUME Typed, NEW e \in Item, e.m.at = e.inverse.at
  PROVE  Members(Pushed(e)) \subseteq Members(undoStack) \cup {e}
<1>1. Entry(undoStack) /\ Len(undoStack) <= HistoryLimit
  <2>1. Entry(undoStack) /\ Entry(redoStack) /\ Len(undoStack) + Len(redoStack) <= HistoryLimit
    BY DEF Typed, HistoryTyped
  <2> QED
    BY <2>1, EntryPlaces, HistoryAssumption
<1>2. PICK s : s = Pushed(e)
  OBVIOUS
<1>3. PICK d \in {0, 1} :
        \A i \in DOMAIN s :
          /\ i + d \in 1 .. Len(undoStack) + 1
          /\ i + d \in DOMAIN undoStack => s[i] = undoStack[i + d]
          /\ i + d = Len(undoStack) + 1 => s[i] = e
  BY <1>1, <1>2, PushedProperties
<1>4. DOMAIN undoStack = 1 .. Len(undoStack) /\ Len(undoStack) \in Nat
  BY <1>1, EntryPlaces
<1>5. ASSUME NEW i \in DOMAIN s PROVE s[i] \in Members(undoStack) \cup {e}
  <2>1. i + d \in DOMAIN undoStack \/ i + d = Len(undoStack) + 1
    BY <1>3, <1>4
  <2> QED
    BY <1>3, <2>1 DEF Members
<1> QED
  BY <1>2, <1>5 DEF Members

LEMMA MembersAppended ==
  ASSUME NEW stack, Entry(stack), NEW e \in Item, e.m.at = e.inverse.at
  PROVE  Members(Append(stack, e)) \subseteq Members(stack) \cup {e}
<1>1. PICK s : s = Append(stack, e)
  OBVIOUS
<1>2. /\ Len(stack) \in Nat /\ DOMAIN stack = 1 .. Len(stack)
      /\ DOMAIN s = 1 .. Len(stack) + 1
      /\ s[Len(stack) + 1] = e
      /\ \A i \in DOMAIN stack : s[i] = stack[i]
  BY <1>1, AppendedEntry
<1>3. \A i \in DOMAIN s : i \in DOMAIN stack \/ i = Len(stack) + 1
  BY <1>2
<1> QED
  BY <1>1, <1>2, <1>3 DEF Members

LEMMA MembersPopped ==
  ASSUME NEW stack, Entry(stack), stack # <<>>
  PROVE  Members(Popped(stack)) \subseteq Members(stack) /\ Top(stack) \in Members(stack)
<1>1. /\ Top(stack) = stack[Len(stack)] /\ Len(stack) \in Nat \ {0}
      /\ \A i \in DOMAIN Popped(stack) : i \in DOMAIN stack /\ Popped(stack)[i] = stack[i]
  BY TopOf
<1>2. Len(stack) \in DOMAIN stack
  BY <1>1, EntryPlaces
<1> QED
  BY <1>1, <1>2 DEF Members

LEMMA MembersMarked ==
  ASSUME Typed, revision < Len(log), NEW stack, Entry(stack)
  PROVE  \A f \in Members(Marked(stack)) : \E e \in Members(stack) : MarkedItem(e, f)
<1>1. PICK s : s = Marked(stack)
  OBVIOUS
<1>2. DOMAIN s = DOMAIN stack /\ \A i \in DOMAIN stack : MarkedItem(stack[i], s[i])
  BY <1>1, MarkedProperties
<1> QED
  BY <1>1, <1>2 DEF Members

LEMMA MembersThinned ==
  ASSUME NEW stack, NEW s, NEW c, Thinned(stack, s, c)
  PROVE  \A f \in Members(s) :
           \E e \in Members(stack) : Survives(e, c) /\ MovedItem(e, f, c)
<1>1. PICK g \in [DOMAIN s -> DOMAIN stack] :
        \A i \in DOMAIN s : Survives(stack[g[i]], c) /\ MovedItem(stack[g[i]], s[i], c)
  BY DEF Thinned
<1> QED
  BY <1>1 DEF Members

-----------------------------------------------------------------------------
(* An entry and its inverse. *)

Flipped(kind) ==
  CASE kind = "set" -> "set" [] kind = "insert" -> "delete" [] kind = "delete" -> "insert"

\* What takes m back where m wrote over a cell.
TakenBack(m, cell) == [kind |-> Flipped(m.kind), at |-> m.at, cell |-> cell]

LEMMA InvertedIs ==
  ASSUME NEW doc, NEW m
  PROVE  Inverted(doc, m) = TakenBack(m, Under(doc, m))
BY DEF Inverted, TakenBack, Flipped

LEMMA RebasedFields ==
  ASSUME NEW m \in Mutation, NEW c
  PROVE  /\ Rebased(m, c).kind = m.kind /\ Rebased(m, c).cell = m.cell
         /\ Rebased(m, c).at = RowAfter(m.at, c)
BY DEF Rebased, Mutation

\* The inverse is of the opposite kind; under an insertion there is nothing.
Opposite(e) ==
  /\ e.inverse.kind = Flipped(e.m.kind)
  /\ e.m.kind = "insert" => e.inverse.cell = Blank

AllOpposite(stack) == \A e \in Members(stack) : Opposite(e)

Opposed == AllOpposite(undoStack) /\ AllOpposite(redoStack)

LEMMA OppositeSteps ==
  ASSUME Typed, Opposed, [Next]_vars
  PROVE  Opposed'
<1>1. Entry(undoStack) /\ Entry(redoStack)
  BY DEF Typed, HistoryTyped
<1>2. AllOpposite(undoStack) /\ AllOpposite(redoStack)
  BY DEF Opposed
<1>3. SUFFICES AllOpposite(undoStack') /\ AllOpposite(redoStack')
  BY DEF Opposed
<1>4. CASE Executed
  <2>1. PICK m \in Mutation, e \in Item :
          /\ e.m.at = e.inverse.at /\ e.m = m /\ e.inverse = Inverted(rows, m)
          /\ undoStack' = Pushed(e) /\ redoStack' = <<>>
    BY <1>4 DEF Executed
  <2>2. e.inverse.kind = Flipped(m.kind) /\ e.inverse.cell = Under(rows, m)
    BY <2>1, InvertedIs DEF TakenBack
  <2>3. m.kind = "insert" => e.inverse.cell = Blank
    BY <2>2 DEF Under
  <2>4. Opposite(e)
    BY <2>1, <2>2, <2>3 DEF Opposite
  <2>5. AllOpposite(Pushed(e))
    BY <1>2, <2>1, <2>4, MembersPushed DEF AllOpposite
  <2> QED
    BY <2>1, <2>5, MembersOfNothing DEF AllOpposite
<1>5. CASE Undone
  <2>1. PICK e \in Item :
          /\ undoStack # <<>> /\ e = Top(undoStack)
          /\ undoStack' = Popped(undoStack) /\ redoStack' = Append(redoStack, e)
    BY <1>5 DEF Undone
  <2>2. e \in Members(undoStack) /\ e.m.at = e.inverse.at
    BY <1>1, <2>1, MembersPopped, MembersTyped
  <2> QED
    BY <1>1, <1>2, <2>1, <2>2, MembersPopped, MembersAppended DEF AllOpposite
<1>6. CASE Redone
  <2>1. PICK e \in Item, f \in Item :
          /\ redoStack # <<>> /\ f = Top(redoStack)
          /\ e.m.at = e.inverse.at /\ e.m = f.m /\ e.inverse = f.inverse
          /\ undoStack' = Append(undoStack, e) /\ redoStack' = Popped(redoStack)
    BY <1>6 DEF Redone
  <2>2. Opposite(e)
    BY <1>1, <1>2, <2>1, MembersPopped DEF AllOpposite, Opposite
  <2> QED
    BY <1>1, <1>2, <2>1, <2>2, MembersPopped, MembersAppended DEF AllOpposite
<1>7. CASE Acknowledged
  <2>1. revision < Len(log)
    BY <1>7 DEF Acknowledged, OwnReceived
  <2>2. undoStack' = Marked(undoStack) /\ redoStack' = Marked(redoStack)
    BY <1>7 DEF Acknowledged
  <2>3. AllOpposite(Marked(undoStack)) /\ AllOpposite(Marked(redoStack))
    BY <1>1, <1>2, <2>1, MembersMarked DEF AllOpposite, MarkedItem, Opposite
  <2> QED
    BY <2>2, <2>3
<1>8. CASE Received
  <2>1. PICK c \in Mutation :
          Thinned(undoStack, undoStack', c) /\ Thinned(redoStack, redoStack', c)
    BY <1>8 DEF Received
  <2>2. ASSUME NEW e \in Item, NEW f, MovedItem(e, f, c), Opposite(e) PROVE Opposite(f)
    <3>1. e.m \in Mutation /\ e.inverse \in Mutation
      BY DEF Item
    <3> QED
      BY <2>2, <3>1, RebasedFields DEF MovedItem, Opposite
  <2>3. ASSUME NEW stack, NEW s, Entry(stack), Thinned(stack, s, c), AllOpposite(stack)
        PROVE  AllOpposite(s)
    BY <2>2, <2>3, MembersThinned, MembersTyped DEF AllOpposite
  <2> QED
    BY <1>1, <1>2, <2>1, <2>3
<1>9. CASE Reloaded
  BY <1>9, MembersOfNothing DEF Reloaded, AllOpposite
<1>10. CASE Grown
  BY <1>2, <1>10 DEF Grown
<1>11. CASE Halted
  BY <1>2, <1>11 DEF Halted
<1> QED
  BY <1>4, <1>5, <1>6, <1>7, <1>8, <1>9, <1>10, <1>11, Steps

-----------------------------------------------------------------------------
(* An undo that comes too late: another operation follows the one it names. *)
(* The server refuses it when its turn comes, and what is queued behind it   *)
(* is never sent.                                                           *)

Late(i, q, l) ==
  /\ q[i].undoes # 0
  /\ i # 1 => q[i - 1].op # q[i].undoes
  /\ i = 1 => /\ l # <<>> => l[Len(l)].op # q[1].undoes
              /\ \A k \in DOMAIN l : l[k].op # q[1].op

\* The i-th operation of the queue, or one before it, is too late.
Blocked(i, q, l) == \E j \in 1 .. i : Late(j, q, l)

Hopeless(q, l) == \E i \in DOMAIN q : Late(i, q, l)

LEMMA LateEnqueued ==
  ASSUME Typed, NEW m, NEW undoes, Enqueued(m, undoes),
         NEW i \in DOMAIN queue, Late(i, queue, log)
  PROVE  i \in DOMAIN queue' /\ Late(i, queue', log')
<1>1. log' = log
  BY DEF Enqueued, serverVars
<1>2. i \in DOMAIN queue' /\ queue'[i] = queue[i]
  BY EnqueuedPlaces
<1>3. DOMAIN queue = 1 .. Len(queue) /\ Len(queue) \in Nat
  BY TypedPlaces
<1>4. i # 1 => i - 1 \in DOMAIN queue
  BY <1>3
<1>5. i # 1 => queue'[i - 1] = queue[i - 1]
  BY <1>4, EnqueuedPlaces
<1> QED
  BY <1>1, <1>2, <1>5 DEF Late

LEMMA LateAfterOwn ==
  ASSUME Typed, Own, Waiting, OwnReceived, NEW i \in DOMAIN queue, Late(i, queue, log)
  PROVE  i # 1 /\ i - 1 \in DOMAIN queue' /\ Late(i - 1, queue', log')
<1>1. /\ log' = log /\ revision' = revision + 1 /\ revision' \in DOMAIN log
      /\ log[revision'].op = queue[1].op
      /\ \A j \in DOMAIN queue' :
           /\ j \in Nat /\ j + 1 \in DOMAIN queue
           /\ queue'[j].op = queue[j + 1].op /\ queue'[j].undoes = queue[j + 1].undoes
      /\ \A j \in DOMAIN queue : j # 1 => j - 1 \in DOMAIN queue'
  BY DEF OwnReceived, serverVars
<1>2. i # 1 /\ i - 1 \in DOMAIN queue'
  BY <1>1 DEF Late
<1>3. /\ DOMAIN queue = 1 .. Len(queue) /\ Len(queue) \in Nat /\ i \in Nat
      /\ Len(log) \in Nat /\ DOMAIN log = 1 .. Len(log) /\ revision \in Nat
  BY TypedPlaces
<1>4. PICK j \in DOMAIN queue' : j = i - 1
  BY <1>2
<1>5. /\ i = j + 1 /\ queue'[j].op = queue[i].op /\ queue'[j].undoes = queue[i].undoes
      /\ j \in Nat /\ j # 0 /\ j \in DOMAIN queue
  <2>1. j \in Nat /\ i = j + 1 /\ j + 1 \in DOMAIN queue
    BY <1>1, <1>3, <1>4
  <2>2. queue'[j].op = queue[j + 1].op /\ queue'[j].undoes = queue[j + 1].undoes
    BY <1>1
  <2>3. j # 0 /\ j \in DOMAIN queue
    BY <1>2, <1>3, <2>1
  <2> QED
    BY <2>1, <2>2, <2>3
<1>6. queue[i].undoes # 0 /\ queue[j].op # queue[i].undoes
  BY <1>2, <1>4 DEF Late
<1>7. CASE j = 1
  <2>1. \A k \in DOMAIN log : log[k].op # queue'[1].op
    BY <1>2, <1>5, <1>7 DEF Waiting, ReceivedLeft
  <2>2. ASSUME log[Len(log)].op = queue'[1].undoes PROVE FALSE
    <3>1. Len(log) \in DOMAIN log /\ Len(log) > revision
      BY <1>1, <1>3
    <3>2. log[Len(log)].op # 0
      BY <1>5, <1>6, <1>7, <2>2
    <3>3. log[Len(log)].op = queue[1].op
      BY <3>1, <3>2 DEF Own, OwnAhead
    <3> QED
      BY <1>5, <1>6, <1>7, <2>2, <3>3
  <2>3. queue'[1].undoes # 0
    BY <1>5, <1>6, <1>7
  <2> QED
    BY <1>1, <1>2, <1>4, <1>7, <2>1, <2>2, <2>3 DEF Late
<1>8. CASE j # 1
  <2>1. j - 1 \in DOMAIN queue'
    BY <1>1, <1>5, <1>8
  <2>2. queue'[j - 1].op = queue[j].op
    <3>1. j - 1 + 1 = j
      BY <1>5
    <3> QED
      BY <1>1, <2>1, <3>1
  <2>3. queue'[j].undoes # 0 /\ queue'[j - 1].op # queue'[j].undoes
    BY <1>5, <1>6, <2>2
  <2> QED
    BY <1>2, <1>4, <1>8, <2>3 DEF Late
<1> QED
  BY <1>7, <1>8

LEMMA LateAfterOther ==
  ASSUME Typed, NEW c, OtherReceived(c), NEW i \in DOMAIN queue, Late(i, queue, log)
  PROVE  i \in DOMAIN queue' /\ Late(i, queue', log')
<1>1. /\ log' = log /\ DOMAIN queue' = DOMAIN queue
      /\ \A j \in DOMAIN queue :
           queue'[j].op = queue[j].op /\ queue'[j].undoes = queue[j].undoes
  BY DEF OtherReceived, serverVars
<1>2. DOMAIN queue = 1 .. Len(queue) /\ Len(queue) \in Nat
  BY TypedPlaces
<1>3. i # 1 => i - 1 \in DOMAIN queue
  BY <1>2
<1>4. i # 1 => queue'[i - 1].op = queue[i - 1].op
  BY <1>1, <1>3
<1>5. i = 1 => queue'[1].op = queue[1].op /\ queue'[1].undoes = queue[1].undoes
  BY <1>1
<1> QED
  BY <1>1, <1>4, <1>5 DEF Late

LEMMA LateGrown ==
  ASSUME Typed, NEW r \in Row, LogGrows(r), OwnCommitted(r) \/ r.op = 0,
         NEW i \in DOMAIN queue, Late(i, queue, log)
  PROVE  i \in DOMAIN queue' /\ Late(i, queue', log')
<1>1. /\ queue' = queue /\ Len(log') = Len(log) + 1 /\ log'[Len(log) + 1] = r
      /\ \A k \in DOMAIN log : log'[k] = log[k]
      /\ \A k \in DOMAIN log' : k \in DOMAIN log \/ k = Len(log) + 1
  BY GrownPlaces
<1>2. CASE i # 1
  BY <1>1, <1>2 DEF Late
<1>3. CASE i = 1
  <2>1. /\ queue[1].undoes # 0
        /\ log # <<>> => log[Len(log)].op # queue[1].undoes
        /\ \A k \in DOMAIN log : log[k].op # queue[1].op
    BY <1>3 DEF Late
  <2>2. queue[1] \in Queued
    BY <1>3, TypedPlaces
  <2>3. queue[1].op # 0
    BY <2>2, EditingAssumption DEF Queued, Ops
  <2>4. r.op = 0
    BY <2>1 DEF OwnCommitted
  <2>5. log'[Len(log')].op = 0
    BY <1>1, <2>4
  <2>6. log'[Len(log')].op # queue[1].undoes
    BY <2>1, <2>5
  <2>7. \A k \in DOMAIN log' : log'[k].op # queue[1].op
    BY <1>1, <2>1, <2>3, <2>4
  <2> QED
    BY <1>1, <1>3, <2>1, <2>6, <2>7 DEF Late
<1> QED
  BY <1>2, <1>3

\* A step that leaves the queue in place leaves what is too late.
LEMMA StaysHopeless ==
  ASSUME Typed, Own, Waiting, Hopeless(queue, log),
         \/ \E m, undoes : Enqueued(m, undoes)
         \/ OwnReceived
         \/ \E c : OtherReceived(c)
         \/ Grown
         \/ Halted
  PROVE  Hopeless(queue', log')
<1>1. PICK i \in DOMAIN queue : Late(i, queue, log)
  BY DEF Hopeless
<1>2. CASE \E m, undoes : Enqueued(m, undoes)
  BY <1>1, <1>2, LateEnqueued DEF Hopeless
<1>3. CASE OwnReceived
  BY <1>1, <1>3, LateAfterOwn DEF Hopeless
<1>4. CASE \E c : OtherReceived(c)
  BY <1>1, <1>4, LateAfterOther DEF Hopeless
<1>5. CASE Grown
  BY <1>1, <1>5, LateGrown DEF Hopeless, Grown
<1>6. CASE Halted
  <2>1. queue' = queue /\ log' = log
    BY <1>6 DEF Halted, serverVars
  <2> QED
    BY <1>1, <2>1 DEF Hopeless
<1> QED
  BY <1>2, <1>3, <1>4, <1>5, <1>6

-----------------------------------------------------------------------------
(* The latest revision, and the one the page has not received. *)

\* before is the document the latest operation was committed on.
Latest ==
  log # <<>> =>
    /\ InBounds(before, log[Len(log)].m)
    /\ sheet = Applied(before, log[Len(log)].m)
    /\ log[Len(log)].hit = Under(before, log[Len(log)].m)

\* The committed head of the queue is aimed as it was, and not astray unless
\* the page still is.
Ahead ==
  \A k \in DOMAIN log :
    k > revision /\ log[k].op # 0 =>
      log[k].aim = queue[1].aim /\ (log[k].astray => crossed)

LEMMA LatestSteps ==
  ASSUME Typed, Own, Latest, Ahead, [Next]_vars
  PROVE  Latest' /\ Ahead'
<1>1. ASSUME NEW m, NEW undoes, Enqueued(m, undoes) PROVE Latest' /\ Ahead'
  <2>1. /\ log' = log /\ sheet' = sheet /\ before' = before
        /\ revision' = revision /\ crossed' = crossed
    BY <1>1 DEF Enqueued, serverVars
  <2>2. Latest'
    BY <2>1 DEF Latest
  <2>3. \A k \in DOMAIN log : k > revision /\ log[k].op # 0 => queue'[1] = queue[1]
    BY <1>1, EnqueuedPlaces DEF Own, OwnAhead
  <2> QED
    BY <2>1, <2>2, <2>3 DEF Ahead
<1>2. CASE Executed
  BY <1>1, <1>2 DEF Executed
<1>3. CASE Undone
  BY <1>1, <1>3 DEF Undone
<1>4. CASE Redone
  BY <1>1, <1>4 DEF Redone
<1>5. CASE Acknowledged
  <2>1. /\ log' = log /\ sheet' = sheet /\ before' = before
        /\ revision' = revision + 1 /\ revision' \in DOMAIN log
        /\ log[revision'].op = queue[1].op
    BY <1>5 DEF Acknowledged, OwnReceived, serverVars
  <2>2. \A k \in DOMAIN log : k > revision' => log[k].op = 0
    <3> SUFFICES ASSUME NEW k \in DOMAIN log, k > revision', log[k].op # 0 PROVE FALSE
      OBVIOUS
    <3>1. k \in Nat /\ revision \in Nat
      BY TypedPlaces
    <3>2. k > revision /\ k # revision'
      BY <2>1, <3>1
    <3>3. log[k].op = queue[1].op
      BY <3>2 DEF Own, OwnAhead
    <3> QED
      BY <2>1, <3>2, <3>3 DEF Own, CommittedOnce
  <2> QED
    BY <2>1, <2>2 DEF Latest, Ahead
<1>6. CASE Received
  <2>1. PICK c \in Mutation : OtherReceived(c)
    BY <1>6 DEF Received
  <2>2. /\ log' = log /\ sheet' = sheet /\ before' = before
        /\ revision' = revision + 1 /\ (crossed => crossed')
    BY <2>1 DEF OtherReceived, serverVars
  <2>3. Latest'
    BY <2>2 DEF Latest
  <2>4. ASSUME NEW k \in DOMAIN log, k > revision', log[k].op # 0
        PROVE  log[k].aim = queue'[1].aim /\ (log[k].astray => crossed')
    <3>1. k > revision
      BY <2>2, <2>4, TypedPlaces
    <3>2. queue # <<>>
      BY <2>4, <3>1 DEF Own, OwnAhead
    <3>3. 1 \in DOMAIN queue
      BY <3>2, TypedPlaces
    <3>4. queue'[1].aim = queue[1].aim
      BY <2>1, <3>3 DEF OtherReceived
    <3> QED
      BY <2>2, <2>4, <3>1, <3>4 DEF Ahead
  <2> QED
    BY <2>2, <2>3, <2>4 DEF Ahead
<1>7. CASE Reloaded
  <2>1. /\ log' = log /\ sheet' = sheet /\ before' = before /\ revision' = Len(log)
    BY <1>7 DEF Reloaded, serverVars
  <2>2. \A k \in DOMAIN log : ~ (k > revision')
    BY <2>1, TypedPlaces
  <2> QED
    BY <2>1, <2>2 DEF Latest, Ahead
<1>8. CASE Grown
  <2>1. PICK r \in Row :
          /\ LogGrows(r)
          /\ OwnCommitted(r) \/ (r.op = 0 /\ r.undoes = 0)
    BY <1>8 DEF Grown
  <2>2. /\ \A k \in DOMAIN log : log'[k] = log[k]
        /\ \A k \in DOMAIN log' : k \in DOMAIN log \/ k = Len(log) + 1
        /\ log'[Len(log) + 1] = r /\ Len(log') = Len(log) + 1
        /\ queue' = queue /\ revision' = revision /\ crossed' = crossed
    BY <2>1, GrownPlaces
  <2>3. Latest'
    <3>1. log'[Len(log')] = r
      BY <2>2
    <3>2. /\ InBounds(sheet, r.m) /\ sheet' = Applied(sheet, r.m) /\ before' = sheet
          /\ r.hit = Under(sheet, r.m)
      BY <2>1 DEF LogGrows
    <3> QED
      BY <3>1, <3>2 DEF Latest
  <2>4. r.op # 0 => r.aim = queue[1].aim /\ (r.astray => crossed)
    BY <2>1 DEF OwnCommitted
  <2> QED
    BY <2>2, <2>3, <2>4 DEF Ahead
<1>9. CASE Halted
  <2>1. /\ log' = log /\ sheet' = sheet /\ before' = before /\ queue' = queue
        /\ revision' = revision /\ crossed' = crossed
    BY <1>9 DEF Halted, serverVars
  <2> QED
    BY <2>1 DEF Latest, Ahead
<1> QED
  BY <1>2, <1>3, <1>4, <1>5, <1>6, <1>7, <1>8, <1>9, Steps


-----------------------------------------------------------------------------
(* The entries of the queue, and the inverses that take them back. *)

LEMMA BlockedEnqueued ==
  ASSUME Typed, NEW m, NEW undoes, Enqueued(m, undoes),
         NEW i \in DOMAIN queue, Blocked(i, queue, log)
  PROVE  Blocked(i, queue', log')
<1>1. PICK j \in 1 .. i : Late(j, queue, log)
  BY DEF Blocked
<1>2. j \in DOMAIN queue
  BY TypedPlaces
<1> QED
  BY <1>1, <1>2, LateEnqueued DEF Blocked

LEMMA BlockedAfterOwn ==
  ASSUME Typed, Own, Waiting, OwnReceived, NEW i \in DOMAIN queue', Blocked(i + 1, queue, log)
  PROVE  Blocked(i, queue', log')
<1>1. PICK j \in 1 .. i + 1 : Late(j, queue, log)
  BY DEF Blocked
<1>2. i \in Nat /\ i + 1 \in DOMAIN queue
  BY DEF OwnReceived
<1>3. DOMAIN queue = 1 .. Len(queue) /\ Len(queue) \in Nat
  BY TypedPlaces
<1>4. j \in DOMAIN queue
  BY <1>2, <1>3
<1>5. j # 1 /\ Late(j - 1, queue', log')
  BY <1>1, <1>4, LateAfterOwn
<1>6. j - 1 \in 1 .. i
  BY <1>2, <1>5
<1> QED
  BY <1>5, <1>6 DEF Blocked

LEMMA BlockedAfterOther ==
  ASSUME Typed, NEW c, OtherReceived(c), NEW i \in DOMAIN queue, Blocked(i, queue, log)
  PROVE  Blocked(i, queue', log')
<1>1. PICK j \in 1 .. i : Late(j, queue, log)
  BY DEF Blocked
<1>2. j \in DOMAIN queue
  BY TypedPlaces
<1> QED
  BY <1>1, <1>2, LateAfterOther DEF Blocked

LEMMA BlockedGrown ==
  ASSUME Typed, Grown, NEW i \in DOMAIN queue, Blocked(i, queue, log)
  PROVE  Blocked(i, queue', log')
<1>1. PICK j \in 1 .. i : Late(j, queue, log)
  BY DEF Blocked
<1>2. j \in DOMAIN queue
  BY TypedPlaces
<1> QED
  BY <1>1, <1>2, LateGrown DEF Blocked, Grown

\* What is refused for its base stays so, while the queue is there.
LEMMA DoomedGrown ==
  ASSUME Typed, NEW r \in Row, LogGrows(r), OwnCommitted(r) \/ r.op = 0, Doomed(queue, log)
  PROVE  Doomed(queue', log')
<1>1. /\ \A k \in DOMAIN log : k \in DOMAIN log' /\ log'[k] = log[k]
      /\ \A k \in DOMAIN log' : k \in DOMAIN log \/ k = Len(log) + 1
      /\ log'[Len(log) + 1] = r
      /\ queue' = queue
      /\ Len(log') = Len(log) + 1
  BY GrownPlaces
<1>2. 1 \in DOMAIN queue /\ queue[1] \in Queued /\ Len(log) \in Nat /\ DOMAIN log = 1 .. Len(log)
  BY TypedPlaces DEF Doomed
<1>3. queue[1].base \in Nat /\ queue[1].op # 0
  BY <1>2, EditingAssumption DEF Queued, Ops
<1>4. PICK k \in queue[1].base + 1 .. Len(log) : Moves(log[k].m)
  BY DEF Doomed
<1>5. r.op = 0
  <2>1. ~ OwnCommitted(r)
    BY <1>4 DEF OwnCommitted
  <2> QED
    BY <2>1
<1>6. \A j \in DOMAIN log' : log'[j].op # queue[1].op
  BY <1>1, <1>3, <1>5 DEF Doomed
<1>7. k \in DOMAIN log /\ k \in queue[1].base + 1 .. Len(log')
  BY <1>1, <1>2, <1>3
<1>8. Moves(log'[k].m)
  BY <1>1, <1>4, <1>7
<1> QED
  BY <1>1, <1>6, <1>7, <1>8 DEF Doomed

LEMMA StaysDoomed ==
  ASSUME Typed, Doomed(queue, log),
         \/ \E m, undoes : Enqueued(m, undoes)
         \/ \E c : OtherReceived(c)
         \/ Grown
         \/ Halted
  PROVE  Doomed(queue', log')
<1>1. 1 \in DOMAIN queue /\ queue # <<>>
  BY TypedPlaces DEF Doomed
<1>2. ASSUME NEW m, NEW undoes, Enqueued(m, undoes) PROVE Doomed(queue', log')
  <2>1. log' = log
    BY <1>2 DEF Enqueued, serverVars
  <2>2. queue' # <<>> /\ queue'[1] = queue[1]
    BY <1>1, <1>2, EnqueuedPlaces
  <2> QED
    BY <2>1, <2>2 DEF Doomed
<1>3. ASSUME NEW c, OtherReceived(c) PROVE Doomed(queue', log')
  <2>1. log' = log /\ queue'[1] = queue[1]
    BY <1>1, <1>3 DEF OtherReceived, serverVars
  <2>2. queue' # <<>>
    <3>1. queue' \in Seq(Queued) /\ 1 \in DOMAIN queue'
      BY <1>1, <1>3 DEF OtherReceived
    <3> QED
      BY <3>1, Places
  <2> QED
    BY <2>1, <2>2 DEF Doomed
<1>4. CASE Grown
  BY <1>4, DoomedGrown DEF Grown
<1>5. CASE Halted
  BY <1>5 DEF Halted, serverVars, Doomed
<1> QED
  BY <1>2, <1>3, <1>4, <1>5

Matches(e, q) == e.committed = 0 /\ e.op = q.op => e.inverse = TakenBack(q.m, q.aim)

\* An entry whose operation is still queued takes back what that operation did
\* when it was made, unless the server is not going to reach the operation.
Matching ==
  \/ crossed \/ Doomed(queue, log)
  \/ \A i \in DOMAIN queue : \A e \in Members(undoStack) :
       Blocked(i, queue, log) \/ Matches(e, queue[i])

\* What a mutation wrote is in its row.
Holds(doc, m) == m.kind # "delete" => m.at \in DOMAIN doc /\ doc[m.at] = m.cell

\* There is at most one entry to be done again, and what it undid is back in
\* its row, unless nothing that is queued now will be committed.
Redoable ==
  \/ Hopeless(queue, log)
  \/ /\ Len(redoStack) <= 1
     /\ redoStack # <<>> => Holds(rows, Top(redoStack).inverse)

\* An own operation leaves the entries of the undo stack with the queue.
LEMMA MatchesEnqueued ==
  ASSUME Typed, Own, Linked, Matching, NEW m, NEW undoes, Enqueued(m, undoes),
         \A f \in Members(undoStack') : f \in Members(undoStack) \/ f.op = nextOp,
         \A f \in Members(undoStack') :
           f.op = nextOp => \/ Hopeless(queue, log)
                            \/ f.inverse = TakenBack(m, Under(rows, m))
  PROVE  Matching'
<1>1. log' = log /\ crossed' = crossed
  BY DEF Enqueued, serverVars
<1>2. CASE crossed
  BY <1>1, <1>2 DEF Matching
<1>3. CASE Doomed(queue, log)
  BY <1>3, StaysDoomed DEF Matching
<1>4. SUFFICES ASSUME ~ crossed, ~ Doomed(queue, log),
                      NEW i \in DOMAIN queue', NEW f \in Members(undoStack')
               PROVE  Blocked(i, queue', log') \/ Matches(f, queue'[i])
  BY <1>2, <1>3 DEF Matching
<1>5. Len(queue) \in Nat /\ DOMAIN queue = 1 .. Len(queue)
  BY TypedPlaces
<1>6. CASE i \in DOMAIN queue
  <2>1. queue'[i] = queue[i] /\ queue[i].op # nextOp
    <3>1. queue[i].op < nextOp /\ nextOp \in Nat
      BY <1>6, TypedPlaces DEF Own, NumbersAreNew
    <3> QED
      BY <1>6, <3>1, EnqueuedPlaces
  <2>2. CASE f.op = nextOp
    BY <2>1, <2>2 DEF Matches
  <2>3. CASE f \in Members(undoStack)
    <3>1. Blocked(i, queue, log) \/ Matches(f, queue[i])
      BY <1>4, <1>6, <2>3 DEF Matching
    <3> QED
      BY <1>6, <2>1, <3>1, BlockedEnqueued
  <2> QED
    BY <2>2, <2>3
<1>7. CASE i = Len(queue) + 1
  <2>1. queue'[i].op = nextOp /\ queue'[i].m = m /\ queue'[i].aim = Under(rows, m)
    BY <1>7, EnqueuedPlaces
  <2>2. CASE f.op = nextOp /\ ~ Hopeless(queue, log)
    BY <2>1, <2>2 DEF Matches
  <2>3. CASE Hopeless(queue, log)
    <3>1. PICK j \in DOMAIN queue : Late(j, queue, log)
      BY <2>3 DEF Hopeless
    <3>2. Late(j, queue', log') /\ j \in 1 .. i
      BY <1>5, <1>7, <3>1, LateEnqueued
    <3> QED
      BY <3>2 DEF Blocked
  <2>4. CASE f \in Members(undoStack)
    <3>1. f.op < nextOp
      BY <2>4 DEF Linked, EntriesAreOld, Old, Members
    <3>2. f.op # queue'[i].op
      BY <2>1, <3>1, TypedPlaces
    <3> QED
      BY <3>2 DEF Matches
  <2> QED
    BY <2>2, <2>3, <2>4
<1> QED
  BY <1>6, <1>7, EnqueuedPlaces


LEMMA MatchingSteps ==
  ASSUME Typed, Own, Waiting, Linked, Opposed, Matching, Redoable, [Next]_vars
  PROVE  Matching'
<1>1. Entry(undoStack) /\ Entry(redoStack)
  BY DEF Typed, HistoryTyped
<1>2. CASE Executed
  <2>1. PICK m \in Mutation, e \in Item :
          /\ Enqueued(m, 0)
          /\ e.op = nextOp /\ e.m.at = e.inverse.at
          /\ e.m = m /\ e.inverse = Inverted(rows, m)
          /\ undoStack' = Pushed(e)
    BY <1>2 DEF Executed
  <2>2. Members(undoStack') \subseteq Members(undoStack) \cup {e}
    BY <2>1, MembersPushed
  <2>3. e.inverse = TakenBack(m, Under(rows, m))
    BY <2>1, InvertedIs
  <2>4. \A f \in Members(undoStack) : f.op # nextOp
    BY TypedPlaces DEF Linked, EntriesAreOld, Old, Members
  <2> QED
    BY <2>1, <2>2, <2>3, <2>4, MatchesEnqueued
<1>3. CASE Undone
  <2>1. PICK e \in Item :
          undoStack # <<>> /\ Enqueued(e.inverse, e.op) /\ undoStack' = Popped(undoStack)
    BY <1>3 DEF Undone
  <2>2. Members(undoStack') \subseteq Members(undoStack)
    BY <1>1, <2>1, MembersPopped
  <2>3. \A f \in Members(undoStack) : f.op # nextOp
    BY TypedPlaces DEF Linked, EntriesAreOld, Old, Members
  <2> QED
    BY <2>1, <2>2, <2>3, MatchesEnqueued
<1>4. CASE Redone
  <2>1. PICK e \in Item, f \in Item :
          /\ redoStack # <<>> /\ f = Top(redoStack)
          /\ Enqueued(e.m, 0)
          /\ e.op = nextOp /\ e.m.at = e.inverse.at
          /\ e.m = f.m /\ e.inverse = f.inverse
          /\ undoStack' = Append(undoStack, e)
    BY <1>4 DEF Redone
  <2>2. Members(undoStack') \subseteq Members(undoStack) \cup {e}
    BY <1>1, <2>1, MembersAppended
  <2>3. e.inverse = TakenBack(e.m, Under(rows, e.m)) \/ Hopeless(queue, log)
    <3> SUFFICES ASSUME ~ Hopeless(queue, log)
                 PROVE  e.inverse = TakenBack(e.m, Under(rows, e.m))
      OBVIOUS
    <3>1. Holds(rows, f.inverse)
      BY <2>1 DEF Redoable
    <3>2. Opposite(f)
      BY <1>1, <2>1, MembersPopped DEF Opposed, AllOpposite
    <3>3. e.inverse.kind = Flipped(e.m.kind)
      BY <2>1, <3>2 DEF Opposite
    <3>4. e.inverse.cell = Under(rows, e.m)
      <4>1. e.m.kind # "insert" => e.inverse.kind # "delete"
        BY <3>3 DEF Flipped, Item, Mutation
      <4> QED
        BY <2>1, <3>1, <3>2, <4>1 DEF Opposite, Holds, Under
    <3>5. e.inverse \in Mutation
      BY DEF Item
    <3>6. e.inverse = [kind |-> e.inverse.kind, at |-> e.inverse.at, cell |-> e.inverse.cell]
      BY <3>5 DEF Mutation
    <3> QED
      BY <2>1, <3>3, <3>4, <3>6 DEF TakenBack
  <2>4. \A g \in Members(undoStack) : g.op # nextOp
    BY TypedPlaces DEF Linked, EntriesAreOld, Old, Members
  <2> QED
    BY <2>1, <2>2, <2>3, <2>4, MatchesEnqueued
<1>5. CASE Acknowledged
  <2>1. OwnReceived /\ undoStack' = Marked(undoStack)
    BY <1>5 DEF Acknowledged
  <2>2. /\ log' = log /\ crossed' = crossed /\ revision' = revision + 1
        /\ revision < Len(log) /\ revision' \in DOMAIN log /\ log[revision'].op = queue[1].op
        /\ \A j \in DOMAIN queue' :
             /\ j + 1 \in DOMAIN queue
             /\ queue'[j].op = queue[j + 1].op /\ queue'[j].m = queue[j + 1].m
             /\ queue'[j].aim = queue[j + 1].aim
    BY <2>1 DEF OwnReceived, serverVars
  <2>3. ~ Doomed(queue, log)
    BY <2>2 DEF Doomed
  <2>4. SUFFICES ASSUME ~ crossed, NEW i \in DOMAIN queue', NEW f \in Members(Marked(undoStack))
                 PROVE  Blocked(i, queue', log') \/ Matches(f, queue'[i])
    BY <2>1, <2>2 DEF Matching
  <2>5. PICK e \in Members(undoStack) : MarkedItem(e, f)
    BY <1>1, <2>2, MembersMarked
  <2>6. Blocked(i + 1, queue, log) \/ Matches(e, queue[i + 1])
    BY <2>2, <2>3, <2>4 DEF Matching
  <2>7. CASE Blocked(i + 1, queue, log)
    BY <2>1, <2>7, BlockedAfterOwn
  <2>8. CASE Matches(e, queue[i + 1])
    <3>1. f.committed = 0 => f = e
      BY <2>5, TypedPlaces DEF MarkedItem
    <3> QED
      BY <2>2, <2>8, <3>1 DEF Matches
  <2> QED
    BY <2>6, <2>7, <2>8
<1>6. CASE Received
  <2>1. PICK c \in Mutation : OtherReceived(c) /\ Thinned(undoStack, undoStack', c)
    BY <1>6 DEF Received
  <2>2. CASE Doomed(queue, log)
    BY <2>1, <2>2, StaysDoomed DEF Matching
  <2>3. /\ crossed => crossed'
        /\ DOMAIN queue' = DOMAIN queue
        /\ \A i \in DOMAIN queue :
             /\ queue'[i].op = queue[i].op /\ queue'[i].aim = queue[i].aim
             /\ i # 1 => queue'[i].m = Rebased(queue[i].m, c)
             /\ i = 1 => queue'[i] = queue[i]
    BY <2>1 DEF OtherReceived
  <2>4. SUFFICES ASSUME ~ crossed, ~ Doomed(queue, log), NEW i \in DOMAIN queue,
                        NEW f \in Members(undoStack')
                 PROVE  Blocked(i, queue', log') \/ Matches(f, queue'[i])
    BY <2>2, <2>3 DEF Matching
  <2>5. PICK e \in Members(undoStack) : MovedItem(e, f, c)
    BY <2>1, MembersThinned
  <2>6. CASE Blocked(i, queue, log)
    BY <2>1, <2>6, BlockedAfterOther
  <2>7. CASE Matches(e, queue[i])
    <3>1. ~ Moves(c)
      <4>1. queue # <<>>
        BY <2>4
      <4> QED
        BY <2>1, <2>4, <4>1, OthersOnlyWrite
    <3>2. \A m \in Mutation : Rebased(m, c) = m
      BY <3>1 DEF Moves, Rebased, RowAfter, Mutation
    <3>3. queue[i].m \in Mutation /\ e.inverse \in Mutation
      <4>1. queue[i] \in Queued /\ e \in Item
        BY <1>1, <2>4, <2>5, TypedPlaces, MembersTyped
      <4> QED
        BY <4>1 DEF Queued, Item
    <3>4. queue'[i].m = queue[i].m /\ f.inverse = e.inverse
      BY <2>3, <2>4, <2>5, <3>2, <3>3 DEF MovedItem
    <3> QED
      BY <2>3, <2>4, <2>5, <2>7, <3>4 DEF Matches, MovedItem
  <2> QED
    BY <2>4, <2>5, <2>6, <2>7 DEF Matching
<1>7. CASE Reloaded
  <2>1. DOMAIN queue' = {}
    BY <1>7 DEF Reloaded
  <2> QED
    BY <2>1 DEF Matching
<1>8. CASE Grown
  <2>1. queue' = queue /\ crossed' = crossed /\ undoStack' = undoStack
    BY <1>8, GrownPlaces DEF Grown
  <2> QED
    BY <1>8, <2>1, BlockedGrown, StaysDoomed DEF Matching
<1>9. CASE Halted
  <2>1. queue' = queue /\ crossed' = crossed /\ undoStack' = undoStack /\ log' = log
    BY <1>9 DEF Halted, serverVars
  <2> QED
    BY <2>1 DEF Matching
<1> QED
  BY <1>2, <1>3, <1>4, <1>5, <1>6, <1>7, <1>8, <1>9, Steps


\* An entry of the latest revision the page has received takes back what was
\* committed as that revision.
TakesBack(e, row) == ~ row.astray /\ e.inverse = TakenBack(row.m, row.aim)

Fresh ==
  \/ crossed
  \/ \A e \in Members(undoStack) :
       e.committed = revision /\ revision # 0 => TakesBack(e, log[revision])

LEMMA FreshKept ==
  ASSUME Typed, Fresh, crossed => crossed', revision' = revision,
         \A k \in DOMAIN log : log'[k] = log[k],
         \A f \in Members(undoStack') : f \in Members(undoStack) \/ f.committed = 0
  PROVE  Fresh'
<1>1. SUFFICES ASSUME ~ crossed, NEW f \in Members(undoStack'), f.committed = revision, revision # 0
               PROVE  TakesBack(f, log'[revision])
  BY DEF Fresh
<1>2. revision \in DOMAIN log
  BY <1>1, TypedPlaces
<1>3. f \in Members(undoStack)
  BY <1>1
<1> QED
  BY <1>1, <1>2, <1>3 DEF Fresh

LEMMA FreshSteps ==
  ASSUME Typed, Own, Waiting, Known, Ahead, Matching, Fresh, [Next]_vars
  PROVE  Fresh'
<1>1. Entry(undoStack) /\ Entry(redoStack)
  BY DEF Typed, HistoryTyped
<1>2. ASSUME NEW m, NEW undoes, Enqueued(m, undoes)
      PROVE  crossed' = crossed /\ revision' = revision /\ log' = log
  BY <1>2 DEF Enqueued, serverVars
<1>3. CASE Executed
  <2>1. PICK m \in Mutation, e \in Item :
          /\ Enqueued(m, 0)
          /\ e.committed = 0 /\ e.m.at = e.inverse.at
          /\ undoStack' = Pushed(e)
    BY <1>3 DEF Executed
  <2>2. Members(undoStack') \subseteq Members(undoStack) \cup {e}
    BY <2>1, MembersPushed
  <2> QED
    BY <1>2, <2>1, <2>2, FreshKept
<1>4. CASE Undone
  <2>1. PICK e \in Item :
          undoStack # <<>> /\ Enqueued(e.inverse, e.op) /\ undoStack' = Popped(undoStack)
    BY <1>4 DEF Undone
  <2>2. Members(undoStack') \subseteq Members(undoStack)
    BY <1>1, <2>1, MembersPopped
  <2> QED
    BY <1>2, <2>1, <2>2, FreshKept
<1>5. CASE Redone
  <2>1. PICK e \in Item :
          /\ Enqueued(e.m, 0)
          /\ e.committed = 0 /\ e.m.at = e.inverse.at
          /\ undoStack' = Append(undoStack, e)
    BY <1>5 DEF Redone
  <2>2. Members(undoStack') \subseteq Members(undoStack) \cup {e}
    BY <1>1, <2>1, MembersAppended
  <2> QED
    BY <1>2, <2>1, <2>2, FreshKept
<1>6. ASSUME NEW e \in Members(undoStack), e.committed # 0
      PROVE  e.committed <= revision /\ log[e.committed].op = e.op /\ e.committed \in DOMAIN log
  <2>1. e.committed <= revision /\ log[e.committed].op = e.op
    BY <1>6 DEF Known, AllKnownIn, KnownIn, Members
  <2>2. e.committed \in Nat
    BY <1>1, MembersTyped DEF Item
  <2> QED
    BY <1>6, <2>1, <2>2, TypedPlaces
<1>7. CASE Acknowledged
  <2>1. OwnReceived /\ undoStack' = Marked(undoStack)
    BY <1>7 DEF Acknowledged
  <2>2. /\ log' = log /\ crossed' = crossed /\ revision' = revision + 1
        /\ revision < Len(log) /\ revision' \in DOMAIN log /\ log[revision'].op = queue[1].op
        /\ queue # <<>>
    BY <2>1 DEF OwnReceived, serverVars
  <2>3. SUFFICES ASSUME ~ crossed, NEW f \in Members(Marked(undoStack)), f.committed = revision'
                 PROVE  TakesBack(f, log[revision'])
    BY <2>1, <2>2 DEF Fresh
  <2>4. PICK e \in Members(undoStack) : MarkedItem(e, f)
    BY <1>1, <2>2, MembersMarked
  <2>5. 1 \in DOMAIN queue /\ queue[1] \in Queued /\ revision \in Nat
    BY <2>2, TypedPlaces
  <2>6. queue[1].op # 0 /\ Incoming.op = queue[1].op
    BY <2>2, <2>5, EditingAssumption DEF Queued, Ops, Incoming
  <2>7. f.op = Incoming.op
    <3> SUFFICES ASSUME f = e PROVE FALSE
      BY <2>4 DEF MarkedItem
    <3> QED
      BY <1>6, <2>2, <2>3, <2>5
  <2>8. e.op = queue[1].op /\ f.inverse = e.inverse
    BY <2>4, <2>6, <2>7 DEF MarkedItem
  <2>9. e.committed = 0
    <3> SUFFICES ASSUME e.committed # 0 PROVE FALSE
      OBVIOUS
    <3>1. e.committed = revision'
      BY <1>6, <2>2, <2>6, <2>8 DEF Own, CommittedOnce
    <3> QED
      BY <1>6, <2>2, <2>5, <3>1
  <2>10. ~ Doomed(queue, log) /\ ~ Blocked(1, queue, log)
    BY <2>2 DEF Doomed, Blocked, Late
  <2>11. Matches(e, queue[1])
    BY <2>3, <2>5, <2>10 DEF Matching
  <2>12. /\ log[revision'].m = queue[1].m /\ log[revision'].aim = queue[1].aim
         /\ ~ log[revision'].astray
    <3>1. revision' > revision /\ log[revision'].op # 0
      BY <2>2, <2>5, <2>6
    <3> QED
      BY <2>2, <2>3, <3>1 DEF Own, OwnAhead, Ahead
  <2> QED
    BY <2>8, <2>9, <2>11, <2>12 DEF Matches, TakesBack
<1>8. CASE Received
  <2>1. PICK c \in Mutation : OtherReceived(c) /\ Thinned(undoStack, undoStack', c)
    BY <1>8 DEF Received
  <2>2. revision' = revision + 1 /\ revision \in Nat
    BY <2>1, TypedPlaces DEF OtherReceived
  <2>3. SUFFICES ASSUME NEW f \in Members(undoStack'), f.committed = revision' PROVE FALSE
    BY DEF Fresh
  <2>4. PICK e \in Members(undoStack) : MovedItem(e, f, c)
    BY <2>1, MembersThinned
  <2>5. e.committed = revision'
    BY <2>3, <2>4 DEF MovedItem
  <2> QED
    BY <1>6, <2>2, <2>5
<1>9. CASE Reloaded
  BY <1>9, MembersOfNothing DEF Reloaded, Fresh
<1>10. CASE Grown
  <2>1. /\ \A k \in DOMAIN log : log'[k] = log[k]
        /\ revision' = revision /\ crossed' = crossed /\ undoStack' = undoStack
    BY <1>10, GrownPlaces DEF Grown
  <2> QED
    BY <2>1, FreshKept
<1>11. CASE Halted
  BY <1>11, FreshKept DEF Halted, serverVars
<1> QED
  BY <1>3, <1>4, <1>5, <1>7, <1>8, <1>9, <1>10, <1>11, Steps


-----------------------------------------------------------------------------
(* Redo: after two undos the second operation is too late. *)

\* What is applied is written.
LEMMA AppliedHolds ==
  ASSUME NEW doc \in Sheets, NEW m \in Mutation, InBounds(doc, m)
  PROVE  Holds(Applied(doc, m), m)
<1>1. SUFFICES ASSUME m.kind # "delete"
               PROVE  m.at \in DOMAIN Applied(doc, m) /\ Applied(doc, m)[m.at] = m.cell
  BY DEF Holds
<1>2. doc \in Document /\ Len(doc) \in Nat
  BY RowsOf DEF Sheets
<1>3. m.kind \in {"set", "insert"}
  BY <1>1 DEF Mutation
<1>4. m.at \in 1 .. Len(doc) + Growth(m) /\ Growth(m) # -1
  <2>1. m.kind = "set" => m.at \in 1 .. Len(doc)
    BY DEF InBounds
  <2>2. m.kind = "insert" => m.at \in 1 .. Len(doc) + 1
    BY DEF InBounds
  <2> QED
    BY <1>3, <2>1, <2>2 DEF Growth
<1>5. /\ Applied(doc, m) \in Document
      /\ Len(Applied(doc, m)) = Len(doc) + Growth(m)
      /\ \A k \in Int : 1 <= k /\ k <= Len(doc) + Growth(m) =>
           Applied(doc, m)[k] = IF k < m.at THEN doc[k]
                                ELSE IF k = m.at /\ Growth(m) # -1 THEN m.cell
                                ELSE doc[k - Growth(m)]
  BY <1>2, AppliedRows
<1>6. m.at \in DOMAIN Applied(doc, m)
  BY <1>4, <1>5, RowsOf
<1>7. Applied(doc, m)[m.at] = m.cell
  BY <1>2, <1>4, <1>5 DEF Growth
<1> QED
  BY <1>6, <1>7

\* A row that a change does not write is found after it where the change moves it.
LEMMA RowsFollow ==
  ASSUME NEW doc \in Sheets, NEW c \in Mutation, InBounds(doc, c),
         NEW i \in DOMAIN doc, c.kind = "insert" \/ i # c.at
  PROVE  RowAfter(i, c) \in DOMAIN Applied(doc, c) /\ Applied(doc, c)[RowAfter(i, c)] = doc[i]
<1>1. doc \in Document /\ Len(doc) \in Nat /\ DOMAIN doc = 1 .. Len(doc)
  BY RowsOf DEF Sheets
<1>2. /\ Applied(doc, c) \in Document
      /\ Len(Applied(doc, c)) = Len(doc) + Growth(c)
      /\ \A k \in Int : 1 <= k /\ k <= Len(doc) + Growth(c) =>
           Applied(doc, c)[k] = IF k < c.at THEN doc[k]
                                ELSE IF k = c.at /\ Growth(c) # -1 THEN c.cell
                                ELSE doc[k - Growth(c)]
  BY <1>1, AppliedRows
<1>3. DOMAIN Applied(doc, c) = 1 .. Len(doc) + Growth(c)
  BY <1>2, RowsOf
<1>4. c.at \in Nat /\ i \in 1 .. Len(doc)
  BY <1>1 DEF Mutation
<1>5. CASE i < c.at
  <2>1. RowAfter(i, c) = i
    BY <1>4, <1>5 DEF RowAfter, Mutation
  <2>2. i \in 1 .. Len(doc) + Growth(c)
    <3>1. CASE c.kind = "delete"
      <4>1. c.at \in 1 .. Len(doc) /\ Growth(c) = -1
        BY <3>1 DEF InBounds, Growth
      <4> QED
        BY <1>1, <1>4, <1>5, <4>1
    <3>2. CASE c.kind # "delete"
      <4>1. Growth(c) \in {0, 1}
        BY <3>2 DEF Growth, Mutation
      <4> QED
        BY <1>1, <1>4, <4>1
    <3> QED
      BY <3>1, <3>2
  <2> QED
    BY <1>2, <1>3, <1>5, <2>1, <2>2
<1>6. CASE ~ (i < c.at)
  <2>1. PICK k \in Int : k = i + Growth(c)
    BY <1>4 DEF Growth
  <2>2. RowAfter(i, c) = k
    <3>1. c.kind \in {"set", "insert", "delete"}
      BY DEF Mutation
    <3> QED
      BY <1>4, <1>6, <2>1, <3>1 DEF RowAfter, Growth
  <2>3. k - Growth(c) = i /\ ~ (k < c.at) /\ ~ (k = c.at /\ Growth(c) # -1)
    BY <1>4, <1>6, <2>1 DEF Growth
  <2>4. 1 <= k /\ k <= Len(doc) + Growth(c)
    BY <1>1, <1>4, <1>6, <2>1 DEF Growth, Mutation
  <2>5. Applied(doc, c)[k] = doc[i]
    BY <1>2, <2>3, <2>4
  <2>6. k \in DOMAIN Applied(doc, c)
    BY <1>1, <1>3, <2>4 DEF Growth
  <2> QED
    BY <2>2, <2>5, <2>6
<1> QED
  BY <1>5, <1>6

LEMMA HoldsMoves ==
  ASSUME NEW doc \in Sheets, NEW c \in Mutation, InBounds(doc, c),
         NEW m \in Mutation, Holds(doc, m), c.kind = "insert" \/ ~ SameRow(m, c)
  PROVE  Holds(Applied(doc, c), Rebased(m, c))
<1>1. /\ Rebased(m, c).kind = m.kind /\ Rebased(m, c).at = RowAfter(m.at, c)
      /\ Rebased(m, c).cell = m.cell
  BY RebasedFields
<1>2. c.kind = "insert" \/ m.at # c.at
  BY DEF SameRow
<1> QED
  BY <1>1, <1>2, RowsFollow DEF Holds

LastOp(q, l) ==
  IF q # <<>> THEN q[Len(q)].op ELSE IF l # <<>> THEN l[Len(l)].op ELSE 0

\* While something is to be done again the latest operation is an undo, of which
\* the undo stack has no entry: the next undo is too late.
Parted ==
  \/ Hopeless(queue, log)
  \/ redoStack = <<>>
  \/ \A e \in Members(undoStack) : e.op # LastOp(queue, log)

LEMMA PartedIsLate ==
  ASSUME Typed, Own, NEW m, NEW undoes, Enqueued(m, undoes),
         undoes # 0, undoes # LastOp(queue, log)
  PROVE  Hopeless(queue', log')
<1>1. log' = log
  BY DEF Enqueued, serverVars
<1>2. PICK n \in Nat : n = Len(queue)
  BY TypedPlaces
<1>3. n + 1 \in DOMAIN queue' /\ queue'[n + 1].undoes = undoes /\ queue'[n + 1].op = nextOp
  BY <1>2, EnqueuedPlaces
<1>4. CASE queue # <<>>
  <2>1. n \in DOMAIN queue /\ n + 1 # 1
    BY <1>2, <1>4, TypedPlaces
  <2>2. queue'[n + 1 - 1].op # undoes
    <3>1. n + 1 - 1 = n
      OBVIOUS
    <3>2. queue'[n] = queue[n]
      BY <2>1, EnqueuedPlaces
    <3> QED
      BY <1>2, <1>4, <3>1, <3>2 DEF LastOp
  <2> QED
    BY <1>3, <2>1, <2>2 DEF Hopeless, Late
<1>5. CASE queue = <<>>
  <2>1. n + 1 = 1
    BY <1>2, <1>5, EnqueuedPlaces
  <2>2. log # <<>> => log[Len(log)].op # undoes
    BY <1>5 DEF LastOp
  <2>3. \A k \in DOMAIN log : log[k].op # nextOp
    <3>1. \A k \in DOMAIN log : log[k].op < nextOp
      BY DEF Own, NumbersAreNew
    <3> QED
      BY <3>1, TypedPlaces
  <2> QED
    BY <1>1, <1>3, <2>1, <2>2, <2>3 DEF Hopeless, Late
<1> QED
  BY <1>4, <1>5


\* Marking and moving entries leaves the names of their operations.
LEMMA OpsOfMembers ==
  ASSUME Typed, NEW s,
         \/ revision < Len(log) /\ s = Marked(undoStack)
         \/ \E c : Thinned(undoStack, s, c)
  PROVE  \A f \in Members(s) : \E e \in Members(undoStack) : f.op = e.op
<1>1. Entry(undoStack)
  BY DEF Typed, HistoryTyped
<1> QED
  BY <1>1, MembersMarked, MembersThinned DEF MarkedItem, MovedItem

LEMMA RedoableSteps ==
  ASSUME Typed, Own, Waiting, Opposed, Linked, Redoable, Parted, [Next]_vars
  PROVE  Redoable'
<1>1. Entry(undoStack) /\ Entry(redoStack)
  BY DEF Typed, HistoryTyped
<1>2. rows \in Sheets
  BY DEF Typed, PageTyped
<1>3. CASE Executed
  BY <1>3, EmptyEntry DEF Executed, Redoable
<1>4. CASE Undone
  <2>1. PICK e \in Item :
          /\ undoStack # <<>> /\ e = Top(undoStack)
          /\ Enqueued(e.inverse, e.op)
          /\ redoStack' = Append(redoStack, e)
    BY <1>4 DEF Undone
  <2>2. e \in Members(undoStack) /\ e.m.at = e.inverse.at /\ Opposite(e)
    BY <1>1, <2>1, MembersPopped, MembersTyped DEF Opposed, AllOpposite
  <2>3. CASE Hopeless(queue, log)
    BY <2>1, <2>3, StaysHopeless DEF Redoable
  <2>4. CASE redoStack = <<>>
    <3>1. rows' = Applied(rows, e.inverse) /\ InBounds(rows, e.inverse)
      BY <2>1 DEF Enqueued
    <3>2. Holds(rows', e.inverse)
      BY <1>2, <3>1, AppliedHolds DEF Item
    <3>3. PICK s : s = redoStack'
      OBVIOUS
    <3>4. Len(s) = 1 /\ s[1] = e
      BY <1>1, <2>1, <2>2, <2>4, <3>3, AppendedEntry
    <3>5. Top(s) = e
      BY <3>4 DEF Top
    <3> QED
      BY <3>2, <3>3, <3>4, <3>5 DEF Redoable
  <2>5. CASE e.op # LastOp(queue, log)
    <3>1. e.op # 0
      BY EditingAssumption DEF Item, Ops
    <3> QED
      BY <2>1, <2>5, <3>1, PartedIsLate DEF Redoable
  <2> QED
    BY <2>2, <2>3, <2>4, <2>5 DEF Parted
<1>5. CASE Redone
  <2>1. PICK e \in Item :
          redoStack # <<>> /\ Enqueued(e.m, 0) /\ redoStack' = Popped(redoStack)
    BY <1>5 DEF Redone
  <2>2. CASE Hopeless(queue, log)
    BY <2>1, <2>2, StaysHopeless DEF Redoable
  <2>3. CASE Len(redoStack) <= 1
    <3>1. PICK s : s = redoStack'
      OBVIOUS
    <3>2. Entry(s) /\ Len(s) = Len(redoStack) - 1 /\ Len(redoStack) \in Nat \ {0}
      BY <1>1, <2>1, <3>1, TopOf
    <3>3. Len(s) = 0 /\ s = <<>>
      BY <2>3, <3>2, EmptySeq DEF Entry
    <3> QED
      BY <3>1, <3>3 DEF Redoable
  <2> QED
    BY <2>2, <2>3 DEF Redoable
<1>6. CASE Acknowledged
  <2>1. OwnReceived /\ redoStack' = Marked(redoStack)
    BY <1>6 DEF Acknowledged
  <2>2. revision < Len(log) /\ rows' = rows
    BY <2>1 DEF OwnReceived
  <2>3. CASE Hopeless(queue, log)
    BY <2>1, <2>3, StaysHopeless DEF Redoable
  <2>4. CASE Len(redoStack) <= 1 /\ (redoStack # <<>> => Holds(rows, Top(redoStack).inverse))
    <3>1. PICK s : s = redoStack'
      OBVIOUS
    <3>2. /\ Entry(s) /\ Len(s) = Len(redoStack) /\ DOMAIN s = DOMAIN redoStack
          /\ \A i \in DOMAIN redoStack : MarkedItem(redoStack[i], s[i])
      BY <1>1, <2>1, <2>2, <3>1, MarkedProperties
    <3>3. ASSUME s # <<>> PROVE Holds(rows, Top(s).inverse)
      <4>1. Len(s) \in DOMAIN s /\ Len(s) # 0
        BY <3>2, <3>3, EntryPlaces, EmptySeq DEF Entry
      <4>2. redoStack # <<>>
        BY <3>2, <4>1
      <4>3. MarkedItem(Top(redoStack), Top(s))
        BY <3>2, <4>1 DEF Top
      <4> QED
        BY <2>4, <4>2, <4>3 DEF MarkedItem
    <3> QED
      BY <2>2, <2>4, <3>1, <3>2, <3>3 DEF Redoable
  <2> QED
    BY <2>3, <2>4 DEF Redoable
<1>7. CASE Received
  <2>1. PICK c \in Mutation : OtherReceived(c) /\ Thinned(redoStack, redoStack', c)
    BY <1>7 DEF Received
  <2>2. CASE Hopeless(queue, log)
    BY <2>1, <2>2, StaysHopeless DEF Redoable
  <2>3. CASE Len(redoStack) <= 1 /\ (redoStack # <<>> => Holds(rows, Top(redoStack).inverse))
    <3>1. PICK s : s = redoStack'
      OBVIOUS
    <3>2. /\ Entry(s) /\ Len(s) <= Len(redoStack)
          /\ \A f \in Members(s) :
               \E e \in Members(redoStack) : Survives(e, c) /\ MovedItem(e, f, c)
      BY <2>1, <3>1, MembersThinned DEF Thinned
    <3>3. Len(s) \in Nat /\ Len(redoStack) \in Nat /\ DOMAIN redoStack = 1 .. Len(redoStack)
      BY <1>1, <3>2, EntryPlaces
    <3>4. ASSUME s # <<>> PROVE Holds(rows', Top(s).inverse)
      <4>1. Top(s) \in Members(s)
        BY <3>2, <3>4, MembersPopped
      <4>2. PICK e \in Members(redoStack) : Survives(e, c) /\ MovedItem(e, Top(s), c)
        BY <3>2, <4>1
      <4>3. e = Top(redoStack) /\ redoStack # <<>>
        BY <2>3, <3>3 DEF Members, Top
      <4>4. e.inverse \in Mutation /\ e.m.at = e.inverse.at
        BY <1>1, MembersTyped DEF Item
      <4>5. InBounds(rows, c) /\ rows' = Applied(rows, c)
        BY <2>1 DEF OtherReceived
      <4> QED
        BY <1>2, <2>3, <4>2, <4>3, <4>4, <4>5, HoldsMoves DEF Survives, SameRow, MovedItem
    <3>5. Len(s) <= 1
      BY <2>3, <3>2, <3>3
    <3> QED
      BY <3>1, <3>4, <3>5 DEF Redoable
  <2> QED
    BY <2>2, <2>3 DEF Redoable
<1>8. CASE Reloaded
  BY <1>8, EmptyEntry DEF Reloaded, Redoable
<1>9. CASE Grown
  <2>1. rows' = rows /\ redoStack' = redoStack
    BY <1>9, GrownPlaces DEF Grown
  <2> QED
    BY <1>9, <2>1, StaysHopeless DEF Redoable
<1>10. CASE Halted
  <2>1. rows' = rows /\ redoStack' = redoStack
    BY <1>10 DEF Halted
  <2> QED
    BY <1>10, <2>1, StaysHopeless DEF Redoable
<1> QED
  BY <1>3, <1>4, <1>5, <1>6, <1>7, <1>8, <1>9, <1>10, Steps

LEMMA PartedSteps ==
  ASSUME Typed, Own, Waiting, Linked, Redoable, Parted, [Next]_vars
  PROVE  Parted'
<1>1. Entry(undoStack) /\ Entry(redoStack)
  BY DEF Typed, HistoryTyped
<1>2. \A e \in Members(undoStack) : e.op # 0 /\ e.op # nextOp
  <2>1. \A i \in DOMAIN undoStack : undoStack[i].op \in Nat \ {0} /\ undoStack[i].op < nextOp
    BY <1>1, EntryPlaces DEF Linked, EntriesAreOld, Old
  <2> QED
    BY <2>1, TypedPlaces DEF Members
<1>3. CASE Executed
  BY <1>3 DEF Executed, Parted
<1>4. CASE Undone
  <2>1. PICK e \in Item :
          undoStack # <<>> /\ Enqueued(e.inverse, e.op) /\ undoStack' = Popped(undoStack)
    BY <1>4 DEF Undone
  <2>2. Members(undoStack') \subseteq Members(undoStack)
    BY <1>1, <2>1, MembersPopped
  <2>3. LastOp(queue', log') = nextOp
    BY <2>1, EnqueuedPlaces DEF LastOp
  <2> QED
    BY <1>2, <2>2, <2>3 DEF Parted
<1>5. CASE Redone
  <2>1. PICK e \in Item :
          redoStack # <<>> /\ Enqueued(e.m, 0) /\ redoStack' = Popped(redoStack)
    BY <1>5 DEF Redone
  <2>2. CASE Hopeless(queue, log)
    BY <2>1, <2>2, StaysHopeless DEF Parted
  <2>3. CASE Len(redoStack) <= 1
    <3>1. PICK s : s = redoStack'
      OBVIOUS
    <3>2. Entry(s) /\ Len(s) = Len(redoStack) - 1 /\ Len(redoStack) \in Nat \ {0}
      BY <1>1, <2>1, <3>1, TopOf
    <3>3. s = <<>>
      BY <2>3, <3>2, EmptySeq DEF Entry
    <3> QED
      BY <3>1, <3>3 DEF Parted
  <2> QED
    BY <2>2, <2>3 DEF Redoable
<1>6. CASE Acknowledged
  <2>1. /\ OwnReceived
        /\ undoStack' = Marked(undoStack) /\ redoStack' = Marked(redoStack)
    BY <1>6 DEF Acknowledged
  <2>2. /\ revision < Len(log) /\ log' = log /\ queue # <<>>
        /\ queue' \in Seq(Queued) /\ Len(queue') = Len(queue) - 1
        /\ \A i \in DOMAIN queue' : queue'[i].op = queue[i + 1].op
    BY <2>1 DEF OwnReceived, serverVars
  <2>3. CASE Hopeless(queue, log)
    BY <2>1, <2>3, StaysHopeless DEF Parted
  <2>4. CASE redoStack = <<>>
    <3>1. PICK s : s = redoStack'
      OBVIOUS
    <3>2. Entry(s) /\ Len(s) = 0
      BY <1>1, <2>1, <2>2, <2>4, <3>1, MarkedProperties, EmptyEntry
    <3>3. s = <<>>
      BY <3>2, EmptySeq DEF Entry
    <3> QED
      BY <3>1, <3>3 DEF Parted
  <2>5. ASSUME \A e \in Members(undoStack) : e.op # LastOp(queue, log)
        PROVE  \A f \in Members(undoStack') : f.op # LastOp(queue', log')
    <3>1. SUFFICES ASSUME NEW e \in Members(undoStack) PROVE e.op # LastOp(queue', log')
      BY <2>1, <2>2, OpsOfMembers
    <3>2. e.op # queue[Len(queue)].op /\ e.op # 0
      BY <1>2, <2>2, <2>5 DEF LastOp
    <3>3. CASE queue' # <<>>
      <4>1. Len(queue') \in DOMAIN queue' /\ Len(queue') + 1 = Len(queue)
        BY <2>2, <3>3, TypedPlaces, Places
      <4> QED
        BY <2>2, <3>2, <3>3, <4>1 DEF LastOp
    <3>4. CASE queue' = <<>>
      <4>1. Len(queue') = 0 /\ Len(queue) = 1
        BY <2>2, <3>4, TypedPlaces
      <4>2. Len(log) \in DOMAIN log /\ Len(log) > revision /\ log # <<>>
        BY <2>2, TypedPlaces
      <4>3. log[Len(log)].op \in {0, queue[1].op}
        BY <4>2 DEF Own, OwnAhead
      <4> QED
        BY <2>2, <3>2, <3>4, <4>1, <4>2, <4>3 DEF LastOp
    <3> QED
      BY <3>3, <3>4
  <2> QED
    BY <2>3, <2>4, <2>5 DEF Parted
<1>7. CASE Received
  <2>1. PICK c \in Mutation :
          /\ OtherReceived(c)
          /\ Thinned(undoStack, undoStack', c) /\ Thinned(redoStack, redoStack', c)
    BY <1>7 DEF Received
  <2>2. CASE Hopeless(queue, log)
    BY <2>1, <2>2, StaysHopeless DEF Parted
  <2>3. CASE redoStack = <<>>
    <3>1. PICK s : s = redoStack'
      OBVIOUS
    <3>2. Entry(s) /\ Len(s) <= 0 /\ Len(s) \in Nat
      BY <2>1, <2>3, <3>1, EmptyEntry, EntryPlaces DEF Thinned
    <3>3. s = <<>>
      BY <3>2, EmptySeq DEF Entry
    <3> QED
      BY <3>1, <3>3 DEF Parted
  <2>4. ASSUME \A e \in Members(undoStack) : e.op # LastOp(queue, log)
        PROVE  \A f \in Members(undoStack') : f.op # LastOp(queue', log')
    <3>1. LastOp(queue', log') = LastOp(queue, log)
      <4>1. /\ log' = log /\ queue' \in Seq(Queued) /\ Len(queue') = Len(queue)
            /\ DOMAIN queue' = DOMAIN queue
            /\ \A i \in DOMAIN queue : queue'[i].op = queue[i].op
        BY <2>1 DEF OtherReceived, serverVars
      <4>2. queue' # <<>> <=> queue # <<>>
        BY <4>1, Places, TypedPlaces
      <4>3. queue # <<>> => Len(queue) \in DOMAIN queue
        BY TypedPlaces
      <4> QED
        BY <4>1, <4>2, <4>3 DEF LastOp
    <3> QED
      BY <2>1, <2>4, <3>1, OpsOfMembers
  <2> QED
    BY <2>2, <2>3, <2>4 DEF Parted
<1>8. CASE Reloaded
  BY <1>8 DEF Reloaded, Parted
<1>9. CASE Grown
  <2>1. PICK r \in Row : LogGrows(r) /\ (OwnCommitted(r) \/ r.op = 0)
    BY <1>9 DEF Grown
  <2>2. undoStack' = undoStack /\ redoStack' = redoStack
    BY <1>9 DEF Grown
  <2>3. /\ queue' = queue /\ Len(log') = Len(log) + 1 /\ log'[Len(log) + 1] = r
    BY <2>1, GrownPlaces
  <2>4. LastOp(queue', log') = LastOp(queue, log) \/ LastOp(queue', log') = 0
    <3>1. CASE queue # <<>>
      BY <2>3, <3>1 DEF LastOp
    <3>2. CASE queue = <<>>
      <4>1. log'[Len(log')].op = 0
        BY <2>1, <2>3, <3>2 DEF OwnCommitted
      <4> QED
        BY <2>3, <3>2, <4>1 DEF LastOp
    <3> QED
      BY <3>1, <3>2
  <2> QED
    BY <1>2, <1>9, <2>2, <2>4, StaysHopeless DEF Parted
<1>10. CASE Halted
  <2>1. /\ undoStack' = undoStack /\ redoStack' = redoStack /\ queue' = queue /\ log' = log
    BY <1>10 DEF Halted, serverVars
  <2> QED
    BY <2>1 DEF Parted
<1> QED
  BY <1>3, <1>4, <1>5, <1>6, <1>7, <1>8, <1>9, <1>10, Steps


-----------------------------------------------------------------------------
(* The undo at the head of the queue. *)

\* An undo of what was acknowledged names a revision the page has received.
TargetsReceived ==
  \A i \in DOMAIN queue :
    queue[i].undoes # 0 /\ ~ queue[i].draft =>
      \E k \in 1 .. revision : log[k].op = queue[i].undoes

\* The operation at the head of the queue undoes the latest revision, that was
\* acknowledged by then.
UndoesLatest ==
  /\ queue # <<>> /\ log # <<>>
  /\ queue[1].undoes # 0 /\ ~ queue[1].draft
  /\ log[Len(log)].op = queue[1].undoes

HeadUndoes ==
  UndoesLatest =>
    /\ queue[1].base = Len(log) /\ log[Len(log)].base = queue[1].undoesBase
    /\ \/ crossed
       \/ /\ ~ log[Len(log)].astray
          /\ queue[1].m = TakenBack(log[Len(log)].m, log[Len(log)].aim)

\* Nothing was committed since.
LEMMA LatestIsReceived ==
  ASSUME Typed, Own, TargetsReceived, UndoesLatest
  PROVE  revision = Len(log)
<1>1. 1 \in DOMAIN queue
  BY TypedPlaces DEF UndoesLatest
<1>2. PICK k \in 1 .. revision : log[k].op = queue[1].undoes
  BY <1>1 DEF TargetsReceived, UndoesLatest
<1>3. PICK n \in Nat : n = Len(log)
  BY TypedPlaces
<1>4. DOMAIN log = 1 .. n /\ revision \in Nat /\ revision <= n
  BY <1>3, TypedPlaces
<1>5. k \in DOMAIN log /\ n \in DOMAIN log
  BY <1>4
<1>6. k = n
  BY <1>2, <1>3, <1>5 DEF UndoesLatest, Own, CommittedOnce
<1>7. n = revision
  BY <1>4, <1>6
<1> QED
  BY <1>3, <1>7

LEMMA TargetsEnqueued ==
  ASSUME Typed, TargetsReceived, NEW m, NEW undoes, Enqueued(m, undoes),
         undoes # 0 /\ ~ queue'[Len(queue) + 1].draft =>
           \E k \in 1 .. revision : log[k].op = undoes
  PROVE  TargetsReceived'
<1>1. log' = log /\ revision' = revision
  BY DEF Enqueued, serverVars
<1> QED
  BY <1>1, EnqueuedPlaces DEF TargetsReceived

LEMMA TargetsSteps ==
  ASSUME Typed, Own, Known, TargetsReceived, [Next]_vars
  PROVE  TargetsReceived'
<1>1. CASE Executed
  BY <1>1, TargetsEnqueued DEF Executed
<1>2. CASE Undone
  <2>1. PICK e \in Item :
          /\ undoStack # <<>> /\ e = Top(undoStack)
          /\ Enqueued(e.inverse, e.op)
          /\ queue'[Len(queue) + 1].draft = (e.committed = 0)
    BY <1>2 DEF Undone
  <2>2. ASSUME e.committed # 0 PROVE \E k \in 1 .. revision : log[k].op = e.op
    <3>1. Len(undoStack) \in DOMAIN undoStack /\ e = undoStack[Len(undoStack)]
      <4>1. Entry(undoStack)
        BY DEF Typed, HistoryTyped
      <4>2. Len(undoStack) \in Nat \ {0} /\ Top(undoStack) = undoStack[Len(undoStack)]
        BY <2>1, <4>1, TopOf
      <4> QED
        BY <2>1, <4>1, <4>2, EntryPlaces
    <3>2. e.committed <= revision /\ log[e.committed].op = e.op
      BY <2>2, <3>1 DEF Known, AllKnownIn, KnownIn
    <3>3. e.committed \in 1 .. revision
      BY <2>2, <3>2, TypedPlaces DEF Item
    <3> QED
      BY <3>2, <3>3
  <2> QED
    BY <2>1, <2>2, TargetsEnqueued
<1>3. CASE Redone
  BY <1>3, TargetsEnqueued DEF Redone
<1>4. CASE Acknowledged
  <2>1. /\ log' = log /\ revision' = revision + 1
        /\ \A i \in DOMAIN queue' :
             /\ i + 1 \in DOMAIN queue
             /\ queue'[i].undoes = queue[i + 1].undoes
             /\ queue'[i].draft = queue[i + 1].draft
    BY <1>4 DEF Acknowledged, OwnReceived, serverVars
  <2>2. \A k \in 1 .. revision : k \in 1 .. revision'
    BY <2>1, TypedPlaces
  <2> QED
    BY <2>1, <2>2 DEF TargetsReceived
<1>5. CASE Received
  <2>1. /\ log' = log /\ revision' = revision + 1 /\ DOMAIN queue' = DOMAIN queue
        /\ \A i \in DOMAIN queue :
             queue'[i].undoes = queue[i].undoes /\ queue'[i].draft = queue[i].draft
    BY <1>5 DEF Received, OtherReceived, serverVars
  <2>2. \A k \in 1 .. revision : k \in 1 .. revision'
    BY <2>1, TypedPlaces
  <2> QED
    BY <2>1, <2>2 DEF TargetsReceived
<1>6. CASE Reloaded
  <2>1. DOMAIN queue' = {}
    BY <1>6 DEF Reloaded
  <2> QED
    BY <2>1 DEF TargetsReceived
<1>7. CASE Grown
  <2>1. queue' = queue /\ revision' = revision /\ \A k \in DOMAIN log : log'[k] = log[k]
    BY <1>7, GrownPlaces DEF Grown
  <2>2. \A k \in 1 .. revision : k \in DOMAIN log
    BY TypedPlaces
  <2> QED
    BY <2>1, <2>2 DEF TargetsReceived
<1>8. CASE Halted
  BY <1>8 DEF Halted, serverVars, TargetsReceived
<1> QED
  BY <1>1, <1>2, <1>3, <1>4, <1>5, <1>6, <1>7, <1>8, Steps

\* Behind another operation the head does not change.
LEMMA HeadEnqueued ==
  ASSUME Typed, HeadUndoes, NEW m, NEW undoes, Enqueued(m, undoes),
         queue # <<>> \/ undoes = 0
  PROVE  HeadUndoes'
<1>1. log' = log /\ crossed' = crossed
  BY DEF Enqueued, serverVars
<1>2. CASE queue # <<>>
  <2>1. queue'[1] = queue[1]
    BY <1>2, EnqueuedPlaces
  <2> QED
    BY <1>1, <1>2, <2>1 DEF HeadUndoes, UndoesLatest
<1>3. CASE queue = <<>> /\ undoes = 0
  <2>1. queue'[1].undoes = 0
    <3>1. Len(queue) + 1 = 1
      BY <1>3, EnqueuedPlaces
    <3>2. queue'[Len(queue) + 1].undoes = undoes
      BY EnqueuedPlaces
    <3> QED
      BY <1>3, <3>1, <3>2
  <2> QED
    BY <2>1 DEF HeadUndoes, UndoesLatest
<1> QED
  BY <1>2, <1>3

LEMMA HeadUndoesSteps ==
  ASSUME Typed, Own, Known, Fresh, TargetsReceived, HeadUndoes, [Next]_vars,
         TargetsReceived'
  PROVE  HeadUndoes'
<1>1. CASE Executed
  BY <1>1, HeadEnqueued DEF Executed
<1>2. CASE Undone
  <2>1. PICK e \in Item :
          /\ undoStack # <<>> /\ e = Top(undoStack)
          /\ Enqueued(e.inverse, e.op)
          /\ queue'[Len(queue) + 1].undoesBase = e.base
          /\ queue'[Len(queue) + 1].draft = (e.committed = 0)
    BY <1>2 DEF Undone
  <2>2. CASE queue # <<>>
    BY <2>1, <2>2, HeadEnqueued
  <2>3. CASE queue = <<>>
    <3>1. SUFFICES ASSUME UndoesLatest' PROVE HeadUndoes'
      BY DEF HeadUndoes
    <3>2. log' = log /\ crossed' = crossed /\ revision' = revision
      BY <2>1 DEF Enqueued, serverVars
    <3>3. /\ queue'[1].undoes = e.op /\ queue'[1].undoesBase = e.base
          /\ queue'[1].base = revision /\ queue'[1].m = e.inverse
          /\ queue'[1].draft = (e.committed = 0)
      <4>1. Len(queue) + 1 = 1
        BY <2>1, <2>3, EnqueuedPlaces
      <4>2. /\ queue'[Len(queue) + 1].undoes = e.op
            /\ queue'[Len(queue) + 1].base = revision
            /\ queue'[Len(queue) + 1].m = e.inverse
        BY <2>1, EnqueuedPlaces
      <4> QED
        BY <2>1, <4>1, <4>2
    <3>4. revision = Len(log)
      <4>1. 1 \in DOMAIN queue' /\ log # <<>>
        BY <2>1, <2>3, <3>1, <3>2, EnqueuedPlaces, TypedPlaces DEF UndoesLatest
      <4>2. PICK k \in 1 .. revision : log[k].op = log[Len(log)].op
        BY <3>1, <3>2, <4>1 DEF UndoesLatest, TargetsReceived
      <4>3. PICK n \in Nat : n = Len(log)
        BY TypedPlaces
      <4>4. DOMAIN log = 1 .. n /\ revision \in Nat /\ revision <= n
        BY <4>3, TypedPlaces
      <4>5. k \in DOMAIN log /\ n \in DOMAIN log
        BY <4>4
      <4>6. log[n].op # 0 /\ log[k].op = log[n].op
        BY <3>1, <3>2, <4>2, <4>3 DEF UndoesLatest
      <4>7. k = n
        BY <4>5, <4>6 DEF Own, CommittedOnce
      <4>8. n = revision
        BY <4>4, <4>7
      <4> QED
        BY <4>3, <4>8
    <3>5. e.committed # 0 /\ log # <<>> /\ log[Len(log)].op = e.op
      BY <3>1, <3>2, <3>3 DEF UndoesLatest
    <3>6. e \in Members(undoStack) /\ e.committed \in Nat
      <4>1. Entry(undoStack)
        BY DEF Typed, HistoryTyped
      <4> QED
        BY <2>1, <4>1, MembersPopped DEF Item
    <3>7. /\ e.committed <= revision
          /\ log[e.committed].op = e.op /\ log[e.committed].base = e.base
      BY <3>5, <3>6 DEF Known, AllKnownIn, KnownIn, Members
    <3>8. e.committed = Len(log)
      <4>1. e.committed \in DOMAIN log /\ Len(log) \in DOMAIN log
        BY <3>4, <3>5, <3>6, <3>7, TypedPlaces
      <4>2. e.op # 0
        BY EditingAssumption DEF Item, Ops
      <4> QED
        BY <3>5, <3>7, <4>1, <4>2 DEF Own, CommittedOnce
    <3>9. crossed \/ TakesBack(e, log[Len(log)])
      BY <3>4, <3>5, <3>6, <3>8 DEF Fresh
    <3> QED
      BY <3>2, <3>3, <3>4, <3>7, <3>8, <3>9 DEF HeadUndoes, TakesBack
  <2> QED
    BY <2>2, <2>3
<1>3. CASE Redone
  BY <1>3, HeadEnqueued DEF Redone
<1>4. CASE Acknowledged
  <2>1. SUFFICES ASSUME UndoesLatest' PROVE FALSE
    BY DEF HeadUndoes
  <2>2. /\ log' = log /\ revision < Len(log)
        /\ \A i \in DOMAIN queue' :
             /\ i + 1 \in DOMAIN queue
             /\ queue'[i].undoes = queue[i + 1].undoes
             /\ queue'[i].draft = queue[i + 1].draft
    BY <1>4 DEF Acknowledged, OwnReceived, serverVars
  <2>3. 1 \in DOMAIN queue'
    <3>1. queue' \in Seq(Queued)
      BY <1>4 DEF Acknowledged, OwnReceived
    <3> QED
      BY <2>1, <3>1, Places DEF UndoesLatest
  <2>4. PICK k \in 1 .. revision : log[k].op = log[Len(log)].op
    BY <2>1, <2>2, <2>3 DEF UndoesLatest, TargetsReceived
  <2>5. PICK n \in Nat : n = Len(log)
    BY TypedPlaces
  <2>6. k \in DOMAIN log /\ n \in DOMAIN log /\ k # n
    <3>1. DOMAIN log = 1 .. n /\ revision < n /\ revision \in Nat
      BY <2>2, <2>5, TypedPlaces
    <3> QED
      BY <3>1
  <2>7. log[n].op # 0 /\ log[k].op = log[n].op
    BY <2>1, <2>2, <2>4, <2>5 DEF UndoesLatest
  <2> QED
    BY <2>6, <2>7 DEF Own, CommittedOnce
<1>5. CASE Received
  <2>1. SUFFICES ASSUME UndoesLatest' PROVE FALSE
    BY DEF HeadUndoes
  <2>2. /\ log' = log /\ revision < Len(log) /\ DOMAIN queue' = DOMAIN queue
        /\ \A i \in DOMAIN queue :
             queue'[i].undoes = queue[i].undoes /\ queue'[i].draft = queue[i].draft
    BY <1>5 DEF Received, OtherReceived, serverVars
  <2>3. 1 \in DOMAIN queue
    BY <2>1, <2>2, TypedPlaces DEF UndoesLatest
  <2>4. UndoesLatest
    BY <2>1, <2>2, <2>3, TypedPlaces DEF UndoesLatest
  <2> QED
    BY <2>2, <2>4, LatestIsReceived, TypedPlaces
<1>6. CASE Reloaded
  BY <1>6 DEF Reloaded, HeadUndoes, UndoesLatest
<1>7. CASE Grown
  <2>1. SUFFICES ASSUME UndoesLatest' PROVE FALSE
    BY DEF HeadUndoes
  <2>2. PICK r \in Row : LogGrows(r) /\ (OwnCommitted(r) \/ r.op = 0)
    BY <1>7 DEF Grown
  <2>3. queue' = queue /\ log'[Len(log')] = r
    BY <2>2, GrownPlaces
  <2>4. r.op = queue[1].undoes /\ r.op # 0 /\ ~ queue[1].draft /\ 1 \in DOMAIN queue
    BY <2>1, <2>3, TypedPlaces DEF UndoesLatest
  <2>5. PICK k \in 1 .. revision : log[k].op = queue[1].undoes
    BY <2>4 DEF TargetsReceived
  <2>6. k \in DOMAIN log
    BY TypedPlaces
  <2> QED
    BY <2>2, <2>4, <2>5, <2>6 DEF OwnCommitted
<1>8. CASE Halted
  BY <1>8 DEF Halted, serverVars, HeadUndoes, UndoesLatest
<1> QED
  BY <1>1, <1>2, <1>3, <1>4, <1>5, <1>6, <1>7, <1>8, Steps


\* The server has no reason to refuse an undo of the latest revision.
LEMMA UndoneIsAccepted ==
  ASSUME Typed, Own, Latest, LandsWhereAimed, TargetsReceived, HeadUndoes,
         UndoesLatest, ~ crossed
  PROVE  Accepts(queue[1])
<1>1. PICK n \in Nat : n = Len(log)
  BY TypedPlaces
<1>2. PICK q \in Queued : q = queue[1]
  BY TypedPlaces DEF UndoesLatest
<1>3. PICK r \in Row : r = log[n]
  <2>1. n \in DOMAIN log
    <3>1. n # 0
      BY <1>1, EmptySeq DEF UndoesLatest, Typed, ServerTyped
    <3> QED
      BY <1>1, <3>1, TypedPlaces
  <2> QED
    BY <2>1, TypedPlaces
<1>4. /\ q.base = n /\ r.base = q.undoesBase /\ ~ r.astray
      /\ q.m = TakenBack(r.m, r.aim) /\ r.op = q.undoes /\ log # <<>>
  BY <1>1, <1>2, <1>3 DEF HeadUndoes, UndoesLatest
<1>5. /\ InBounds(before, r.m) /\ sheet = Applied(before, r.m)
      /\ r.hit = Under(before, r.m)
  BY <1>1, <1>3, <1>4 DEF Latest
<1>6. r.aim = r.hit
  <2>1. n \in DOMAIN log
    <3>1. n # 0
      BY <1>1, <1>4, EmptySeq DEF Typed, ServerTyped
    <3> QED
      BY <1>1, <3>1, TypedPlaces
  <2> QED
    BY <1>3, <1>4, <2>1 DEF LandsWhereAimed
<1>7. q.m = Inverted(before, r.m)
  BY <1>4, <1>5, <1>6, InvertedIs
<1>8. before \in Document /\ Len(before) > 0 /\ r.m \in Mutation
  BY DEF Typed, ServerTyped, Sheets, Row
<1>9. InBounds(sheet, q.m) /\ Applied(sheet, q.m) = before
  BY <1>5, <1>7, <1>8, InverseRestores
<1>10. UndoAllowed(q)
  BY <1>1, <1>3, <1>4, <1>9 DEF UndoAllowed
<1>11. Disjoint(q)
  <2>1. q.base + 1 .. Len(log) = {}
    BY <1>1, <1>4
  <2> QED
    BY <2>1 DEF Disjoint
<1>12. q.base <= Len(log) /\ (Moves(q.m) => q.base = Len(log))
  BY <1>1, <1>4
<1> QED
  BY <1>2, <1>9, <1>10, <1>11, <1>12 DEF Accepts

\* An undo of the latest revision that was refused.
RefusedUndo == refused /\ ~ crossed /\ UndoesLatest

LEMMA RefusedUndoSteps ==
  ASSUME Typed, Own, Latest, LandsWhereAimed, TargetsReceived, HeadUndoes,
         ~ RefusedUndo, [Next]_vars
  PROVE  ~ RefusedUndo'
<1>1. SUFFICES ASSUME refused', ~ crossed', UndoesLatest' PROVE FALSE
  BY DEF RefusedUndo
<1>2. refused => queue # <<>> /\ \A k \in DOMAIN log : log[k].op # queue[1].op
  BY DEF Own, RefusedHead
<1>3. ASSUME NEW m, NEW undoes, Enqueued(m, undoes) PROVE FALSE
  <2>1. log' = log /\ crossed' = crossed /\ refused' = refused
    BY <1>3 DEF Enqueued, serverVars
  <2>2. queue # <<>> /\ queue'[1] = queue[1]
    BY <1>1, <1>2, <1>3, <2>1, EnqueuedPlaces
  <2> QED
    BY <1>1, <2>1, <2>2 DEF RefusedUndo, UndoesLatest
<1>4. CASE Executed
  BY <1>3, <1>4 DEF Executed
<1>5. CASE Undone
  BY <1>3, <1>5 DEF Undone
<1>6. CASE Redone
  BY <1>3, <1>6 DEF Redone
<1>7. CASE Acknowledged
  <2>1. refused' = refused /\ revision' \in DOMAIN log /\ log[revision'].op = queue[1].op
    BY <1>7 DEF Acknowledged, OwnReceived
  <2> QED
    BY <1>1, <1>2, <2>1
<1>8. CASE Received
  <2>1. /\ log' = log /\ refused' = refused /\ (crossed => crossed')
        /\ \A i \in DOMAIN queue : i = 1 => queue'[i] = queue[i]
    BY <1>8 DEF Received, OtherReceived, serverVars
  <2>2. queue # <<>> /\ queue'[1] = queue[1]
    BY <1>1, <1>2, <2>1, TypedPlaces
  <2> QED
    BY <1>1, <2>1, <2>2 DEF RefusedUndo, UndoesLatest
<1>9. CASE Reloaded
  BY <1>1, <1>9 DEF Reloaded
<1>10. CASE Grown
  <2>1. PICK r \in Row : LogGrows(r) /\ (OwnCommitted(r) \/ r.op = 0)
    BY <1>10 DEF Grown
  <2>2. queue' = queue /\ refused' = refused /\ log'[Len(log')] = r
    BY <2>1, GrownPlaces
  <2>3. r.op = 0
    BY <1>1, <2>1, <2>2 DEF OwnCommitted
  <2> QED
    BY <1>1, <2>2, <2>3 DEF UndoesLatest
<1>11. CASE Halted
  <2>1. log' = log /\ queue' = queue /\ crossed' = crossed
    BY <1>11 DEF Halted, serverVars
  <2>2. UndoesLatest /\ ~ crossed
    BY <1>1, <2>1 DEF UndoesLatest
  <2>3. refused \/ ~ Accepts(queue[1])
    BY <1>1, <1>11 DEF Halted
  <2>4. ~ refused
    BY <2>2 DEF RefusedUndo
  <2> QED
    BY <2>2, <2>3, <2>4, UndoneIsAccepted
<1> QED
  BY <1>4, <1>5, <1>6, <1>7, <1>8, <1>9, <1>10, <1>11, Steps

\* What an undo rests on, from the operation to the answer of the server.
UndoInv ==
  /\ Opposed /\ Latest /\ Ahead /\ Matching /\ Fresh /\ Redoable /\ Parted
  /\ TargetsReceived /\ HeadUndoes /\ ~ RefusedUndo

LEMMA UndoStarts ==
  ASSUME Init
  PROVE  UndoInv
<1>1. /\ log = <<>> /\ queue = <<>> /\ undoStack = <<>> /\ redoStack = <<>>
      /\ refused = FALSE
  BY DEF Init, EditingInit
<1>2. DOMAIN log = {} /\ DOMAIN queue = {} /\ Len(redoStack) = 0
  BY <1>1
<1>3. Opposed /\ Fresh
  BY <1>1, MembersOfNothing DEF Opposed, AllOpposite, Fresh
<1>4. Latest /\ Ahead
  BY <1>1, <1>2 DEF Latest, Ahead
<1>5. Matching /\ Redoable /\ Parted
  BY <1>1, <1>2 DEF Matching, Redoable, Parted
<1>6. TargetsReceived /\ HeadUndoes /\ ~ RefusedUndo
  BY <1>1, <1>2 DEF TargetsReceived, HeadUndoes, UndoesLatest, RefusedUndo
<1> QED
  BY <1>3, <1>4, <1>5, <1>6 DEF UndoInv

LEMMA UndoInvSteps ==
  ASSUME IInv, UndoInv, [Next]_vars
  PROVE  UndoInv'
<1>1. Typed /\ Own /\ Waiting /\ Linked /\ Known /\ LandsWhereAimed
  BY DEF IInv
<1>2. /\ Opposed /\ Latest /\ Ahead /\ Matching /\ Fresh /\ Redoable /\ Parted
      /\ TargetsReceived /\ HeadUndoes /\ ~ RefusedUndo
  BY DEF UndoInv
<1>3. Opposed'
  BY <1>1, <1>2, OppositeSteps
<1>4. Latest' /\ Ahead'
  BY <1>1, <1>2, LatestSteps
<1>5. Matching' /\ Fresh'
  BY <1>1, <1>2, MatchingSteps, FreshSteps
<1>6. Redoable' /\ Parted'
  BY <1>1, <1>2, RedoableSteps, PartedSteps
<1>7. TargetsReceived'
  BY <1>1, <1>2, TargetsSteps
<1>8. HeadUndoes'
  BY <1>1, <1>2, <1>7, HeadUndoesSteps
<1>9. ~ RefusedUndo'
  BY <1>1, <1>2, RefusedUndoSteps
<1> QED
  BY <1>3, <1>4, <1>5, <1>6, <1>7, <1>8, <1>9 DEF UndoInv

\* The page and the server keep what the next theorem rests on: each entry takes
\* back its operation as it was made, or the operation will not be committed.
THEOREM UndosAreKnown == Spec => []UndoInv
<1>1. Init => UndoInv
  BY UndoStarts
<1>2. IInv /\ UndoInv /\ [Next]_vars => UndoInv'
  BY UndoInvSteps
<1> QED
  BY <1>1, <1>2, InvariantHolds, PTL DEF Spec

\* The server refuses no undo of the latest operation that was acknowledged
\* when it was undone, neither for its base nor for its result.
THEOREM LatestCanBeUndone == Spec => []LatestUndoAccepted
<1>1. IInv /\ UndoInv => LatestUndoAccepted
  <2> SUFFICES ASSUME IInv, UndoInv, refused, ~ crossed,
                      Head(queue).undoes # 0, ~ Head(queue).draft,
                      log[Len(log)].op = Head(queue).undoes
               PROVE  FALSE
    BY DEF LatestUndoAccepted
  <2>1. Typed /\ Own /\ TargetsReceived /\ ~ RefusedUndo
    BY DEF IInv, UndoInv
  <2>2. queue # <<>>
    BY <2>1 DEF Own, RefusedHead
  <2>3. Head(queue) = queue[1] /\ 1 \in DOMAIN queue
    BY <2>1, <2>2, HeadOfQueue
  <2>4. log # <<>>
    <3>1. PICK k \in 1 .. revision : log[k].op = queue[1].undoes
      BY <2>1, <2>3 DEF TargetsReceived
    <3>2. 0 < Len(log)
      BY <2>1, TypedPlaces
    <3> QED
      BY <3>2
  <2> QED
    BY <2>1, <2>2, <2>3, <2>4 DEF RefusedUndo, UndoesLatest
<1> QED
  BY <1>1, InvariantHolds, UndosAreKnown, PTL


-----------------------------------------------------------------------------
(* The documents that the entries of a stack go back to. *)

\* A mutation and its opposite on the same row, where the opposite left its
\* mark: the second gives what was before the first.
LEMMA Reversal ==
  ASSUME NEW doc \in Sheets, NEW x \in Mutation, NEW y \in Mutation,
         y.kind = Flipped(x.kind), y.at = x.at, InBounds(doc, x), Holds(doc, y)
  PROVE  InBounds(Applied(doc, x), y) /\ Applied(Applied(doc, x), y) = doc
<1>1. doc \in Document /\ Len(doc) > 0
  BY DEF Sheets
<1>2. PICK z \in Mutation : z = Inverted(doc, x)
  BY <1>1, InverseIsMutation
<1>3. InBounds(Applied(doc, x), z) /\ Applied(Applied(doc, x), z) = doc
  BY <1>1, <1>2, InverseRestores
<1>4. z.kind = y.kind /\ z.at = y.at /\ z.cell = Under(doc, x)
  BY <1>2, InvertedIs DEF TakenBack
<1>5. CASE y.kind = "delete"
  <2>1. y.kind = "delete" /\ z.kind = "delete" /\ y.at = z.at
    BY <1>4, <1>5
  <2>2. ASSUME NEW d PROVE (InBounds(d, y) <=> InBounds(d, z)) /\ Applied(d, y) = Applied(d, z)
    BY <2>1 DEF InBounds, Applied
  <2> QED
    BY <1>3, <2>2
<1>6. CASE y.kind # "delete"
  <2>1. x.kind # "insert"
    BY <1>6 DEF Flipped
  <2>2. z.cell = y.cell
    BY <1>4, <1>6, <2>1 DEF Holds, Under
  <2>3. z = y
    <3>1. /\ z = [kind |-> z.kind, at |-> z.at, cell |-> z.cell]
          /\ y = [kind |-> y.kind, at |-> y.at, cell |-> y.cell]
      BY DEF Mutation
    <3> QED
      BY <1>4, <2>2, <3>1
  <2> QED
    BY <1>3, <2>3
<1> QED
  BY <1>5, <1>6

\* A write and an insertion in its row.
LEMMA InsertionCommutes ==
  ASSUME NEW doc \in Sheets, NEW m \in Mutation, NEW c \in Mutation,
         m.kind = "set", c.kind = "insert", SameRow(m, c),
         InBounds(doc, m), InBounds(doc, c)
  PROVE  /\ InBounds(Applied(doc, m), c)
         /\ InBounds(Applied(doc, c), Rebased(m, c))
         /\ Applied(Applied(doc, c), Rebased(m, c)) = Applied(Applied(doc, m), c)
<1>1. doc \in Document
  BY DEF Sheets
<1>2. PICK n \in Nat : n = Len(doc)
  BY <1>1, RowsOf
<1>3. PICK a \in Nat \ {0} : a = m.at /\ a = c.at
  BY DEF Mutation, SameRow
<1>4. a \in 1 .. n
  BY <1>2, <1>3 DEF InBounds
<1>5. PICK r \in Mutation : r = Rebased(m, c)
  BY RebasedIsMutation
<1>6. r.kind = "set" /\ r.at = a + 1 /\ r.cell = m.cell
  <2>1. r.kind = m.kind /\ r.cell = m.cell /\ r.at = RowAfter(m.at, c)
    BY ONLY m \in Mutation, <1>5, RebasedFields
  <2>2. r.kind = "set" /\ r.at = RowAfter(a, c) /\ r.cell = m.cell
    BY ONLY <1>3, <2>1, m.kind = "set"
  <2> QED
    BY <1>3, <2>2 DEF RowAfter
<1>7. PICK x : x = Applied(doc, c)
  OBVIOUS
<1>8. /\ x \in Document /\ Len(x) = n + 1
      /\ \A k \in 1 .. n + 1 : x[k] = IF k < a THEN doc[k] ELSE IF k = a THEN c.cell ELSE doc[k - 1]
  BY <1>1, <1>2, <1>3, <1>7, InsertRows
<1>9. PICK y : y = Applied(doc, m)
  OBVIOUS
<1>10. /\ y \in Document /\ Len(y) = n
       /\ \A k \in 1 .. n : y[k] = IF k = a THEN m.cell ELSE doc[k]
  <2>1. /\ y \in Document /\ Len(y) = Len(doc)
        /\ \A k \in 1 .. Len(doc) : y[k] = IF k = m.at THEN m.cell ELSE doc[k]
    BY <1>1, <1>9, SetRows
  <2> QED
    BY <1>2, <1>3, <2>1
<1>11. InBounds(x, r)
  BY <1>4, <1>6, <1>8 DEF InBounds
<1>12. InBounds(y, c)
  BY <1>3, <1>4, <1>10 DEF InBounds
<1>13. PICK v : v = Applied(x, r)
  OBVIOUS
<1>14. PICK w : w = Applied(y, c)
  OBVIOUS
<1>15. /\ v \in Document /\ Len(v) = n + 1
       /\ \A k \in 1 .. n + 1 : v[k] = IF k = a + 1 THEN m.cell ELSE x[k]
  BY <1>6, <1>8, <1>11, <1>13, SetRows
<1>16. /\ w \in Document /\ Len(w) = n + 1
       /\ \A k \in 1 .. n + 1 :
            w[k] = IF k < a THEN y[k] ELSE IF k = a THEN c.cell ELSE y[k - 1]
  BY <1>3, <1>10, <1>12, <1>14, InsertRows
<1>17. ASSUME NEW k \in 1 .. n + 1 PROVE v[k] = w[k]
  <2>1. CASE k < a
    <3>1. k \in 1 .. n
      BY <1>4, <2>1
    <3> QED
      BY <1>8, <1>10, <1>15, <1>16, <2>1, <3>1
  <2>2. CASE k = a
    BY <1>8, <1>15, <1>16, <2>2
  <2>3. CASE k > a
    <3>1. k - 1 \in 1 .. n
      BY <1>4, <2>3
    <3>2. v[k] = IF k = a + 1 THEN m.cell ELSE doc[k - 1]
      BY <1>8, <1>15, <2>3
    <3>3. w[k] = y[k - 1]
      BY <1>16, <2>3
    <3>4. y[k - 1] = IF k - 1 = a THEN m.cell ELSE doc[k - 1]
      BY <1>10, <3>1
    <3> QED
      BY <3>2, <3>3, <3>4
  <2> QED
    BY <2>1, <2>2, <2>3
<1>18. v = w
  BY <1>15, <1>16, <1>17, RowsOf
<1> QED
  BY <1>5, <1>7, <1>9, <1>11, <1>12, <1>13, <1>14, <1>18

\* The changes of others under which an entry stays where its document is.
Passes(m, c) == Moves(m) => ~ Moves(c) /\ c.at < m.at

LEMMA PassesOver ==
  ASSUME NEW doc \in Sheets, NEW m \in Mutation, NEW c \in Mutation,
         InBounds(doc, m), InBounds(doc, c), Passes(m, c),
         c.kind = "insert" \/ ~ SameRow(m, c)
  PROVE  /\ InBounds(Applied(doc, m), c)
         /\ InBounds(Applied(doc, c), Rebased(m, c))
         /\ Applied(Applied(doc, c), Rebased(m, c)) = Applied(Applied(doc, m), c)
<1>1. CASE ~ Moves(c)
  <2>1. Rebased(m, c) = m
    BY <1>1 DEF Moves, Rebased, RowAfter, Mutation
  <2>2. ~ SameRow(m, c)
    BY <1>1 DEF Moves
  <2>3. ~ (Moves(m) /\ c.at > m.at)
    BY DEF Passes, Mutation
  <2> QED
    BY <1>1, <2>1, <2>2, <2>3, WriteCommutes
<1>2. CASE Moves(c) /\ ~ SameRow(m, c)
  <2>1. m.kind = "set"
    BY <1>2 DEF Passes, Moves
  <2>2. Rebased(c, m) = c
    BY <2>1 DEF Rebased, RowAfter, Mutation
  <2>3. doc \in Document
    BY DEF Sheets
  <2>4. InBounds(Applied(doc, m), c)
    BY <2>1, <2>3, SetRows, Bounds
  <2>5. ~ SameRow(c, m)
    BY <1>2 DEF SameRow
  <2> QED
    BY <2>1, <2>2, <2>3, <2>4, <2>5, RebaseCommutes
<1>3. CASE Moves(c) /\ SameRow(m, c)
  <2>1. m.kind = "set" /\ c.kind = "insert"
    BY <1>3 DEF Passes, Moves
  <2> QED
    BY <1>3, <2>1, InsertionCommutes
<1> QED
  BY <1>1, <1>2, <1>3

\* A write and a deletion of its row, or another write of it.
LEMMA Overwritten ==
  ASSUME NEW doc \in Sheets, NEW m \in Mutation, NEW c \in Mutation,
         m.kind = "set", c.kind # "insert", SameRow(m, c),
         InBounds(doc, m), InBounds(doc, c)
  PROVE  InBounds(Applied(doc, m), c) /\ Applied(Applied(doc, m), c) = Applied(doc, c)
<1>1. doc \in Document
  BY DEF Sheets
<1>2. PICK n \in Nat : n = Len(doc)
  BY <1>1, RowsOf
<1>3. PICK a \in Nat \ {0} : a = m.at /\ a = c.at
  BY DEF Mutation, SameRow
<1>4. PICK y : y = Applied(doc, m)
  OBVIOUS
<1>5. /\ y \in Document /\ Len(y) = n
      /\ \A k \in 1 .. n : y[k] = IF k = a THEN m.cell ELSE doc[k]
  <2>1. /\ y \in Document /\ Len(y) = Len(doc)
        /\ \A k \in 1 .. Len(doc) : y[k] = IF k = m.at THEN m.cell ELSE doc[k]
    BY <1>1, <1>4, SetRows
  <2> QED
    BY <1>2, <1>3, <2>1
<1>6. InBounds(y, c)
  BY <1>1, <1>2, <1>5, Bounds
<1>7. CASE c.kind = "set"
  <2>1. /\ Applied(y, c) \in Document /\ Len(Applied(y, c)) = n
        /\ \A k \in 1 .. n : Applied(y, c)[k] = IF k = a THEN c.cell ELSE y[k]
    BY <1>3, <1>5, <1>6, <1>7, SetRows
  <2>2. /\ Applied(doc, c) \in Document /\ Len(Applied(doc, c)) = n
        /\ \A k \in 1 .. n : Applied(doc, c)[k] = IF k = a THEN c.cell ELSE doc[k]
    BY <1>1, <1>2, <1>3, <1>7, SetRows
  <2>3. \A k \in 1 .. n : Applied(y, c)[k] = Applied(doc, c)[k]
    BY <1>5, <2>1, <2>2
  <2>4. Applied(y, c) = Applied(doc, c)
    BY <2>1, <2>2, <2>3, RowsOf
  <2> QED
    BY <1>4, <1>6, <2>4
<1>8. CASE c.kind = "delete"
  <2>1. /\ Applied(y, c) \in Document /\ Len(Applied(y, c)) = n - 1
        /\ \A k \in 1 .. n - 1 : Applied(y, c)[k] = IF k < a THEN y[k] ELSE y[k + 1]
    BY <1>3, <1>5, <1>6, <1>8, DeleteRows
  <2>2. /\ Applied(doc, c) \in Document /\ Len(Applied(doc, c)) = n - 1
        /\ \A k \in 1 .. n - 1 : Applied(doc, c)[k] = IF k < a THEN doc[k] ELSE doc[k + 1]
    BY <1>1, <1>2, <1>3, <1>8, DeleteRows
  <2>3. ASSUME NEW k \in 1 .. n - 1 PROVE Applied(y, c)[k] = Applied(doc, c)[k]
    <3>1. k \in 1 .. n /\ k + 1 \in 1 .. n
      OBVIOUS
    <3>2. k < a => y[k] = doc[k]
      BY <1>5, <3>1
    <3>3. ~ (k < a) => y[k + 1] = doc[k + 1]
      BY <1>5, <3>1
    <3> QED
      BY <2>1, <2>2, <3>2, <3>3
  <2>4. Applied(y, c) = Applied(doc, c)
    BY <2>1, <2>2, <2>3, RowsOf
  <2> QED
    BY <1>4, <1>6, <2>4
<1> QED
  BY <1>7, <1>8 DEF Mutation


\* The two mutations of an entry: the one it stands for when it is on top of its
\* stack, and the one that takes it from there.  again tells the redo stack.
Forth(e, again) == IF again THEN e.inverse ELSE e.m

Back(e, again) == IF again THEN e.m ELSE e.inverse

\* STALE_OPERATION: the entry cannot be replayed any more.
Frozen(e, r) == Moves(e.m) /\ e.committed \notin {0, r}

\* From the top of the stack down to its last entry, or to one that cannot be
\* replayed: u[i] is the document in which the i-th entry is the next one to be
\* taken back, what it wrote is there, and taking it back gives u[i - 1].
Chain(stack, again, doc, r, f, u) ==
  /\ f \in 1 .. Len(stack)
  /\ u \in [1 .. Len(stack) -> Sheets] /\ u[Len(stack)] = doc
  /\ Frozen(stack[f], r) \/ (f = 1 /\ Holds(u[1], Forth(stack[1], again)))
  /\ \A i \in f + 1 .. Len(stack) :
       /\ Holds(u[i], Forth(stack[i], again))
       /\ InBounds(u[i], Back(stack[i], again))
       /\ u[i - 1] = Applied(u[i], Back(stack[i], again))

Grounded(stack, again, doc, r) ==
  stack = <<>> \/ \E f, u : Chain(stack, again, doc, r, f, u)

\* The two are opposite, on one row.
WaysOf(e, x, y) ==
  /\ x \in Mutation /\ y \in Mutation
  /\ x.at = e.m.at /\ y.at = e.m.at
  /\ y.kind = Flipped(x.kind) /\ x.kind = Flipped(y.kind)
  /\ Moves(x) <=> Moves(e.m)
  /\ Moves(y) <=> Moves(e.m)

LEMMA WaysOfItem ==
  ASSUME NEW e \in Item, e.m.at = e.inverse.at, Opposite(e), NEW again
  PROVE  WaysOf(e, Forth(e, again), Back(e, again))
<1>1. e.m \in Mutation /\ e.inverse \in Mutation
  BY DEF Item
<1>2. e.m.kind \in {"set", "insert", "delete"}
  BY <1>1 DEF Mutation
<1>3. /\ e.inverse.kind = Flipped(e.m.kind) /\ e.m.kind = Flipped(e.inverse.kind)
      /\ Moves(e.inverse) <=> Moves(e.m)
  BY <1>2 DEF Opposite, Flipped, Moves
<1>4. CASE again
  BY <1>1, <1>3, <1>4 DEF WaysOf, Forth, Back
<1>5. CASE ~ again
  BY <1>1, <1>3, <1>5 DEF WaysOf, Forth, Back
<1> QED
  BY <1>4, <1>5

LEMMA StackPlaces ==
  ASSUME NEW stack, Entry(stack), stack # <<>>
  PROVE  Len(stack) \in Nat \ {0} /\ DOMAIN stack = 1 .. Len(stack)
<1>1. stack \in Seq(Item)
  BY DEF Entry, Item
<1> QED
  BY <1>1, Places

LEMMA GroundedAppended ==
  ASSUME NEW stack, Entry(stack), NEW e \in Item, e.m.at = e.inverse.at,
         NEW again, NEW doc, NEW next \in Sheets, NEW r,
         Grounded(stack, again, doc, r),
         Holds(next, Forth(e, again)),
         stack # <<>> => InBounds(next, Back(e, again)) /\ Applied(next, Back(e, again)) = doc
  PROVE  Grounded(Append(stack, e), again, next, r)
<1>1. PICK n \in Nat : n = Len(stack)
  BY AppendedEntry
<1>2. PICK s : s = Append(stack, e)
  OBVIOUS
<1>3. /\ Len(s) = n + 1 /\ s[n + 1] = e
      /\ \A i \in 1 .. n : s[i] = stack[i]
  BY <1>1, <1>2, AppendedEntry
<1>4. CASE stack = <<>>
  <2>1. n = 0
    BY <1>1, <1>4, EmptyEntry
  <2>2. PICK u : u = [i \in 1 .. 1 |-> next]
    OBVIOUS
  <2>3. u \in [1 .. 1 -> Sheets] /\ u[1] = next
    BY <2>2
  <2>4. Len(s) = 1 /\ s[1] = e
    BY <1>3, <2>1
  <2>5. Chain(s, again, next, r, 1, u)
    BY <2>3, <2>4 DEF Chain
  <2> QED
    BY <1>2, <2>5 DEF Grounded
<1>5. CASE stack # <<>>
  <2>1. PICK f, u : Chain(stack, again, doc, r, f, u)
    BY <1>5 DEF Grounded
  <2>2. /\ f \in 1 .. n /\ u \in [1 .. n -> Sheets] /\ u[n] = doc
        /\ Frozen(stack[f], r) \/ (f = 1 /\ Holds(u[1], Forth(stack[1], again)))
        /\ \A i \in f + 1 .. n :
             /\ Holds(u[i], Forth(stack[i], again))
             /\ InBounds(u[i], Back(stack[i], again))
             /\ u[i - 1] = Applied(u[i], Back(stack[i], again))
    BY <1>1, <2>1 DEF Chain
  <2>3. PICK v : v = [i \in 1 .. n + 1 |-> IF i = n + 1 THEN next ELSE u[i]]
    OBVIOUS
  <2>4. /\ \A i \in 1 .. n : v[i] = u[i]
        /\ v[n + 1] = next
    BY <2>3
  <2>5. v \in [1 .. n + 1 -> Sheets]
    <3>1. ASSUME NEW i \in 1 .. n + 1
          PROVE  (IF i = n + 1 THEN next ELSE u[i]) \in Sheets
      <4>1. CASE i = n + 1
        BY ONLY next \in Sheets, <4>1
      <4>2. CASE i # n + 1
        <5>1. i \in 1 .. n
          BY ONLY n \in Nat, i \in 1 .. n + 1, <4>2
        <5>2. u[i] \in Sheets
          BY ONLY <2>2, <5>1
        <5> QED
          BY ONLY <4>2, <5>2
      <4> QED
        BY ONLY <4>1, <4>2
    <3> QED
      BY ONLY <2>3, <3>1
  <2>6. /\ f \in 1 .. n + 1
        /\ Frozen(s[f], r) \/ (f = 1 /\ Holds(v[1], Forth(s[1], again)))
    BY <1>3, <2>2, <2>4
  <2>7. ASSUME NEW i \in f + 1 .. n + 1
        PROVE  /\ Holds(v[i], Forth(s[i], again))
               /\ InBounds(v[i], Back(s[i], again))
               /\ v[i - 1] = Applied(v[i], Back(s[i], again))
    <3>1. CASE i = n + 1
      <4>1. i - 1 = n /\ n \in 1 .. n
        BY <2>2, <3>1
      <4>2. v[i] = next /\ s[i] = e
        BY <1>3, <2>4, <3>1
      <4>3. v[i - 1] = doc
        BY <2>2, <2>4, <4>1
      <4>4. InBounds(next, Back(e, again)) /\ Applied(next, Back(e, again)) = doc
        BY <1>5
      <4> QED
        BY <4>2, <4>3, <4>4
    <3>2. CASE i # n + 1
      <4>1. f \in 1 .. n
        BY <2>2
      <4>2. i \in f + 1 .. n /\ i \in 1 .. n /\ i - 1 \in 1 .. n
        BY <3>2, <4>1
      <4> QED
        BY <1>3, <2>2, <2>4, <4>2
    <3> QED
      BY <3>1, <3>2
  <2>8. Chain(s, again, next, r, f, v)
    BY <1>3, <2>4, <2>5, <2>6, <2>7 DEF Chain
  <2> QED
    BY <1>2, <2>8 DEF Grounded
<1> QED
  BY <1>4, <1>5

\* The oldest entry falls out of a full stack.
LEMMA GroundedTail ==
  ASSUME NEW stack, Entry(stack), stack # <<>>, NEW again, NEW doc, NEW r,
         Grounded(stack, again, doc, r)
  PROVE  Grounded(Tail(stack), again, doc, r)
<1>1. PICK n \in Nat \ {0} : n = Len(stack)
  BY StackPlaces
<1>2. PICK s : s = Tail(stack)
  OBVIOUS
<1>3. stack \in Seq(Item)
  BY DEF Entry, Item
<1>4. s \in Seq(Item) /\ Len(s) = n - 1 /\ \A i \in 1 .. n - 1 : s[i] = stack[i + 1]
  BY <1>1, <1>2, <1>3, HeadTailProperties
<1>5. CASE n = 1
  BY <1>2, <1>4, <1>5, EmptySeq DEF Grounded
<1>6. CASE n > 1
  <2>1. PICK f, u : Chain(stack, again, doc, r, f, u)
    BY DEF Grounded
  <2>2. /\ f \in 1 .. n /\ u \in [1 .. n -> Sheets] /\ u[n] = doc
        /\ Frozen(stack[f], r) \/ (f = 1 /\ Holds(u[1], Forth(stack[1], again)))
        /\ \A i \in f + 1 .. n :
             /\ Holds(u[i], Forth(stack[i], again))
             /\ InBounds(u[i], Back(stack[i], again))
             /\ u[i - 1] = Applied(u[i], Back(stack[i], again))
    BY <1>1, <2>1 DEF Chain
  <2>3. PICK v : v = [i \in 1 .. n - 1 |-> u[i + 1]]
    OBVIOUS
  <2>4. v \in [1 .. n - 1 -> Sheets] /\ \A i \in 1 .. n - 1 : v[i] = u[i + 1]
    BY <2>2, <2>3
  <2>5. v[n - 1] = doc
    <3>1. n - 1 \in 1 .. n - 1 /\ n - 1 + 1 = n
      BY <1>6
    <3> QED
      BY <2>2, <2>4, <3>1
  <2>6. PICK g \in 1 .. n - 1 : g = IF f = 1 THEN 1 ELSE f - 1
    BY <1>6, <2>2
  <2>7. Frozen(s[g], r) \/ (g = 1 /\ Holds(v[1], Forth(s[1], again)))
    <3>1. CASE f = 1
      <4>1. 2 \in f + 1 .. n /\ 1 \in 1 .. n - 1 /\ 1 + 1 = 2
        BY <1>6, <3>1
      <4>2. s[1] = stack[1 + 1] /\ v[1] = u[1 + 1]
        BY <1>4, <2>4, <4>1
      <4> QED
        BY <2>2, <2>6, <3>1, <4>1, <4>2
    <3>2. CASE f # 1
      <4>1. g + 1 = f
        BY <2>2, <2>6, <3>2
      <4> QED
        BY <1>4, <2>2, <3>2, <4>1
    <3> QED
      BY <3>1, <3>2
  <2>8. ASSUME NEW i \in g + 1 .. n - 1
        PROVE  /\ Holds(v[i], Forth(s[i], again))
               /\ InBounds(v[i], Back(s[i], again))
               /\ v[i - 1] = Applied(v[i], Back(s[i], again))
    <3>1. /\ i \in 1 .. n - 1 /\ i - 1 \in 1 .. n - 1
          /\ i + 1 \in f + 1 .. n /\ i + 1 - 1 = i /\ i - 1 + 1 = i
      BY <2>2, <2>6
    <3>2. v[i] = u[i + 1] /\ v[i - 1] = u[i] /\ s[i] = stack[i + 1]
      BY <1>4, <2>4, <3>1
    <3> QED
      BY <2>2, <3>1, <3>2
  <2>9. Chain(s, again, doc, r, g, v)
    BY <1>4, <2>4, <2>5, <2>6, <2>7, <2>8 DEF Chain
  <2> QED
    BY <1>2, <2>9 DEF Grounded
<1> QED
  BY <1>5, <1>6

\* The top of a stack is taken back, if it can be.
LEMMA GroundedPopped ==
  ASSUME NEW stack, Entry(stack), stack # <<>>, NEW again, NEW doc \in Sheets, NEW r,
         Grounded(stack, again, doc, r), ~ Frozen(Top(stack), r)
  PROVE  /\ Holds(doc, Forth(Top(stack), again))
         /\ Grounded(Popped(stack), again, Applied(doc, Back(Top(stack), again)), r)
<1>1. PICK n \in Nat \ {0} : n = Len(stack)
  BY StackPlaces
<1>2. PICK s : s = Popped(stack)
  OBVIOUS
<1>3. PICK e : e = Top(stack)
  OBVIOUS
<1>4. /\ e = stack[n] /\ Entry(s) /\ Len(s) = n - 1
      /\ \A i \in 1 .. n - 1 : s[i] = stack[i]
  <2>1. /\ e = stack[n] /\ Entry(s) /\ Len(s) = n - 1
        /\ \A i \in DOMAIN s : s[i] = stack[i]
    BY <1>1, <1>2, <1>3, TopOf
  <2>2. DOMAIN s = 1 .. n - 1
    BY <2>1, EntryPlaces
  <2> QED
    BY <2>1, <2>2
<1>5. PICK f, u : Chain(stack, again, doc, r, f, u)
  BY DEF Grounded
<1>6. /\ f \in 1 .. n /\ u \in [1 .. n -> Sheets] /\ u[n] = doc
      /\ Frozen(stack[f], r) \/ (f = 1 /\ Holds(u[1], Forth(stack[1], again)))
      /\ \A i \in f + 1 .. n :
           /\ Holds(u[i], Forth(stack[i], again))
           /\ InBounds(u[i], Back(stack[i], again))
           /\ u[i - 1] = Applied(u[i], Back(stack[i], again))
  BY <1>1, <1>5 DEF Chain
<1>7. f # n \/ (n = 1 /\ Holds(u[1], Forth(stack[1], again)))
  BY <1>3, <1>4, <1>6
<1>8. CASE n = 1
  <2>1. s = <<>>
    BY <1>4, <1>8, EmptySeq DEF Entry
  <2>2. Holds(doc, Forth(e, again))
    BY <1>4, <1>6, <1>7, <1>8
  <2> QED
    BY <1>2, <1>3, <2>1, <2>2 DEF Grounded
<1>9. CASE n > 1
  <2>1. f # n
    BY <1>7, <1>9
  <2>2. f \in 1 .. n - 1 /\ n \in f + 1 .. n /\ n - 1 \in 1 .. n - 1
    BY <1>6, <1>9, <2>1
  <2>3. Holds(doc, Forth(e, again)) /\ u[n - 1] = Applied(doc, Back(e, again))
    BY <1>4, <1>6, <2>2
  <2>4. PICK v : v = [i \in 1 .. n - 1 |-> u[i]]
    OBVIOUS
  <2>5. v \in [1 .. n - 1 -> Sheets] /\ \A i \in 1 .. n - 1 : v[i] = u[i]
    BY <1>6, <2>4
  <2>6. Frozen(s[f], r) \/ (f = 1 /\ Holds(v[1], Forth(s[1], again)))
    BY <1>4, <1>6, <2>2, <2>5
  <2>7. ASSUME NEW i \in f + 1 .. n - 1
        PROVE  /\ Holds(v[i], Forth(s[i], again))
               /\ InBounds(v[i], Back(s[i], again))
               /\ v[i - 1] = Applied(v[i], Back(s[i], again))
    <3>1. i \in f + 1 .. n /\ i \in 1 .. n - 1 /\ i - 1 \in 1 .. n - 1
      BY <1>6
    <3> QED
      BY <1>4, <1>6, <2>5, <3>1
  <2>8. Chain(s, again, Applied(doc, Back(e, again)), r, f, v)
    BY <1>4, <2>2, <2>3, <2>5, <2>6, <2>7 DEF Chain
  <2> QED
    BY <1>2, <1>3, <2>3, <2>8 DEF Grounded
<1> QED
  BY <1>8, <1>9

\* Entries that are marked still take back the same.
LEMMA GroundedAlike ==
  ASSUME NEW stack, NEW s, Entry(s), Len(s) = Len(stack), NEW again, NEW doc, NEW r, NEW q,
         \A i \in 1 .. Len(stack) :
           /\ s[i].m = stack[i].m /\ s[i].inverse = stack[i].inverse
           /\ Frozen(stack[i], r) => Frozen(s[i], q),
         Grounded(stack, again, doc, r)
  PROVE  Grounded(s, again, doc, q)
<1>1. CASE stack = <<>>
  <2>1. Len(s) = 0
    BY <1>1, EmptyEntry
  <2> QED
    BY <2>1, EmptySeq DEF Entry, Grounded
<1>2. CASE stack # <<>>
  <2>1. PICK f, u : Chain(stack, again, doc, r, f, u)
    BY <1>2 DEF Grounded
  <2>2. PICK n \in Nat : n = Len(s) /\ n = Len(stack)
    BY EntryPlaces
  <2>3. /\ f \in 1 .. n /\ u \in [1 .. n -> Sheets] /\ u[n] = doc
        /\ Frozen(stack[f], r) \/ (f = 1 /\ Holds(u[1], Forth(stack[1], again)))
        /\ \A i \in f + 1 .. n :
             /\ Holds(u[i], Forth(stack[i], again))
             /\ InBounds(u[i], Back(stack[i], again))
             /\ u[i - 1] = Applied(u[i], Back(stack[i], again))
    BY <2>1, <2>2 DEF Chain
  <2>4. \A i \in 1 .. n :
          Forth(s[i], again) = Forth(stack[i], again) /\ Back(s[i], again) = Back(stack[i], again)
    BY <2>2 DEF Forth, Back
  <2>5. \A i \in f + 1 .. n : i \in 1 .. n
    BY <2>3
  <2>6. Frozen(s[f], q) \/ (f = 1 /\ Holds(u[1], Forth(s[1], again)))
    BY <2>2, <2>3, <2>4
  <2>7. \A i \in f + 1 .. n :
          /\ Holds(u[i], Forth(s[i], again))
          /\ InBounds(u[i], Back(s[i], again))
          /\ u[i - 1] = Applied(u[i], Back(s[i], again))
    BY <2>3, <2>4, <2>5
  <2>8. Chain(s, again, doc, q, f, u)
    BY <2>2, <2>3, <2>6, <2>7 DEF Chain
  <2> QED
    BY <2>8 DEF Grounded
<1> QED
  BY <1>1, <1>2


\* An entry, a change of another user, and the document before and after it.
LEMMA LinkMoves ==
  ASSUME NEW e \in Item, e.m.at = e.inverse.at, Opposite(e), NEW again,
         NEW doc \in Sheets, NEW c \in Mutation, InBounds(doc, c),
         Moves(e.m) => ~ Moves(c) /\ c.at < e.m.at,
         Holds(doc, Forth(e, again)), InBounds(doc, Back(e, again)),
         NEW v, v = Applied(doc, c),
         NEW w, w = Applied(Applied(doc, Back(e, again)), c)
  PROVE  /\ InBounds(Applied(doc, Back(e, again)), c)
         /\ ~ Survives(e, c) => w = v
         /\ \A f : Survives(e, c) /\ MovedItem(e, f, c) =>
              /\ Holds(v, Forth(f, again))
              /\ InBounds(v, Back(f, again))
              /\ w = Applied(v, Back(f, again))
<1>1. PICK x, y : x = Forth(e, again) /\ y = Back(e, again)
  OBVIOUS
<1>2. WaysOf(e, x, y)
  BY <1>1, WaysOfItem
<1>3. /\ x \in Mutation /\ y \in Mutation /\ x.at = e.m.at /\ y.at = e.m.at
      /\ Moves(y) <=> Moves(e.m)
  BY <1>2 DEF WaysOf
<1>4. Holds(doc, x) /\ InBounds(doc, y) /\ w = Applied(Applied(doc, y), c)
  BY <1>1
<1>5. CASE Survives(e, c)
  <2>1. /\ c.kind = "insert" \/ ~ SameRow(x, c)
        /\ c.kind = "insert" \/ ~ SameRow(y, c)
    BY <1>3, <1>5 DEF Survives, SameRow
  <2>2. Passes(y, c)
    BY <1>3 DEF Passes
  <2>3. InBounds(Applied(doc, y), c) /\ InBounds(v, Rebased(y, c)) /\ w = Applied(v, Rebased(y, c))
    BY <1>3, <1>4, <2>1, <2>2, PassesOver
  <2>4. Holds(v, Rebased(x, c))
    BY <1>3, <1>4, <2>1, HoldsMoves
  <2>5. ASSUME NEW f, MovedItem(e, f, c)
        PROVE  Forth(f, again) = Rebased(x, c) /\ Back(f, again) = Rebased(y, c)
    BY <1>1, <2>5 DEF MovedItem, Forth, Back
  <2> QED
    BY <1>1, <1>5, <2>3, <2>4, <2>5
<1>6. CASE ~ Survives(e, c)
  <2>1. c.kind # "insert" /\ SameRow(e.m, c)
    BY <1>6 DEF Survives
  <2>2. ~ Moves(e.m)
    BY <2>1 DEF SameRow, Item, Mutation
  <2>3. y.kind = "set" /\ SameRow(y, c)
    BY <1>3, <2>1, <2>2 DEF Moves, SameRow
  <2>4. InBounds(Applied(doc, y), c) /\ w = v
    BY <1>3, <1>4, <2>1, <2>3, Overwritten
  <2> QED
    BY <1>1, <1>6, <2>4
<1> QED
  BY <1>5, <1>6

\* Where the documents between two positions are the same.
LEMMA SameBetween ==
  ASSUME NEW a \in Nat, NEW b \in Nat, a <= b, NEW v,
         \A i \in a + 1 .. b : v[i - 1] = v[i]
  PROVE  v[a] = v[b]
<1>1. PICK S : S = {i \in a .. b : v[i] = v[a]}
  OBVIOUS
<1>2. a \in S
  BY <1>1
<1>3. ASSUME NEW k \in a + 1 .. b, k - 1 \in S PROVE k \in S
  <2>1. k \in a .. b
    OBVIOUS
  <2>2. v[k - 1] = v[k] /\ v[k - 1] = v[a]
    BY <1>1, <1>3
  <2> QED
    BY <1>1, <2>1, <2>2
<1>4. \A k \in a .. b : k \in S
  BY <1>2, <1>3, StepByStep
<1>5. b \in S
  BY <1>4
<1> QED
  BY <1>1, <1>5

\* From the last position down.
LEMMA StepsDown ==
  ASSUME NEW p \in Nat, NEW n \in Nat, p <= n, NEW S, n \in S,
         \A i \in p + 1 .. n : i \in S => i - 1 \in S
  PROVE  \A i \in p .. n : i \in S
<1>1. PICK T : T = {k \in 0 .. n - p : n - k \in S}
  OBVIOUS
<1>2. 0 \in T
  <2>1. n - 0 = n /\ 0 \in 0 .. n - p
    OBVIOUS
  <2> QED
    BY <1>1, <2>1
<1>3. ASSUME NEW k \in 0 + 1 .. n - p, k - 1 \in T PROVE k \in T
  <2>1. k \in 0 .. n - p /\ n - (k - 1) \in p + 1 .. n /\ (n - (k - 1)) - 1 = n - k
    OBVIOUS
  <2>2. n - (k - 1) \in S
    BY <1>1, <1>3
  <2>3. n - k \in S
    BY <2>1, <2>2
  <2> QED
    BY <1>1, <2>1, <2>3
<1>4. n - p \in Nat
  OBVIOUS
<1>5. \A k \in 0 .. n - p : k \in T
  BY <1>2, <1>3, <1>4, StepByStep
<1>6. ASSUME NEW i \in p .. n PROVE i \in S
  <2>1. n - i \in 0 .. n - p /\ n - (n - i) = i
    OBVIOUS
  <2>2. n - i \in T
    BY <1>5, <2>1
  <2> QED
    BY <1>1, <2>1, <2>2
<1> QED
  BY <1>6

\* What is left of the entries of a chain, and its documents after a change.
Thread(v, n, t, o, g, p, again) ==
  /\ n \in Nat /\ o \in Nat /\ p \in 1 .. n /\ Len(t) = o
  /\ v \in [1 .. n -> Sheets]
  /\ g \in [1 .. o -> 1 .. n] /\ \A i, j \in 1 .. o : i < j => g[i] < g[j]
  /\ \A k \in 1 .. o : g[k] \in p + 1 .. n =>
       /\ Holds(v[g[k]], Forth(t[k], again))
       /\ InBounds(v[g[k]], Back(t[k], again))
       /\ v[g[k] - 1] = Applied(v[g[k]], Back(t[k], again))
  /\ \A i \in p + 1 .. n : (\A k \in 1 .. o : g[k] # i) => v[i - 1] = v[i]

LEMMA ChainThinned ==
  ASSUME NEW v, NEW n, NEW t, NEW o, NEW g, NEW p, NEW again, NEW r,
         Thread(v, n, t, o, g, p, again), NEW f \in 1 .. o, p <= g[f],
         Frozen(t[f], r) \/ (f = 1 /\ Holds(v[g[1]], Forth(t[1], again)))
  PROVE  Grounded(t, again, v[n], r)
<1> USE DEF Thread
<1>1. \A k \in 1 .. o : g[k] \in 1 .. n
  OBVIOUS
<1>2. ASSUME NEW i \in 1 .. o, NEW j \in 1 .. o, i <= j PROVE g[i] <= g[j]
  <2>1. g[i] \in Nat /\ g[j] \in Nat
    BY <1>1
  <2>2. CASE i = j
    BY <2>1, <2>2
  <2>3. CASE i < j
    BY <2>1, <2>3
  <2> QED
    BY <1>2, <2>2, <2>3
<1>3. ASSUME NEW k \in f .. o PROVE k \in 1 .. o /\ g[k] \in p .. n
  <2>1. k \in 1 .. o /\ f <= k
    OBVIOUS
  <2>2. g[f] <= g[k] /\ g[f] \in 1 .. n /\ g[k] \in 1 .. n
    BY <1>1, <1>2, <2>1
  <2> QED
    BY <2>1, <2>2
<1>4. PICK w : w = [k \in 1 .. o |-> v[g[k]]]
  OBVIOUS
<1>5. w \in [1 .. o -> Sheets] /\ \A k \in 1 .. o : w[k] = v[g[k]]
  BY <1>1, <1>4
<1>6. w[o] = v[n]
  <2>1. o \in 1 .. o /\ o \in f .. o
    OBVIOUS
  <2>2. PICK a \in p .. n : a = g[o]
    BY <1>3, <2>1
  <2>3. ASSUME NEW i \in a + 1 .. n PROVE v[i - 1] = v[i]
    <3>1. i \in p + 1 .. n
      OBVIOUS
    <3>2. ASSUME NEW k \in 1 .. o PROVE g[k] # i
      <4>1. k <= o /\ g[k] \in 1 .. n
        BY <1>1
      <4>2. g[k] <= a
        BY <1>2, <2>1, <2>2, <4>1
      <4> QED
        BY <4>1, <4>2
    <3> QED
      BY <3>1, <3>2
  <2>4. a \in Nat /\ n \in Nat /\ a <= n
    OBVIOUS
  <2>5. v[a] = v[n]
    BY ONLY <2>3, <2>4, SameBetween
  <2> QED
    BY <1>5, <2>1, <2>2, <2>5
<1>7. ASSUME NEW k \in f + 1 .. o
      PROVE  /\ Holds(w[k], Forth(t[k], again))
             /\ InBounds(w[k], Back(t[k], again))
             /\ w[k - 1] = Applied(w[k], Back(t[k], again))
  <2>1. k \in 1 .. o /\ k - 1 \in 1 .. o /\ k - 1 \in f .. o /\ k - 1 < k
    OBVIOUS
  <2>2. PICK a \in p .. n : a = g[k - 1]
    BY <1>3, <2>1
  <2>3. PICK b \in 1 .. n : b = g[k]
    BY <1>1, <2>1
  <2>4. a < b
    BY <2>1, <2>2, <2>3
  <2>5. b \in p + 1 .. n /\ a \in Nat /\ b - 1 \in Nat /\ a <= b - 1
    BY <2>4
  <2>6. ASSUME NEW i \in a + 1 .. b - 1 PROVE v[i - 1] = v[i]
    <3>1. i \in p + 1 .. n /\ a < i /\ i < b
      OBVIOUS
    <3>2. ASSUME NEW l \in 1 .. o PROVE g[l] # i
      <4>1. l <= k - 1 \/ k <= l
        BY <2>1
      <4>2. CASE l <= k - 1
        <5>1. g[l] <= a
          BY <1>2, <2>1, <2>2, <4>2
        <5> QED
          BY <1>1, <3>1, <5>1
      <4>3. CASE k <= l
        <5>1. b <= g[l]
          BY <1>2, <2>1, <2>3, <4>3
        <5> QED
          BY <1>1, <3>1, <5>1
      <4> QED
        BY <4>1, <4>2, <4>3
    <3> QED
      BY <3>1, <3>2
  <2>7. v[a] = v[b - 1]
    BY ONLY <2>5, <2>6, SameBetween
  <2>8. /\ Holds(v[b], Forth(t[k], again))
        /\ InBounds(v[b], Back(t[k], again))
        /\ v[b - 1] = Applied(v[b], Back(t[k], again))
    BY <2>1, <2>3, <2>5
  <2>9. w[k] = v[b] /\ w[k - 1] = v[a]
    BY <1>5, <2>1, <2>2, <2>3
  <2> QED
    BY <2>7, <2>8, <2>9
<1>8. Frozen(t[f], r) \/ (f = 1 /\ Holds(w[1], Forth(t[1], again)))
  BY <1>5
<1>9. Chain(t, again, v[n], r, f, w)
  BY <1>5, <1>6, <1>7, <1>8 DEF Chain
<1> QED
  BY <1>9 DEF Grounded

\* A change of another user, that displaces no entry, reaches the page.
LEMMA GroundedReceived ==
  ASSUME NEW s, Entry(s), AllOpposite(s), NEW again, NEW doc \in Sheets,
         NEW c \in Mutation, InBounds(doc, c), ~ Displaces(s, c),
         NEW t, Thinned(s, t, c), NEW r \in Nat,
         \A i \in DOMAIN s : s[i].committed <= r,
         \A i \in DOMAIN s :
           i # 1 /\ Moves(s[i].m) /\ s[i].committed = 0 /\ ~ Moves(c) => c.at < s[i].m.at,
         Grounded(s, again, doc, r)
  PROVE  Grounded(t, again, Applied(doc, c), r + 1)
<1>1. PICK n \in Nat : n = Len(s)
  BY EntryPlaces
<1>2. DOMAIN s = 1 .. n /\ \A i \in 1 .. n : s[i] \in Item /\ s[i].m.at = s[i].inverse.at
  BY <1>1, EntryPlaces DEF Entry
<1>3. Entry(t)
  BY DEF Thinned
<1>4. PICK o \in Nat : o = Len(t)
  BY <1>3, EntryPlaces
<1>5. DOMAIN t = 1 .. o
  BY <1>3, <1>4, EntryPlaces
<1>6. PICK g \in [1 .. o -> 1 .. n] :
        /\ \A i \in 1 .. o : Survives(s[g[i]], c) /\ MovedItem(s[g[i]], t[i], c)
        /\ \A i, j \in 1 .. o : i < j => g[i] < g[j]
        /\ \A k \in 1 .. n : Survives(s[k], c) => \E i \in 1 .. o : g[i] = k
  BY <1>2, <1>5 DEF Thinned
<1>7. CASE o = 0
  BY <1>3, <1>4, <1>7, EmptySeq DEF Entry, Grounded
<1>8. CASE o # 0
  <2>1. 1 \in 1 .. o /\ g[1] \in 1 .. n
    BY <1>8
  <2>2. s # <<>>
    <3>1. n # 0
      BY <2>1
    <3> QED
      BY <1>1, <3>1, EmptySeq
  <2>3. PICK h, u : Chain(s, again, doc, r, h, u)
    BY <2>2 DEF Grounded
  <2>4. /\ h \in 1 .. n /\ u \in [1 .. n -> Sheets] /\ u[n] = doc
        /\ Frozen(s[h], r) \/ (h = 1 /\ Holds(u[1], Forth(s[1], again)))
        /\ \A i \in h + 1 .. n :
             /\ Holds(u[i], Forth(s[i], again))
             /\ InBounds(u[i], Back(s[i], again))
             /\ u[i - 1] = Applied(u[i], Back(s[i], again))
    BY <1>1, <2>3 DEF Chain
  <2>5. PICK F : F = {i \in 1 .. n : Moves(s[i].m) /\ s[i].committed # 0}
    OBVIOUS
  <2>6. PICK T : T = {k \in h .. n : \A i \in k + 1 .. n : i \notin F}
    OBVIOUS
  <2>7. h \in 1 .. n
    BY <2>4
  <2>8. n \in T /\ T \in SUBSET Nat
    BY <2>6, <2>7
  <2>9. PICK p \in T : \A k \in T : p <= k
    BY <2>8, LeastExists
  <2>10. p \in h .. n /\ p \in 1 .. n /\ \A i \in p + 1 .. n : i \notin F
    BY <2>6, <2>7, <2>9
  <2>11. p \in F \/ p = h
    <3>1. SUFFICES ASSUME p \notin F, p # h PROVE FALSE
      OBVIOUS
    <3>2. p - 1 \in h .. n /\ ~ (p <= p - 1)
      BY <2>7, <2>10, <3>1
    <3>3. ASSUME NEW i \in (p - 1) + 1 .. n PROVE i \notin F
      <4>1. i = p \/ i \in p + 1 .. n
        BY <2>10
      <4> QED
        BY <2>10, <3>1, <4>1
    <3>4. p - 1 \in T
      BY <2>6, <3>2, <3>3
    <3> QED
      BY <2>9, <3>2, <3>4
  <2>12. p \in F \/ (p = 1 /\ Holds(u[1], Forth(s[1], again)))
    <3>1. CASE p \in F
      BY <3>1
    <3>2. CASE p \notin F
      <4>1. p = h
        BY <2>11, <3>2
      <4>2. ~ Frozen(s[h], r)
        <5>1. h \notin F
          BY <3>2, <4>1
        <5>2. ~ Moves(s[h].m) \/ s[h].committed = 0
          BY <2>5, <2>7, <5>1
        <5> QED
          BY <5>2 DEF Frozen
      <4> QED
        BY <2>4, <4>1, <4>2
    <3> QED
      BY <3>1, <3>2
  <2>13. ASSUME NEW i \in p + 1 .. n
         PROVE  /\ i \in 1 .. n /\ i - 1 \in 1 .. n /\ i # 1
                /\ Moves(s[i].m) => s[i].committed = 0
                /\ Holds(u[i], Forth(s[i], again))
                /\ InBounds(u[i], Back(s[i], again))
                /\ u[i - 1] = Applied(u[i], Back(s[i], again))
    <3>1. i \in 1 .. n /\ i - 1 \in 1 .. n /\ i # 1 /\ i \in h + 1 .. n
      BY <2>7, <2>10
    <3>2. i \notin F
      BY <2>10
    <3>3. Moves(s[i].m) => s[i].committed = 0
      BY <2>5, <3>1, <3>2
    <3> QED
      BY <2>4, <3>1, <3>3
  <2>14. ASSUME NEW i \in 1 .. n, i # 1, Moves(s[i].m)
         PROVE  ~ Moves(c) /\ Survives(s[i], c)
    <3>1. 1 \in 1 .. n /\ 1 < i
      BY <2>14
    <3>2. ~ (\E j, k \in 1 .. n :
               /\ j < k
               /\ Moves(s[k].m)
               /\ Moves(c) \/ ~ Survives(s[k], c) \/ SameRow(s[j].m, c))
      BY <1>2 DEF Displaces
    <3> QED
      BY <2>14, <3>1, <3>2
  <2>15. PICK S : S = {i \in p .. n : InBounds(u[i], c)}
    OBVIOUS
  <2>16. PICK v : v = [i \in 1 .. n |-> IF i \in S THEN Applied(u[i], c) ELSE doc]
    OBVIOUS
  <2>17. ASSUME NEW i \in p + 1 .. n, i \in S
         PROVE  /\ i - 1 \in S
                /\ ~ Survives(s[i], c) => v[i - 1] = v[i]
                /\ \A f : Survives(s[i], c) /\ MovedItem(s[i], f, c) =>
                     /\ Holds(v[i], Forth(f, again))
                     /\ InBounds(v[i], Back(f, again))
                     /\ v[i - 1] = Applied(v[i], Back(f, again))
    <3>1. /\ i \in 1 .. n /\ i - 1 \in 1 .. n /\ i # 1
          /\ Moves(s[i].m) => s[i].committed = 0
          /\ Holds(u[i], Forth(s[i], again))
          /\ InBounds(u[i], Back(s[i], again))
          /\ u[i - 1] = Applied(u[i], Back(s[i], again))
      BY <2>13
    <3>2. PICK e \in Item : e = s[i] /\ e.m.at = e.inverse.at
      BY <1>2, <3>1
    <3>3. Opposite(e)
      <4>1. e \in Members(s)
        BY <1>2, <3>1, <3>2 DEF Members
      <4> QED
        BY <4>1 DEF AllOpposite
    <3>4. Moves(e.m) => ~ Moves(c) /\ c.at < e.m.at
      BY <1>2, <2>14, <3>1, <3>2
    <3>5. PICK d \in Sheets : d = u[i]
      BY <2>4, <3>1
    <3>6. InBounds(d, c) /\ v[i] = Applied(d, c)
      BY <2>15, <2>16, <2>17, <3>1, <3>5
    <3>7. PICK w : w = Applied(Applied(d, Back(e, again)), c)
      OBVIOUS
    <3>8. Holds(d, Forth(e, again)) /\ InBounds(d, Back(e, again)) /\ u[i - 1] = Applied(d, Back(e, again))
      BY <3>1, <3>2, <3>5
    <3>9. /\ InBounds(Applied(d, Back(e, again)), c)
          /\ ~ Survives(e, c) => w = v[i]
          /\ \A f : Survives(e, c) /\ MovedItem(e, f, c) =>
               /\ Holds(v[i], Forth(f, again))
               /\ InBounds(v[i], Back(f, again))
               /\ w = Applied(v[i], Back(f, again))
      BY <3>2, <3>3, <3>4, <3>6, <3>7, <3>8, LinkMoves
    <3>10. i - 1 \in p .. n
      BY <2>10
    <3>11. i - 1 \in S
      BY <2>15, <3>8, <3>9, <3>10
    <3>12. v[i - 1] = w
      BY <2>16, <3>1, <3>7, <3>8, <3>11
    <3> QED
      BY <3>2, <3>9, <3>11, <3>12
  <2>18. \A i \in p .. n : i \in S
    <3>1. p \in Nat /\ p <= n /\ n \in p .. n
      BY <2>10
    <3>2. n \in S
      BY <2>4, <2>15, <3>1
    <3> QED
      BY <2>17, <3>1, <3>2, StepsDown
  <2>19. v \in [1 .. n -> Sheets] /\ v[n] = Applied(doc, c)
    <3>1. ASSUME NEW i \in 1 .. n PROVE v[i] \in Sheets
      <4>1. u[i] \in Sheets
        BY <2>4
      <4> QED
        BY <2>15, <2>16, <4>1, SheetsChange
    <3>2. n \in p .. n /\ n \in 1 .. n
      BY <2>10
    <3>3. n \in S
      BY <2>18, <3>2
    <3>4. v[n] = Applied(doc, c)
      BY <2>4, <2>16, <3>2, <3>3
    <3>5. v \in [1 .. n -> Sheets]
      BY <2>16, <3>1
    <3> QED
      BY <3>4, <3>5
  <2>20. \A i \in p + 1 .. n : i \in S
    <3>1. \A i \in p + 1 .. n : i \in p .. n
      BY <2>10
    <3> QED
      BY <2>18, <3>1
  <2>21. ASSUME NEW k \in 1 .. o, g[k] \in p + 1 .. n
         PROVE  /\ Holds(v[g[k]], Forth(t[k], again))
                /\ InBounds(v[g[k]], Back(t[k], again))
                /\ v[g[k] - 1] = Applied(v[g[k]], Back(t[k], again))
    BY <1>6, <2>17, <2>20, <2>21
  <2>22. ASSUME NEW i \in p + 1 .. n, \A k \in 1 .. o : g[k] # i
         PROVE  v[i - 1] = v[i]
    <3>1. i \in 1 .. n
      BY <2>13
    <3>2. ~ Survives(s[i], c)
      BY <1>6, <2>22, <3>1
    <3> QED
      BY <2>17, <2>20, <3>2
  <2>23. Thread(v, n, t, o, g, p, again)
    BY <1>4, <1>6, <2>10, <2>19, <2>21, <2>22 DEF Thread
  <2>24. ASSUME NEW f \in 1 .. o, p <= g[f],
                Frozen(t[f], r + 1) \/ (f = 1 /\ Holds(v[g[1]], Forth(t[1], again)))
         PROVE  Grounded(t, again, Applied(doc, c), r + 1)
    <3>1. Grounded(t, again, v[n], r + 1)
      BY <2>23, <2>24, ChainThinned
    <3> QED
      BY <2>19, <3>1
  <2>25. CASE \E j \in 1 .. o : g[j] = p
    <3>1. PICK j \in 1 .. o : g[j] = p
      BY <2>25
    <3>2. Survives(s[p], c) /\ MovedItem(s[p], t[j], c)
      BY <1>6, <3>1
    <3>3. PICK e \in Item : e = s[p]
      BY <1>2, <2>10
    <3>4. e.m \in Mutation /\ e.inverse \in Mutation /\ e.committed \in Nat /\ e.committed <= r
      BY <1>2, <2>10, <3>3 DEF Item
    <3>5. CASE p \in F
      <4>1. Moves(e.m) /\ e.committed # 0
        BY <2>5, <3>3, <3>5
      <4>2. t[j].committed = e.committed /\ Moves(t[j].m)
        BY <3>2, <3>3, <3>4, <4>1, RebasedFields DEF MovedItem, Moves
      <4>3. t[j].committed \notin {0, r + 1}
        BY <3>4, <4>1, <4>2
      <4>4. Frozen(t[j], r + 1)
        BY <4>2, <4>3 DEF Frozen
      <4>5. p <= g[j]
        BY <2>10, <3>1
      <4> QED
        BY <2>24, <4>4, <4>5
    <3>6. CASE p \notin F
      <4>1. p = 1 /\ Holds(u[1], Forth(s[1], again))
        BY <2>12, <3>6
      <4>2. j = 1
        <5>1. CASE 1 < j
          <6>1. g[1] < g[j]
            BY <1>6, <2>1, <5>1
          <6> QED
            BY <2>1, <3>1, <4>1, <6>1
        <5> QED
          BY <5>1
      <4>3. 1 \in 1 .. n /\ 1 \in p .. n
        BY <2>10, <4>1
      <4>4. PICK d \in Sheets : d = u[1]
        BY <2>4, <4>3
      <4>5. InBounds(d, c) /\ v[1] = Applied(d, c)
        BY <2>15, <2>16, <2>18, <4>3, <4>4
      <4>6. PICK x \in Mutation : x = Forth(e, again)
        BY <3>4 DEF Forth
      <4>7. Holds(d, x)
        BY <3>3, <4>1, <4>4, <4>6
      <4>8. x.at = e.m.at
        BY <1>2, <2>10, <3>3, <4>6 DEF Forth
      <4>9. c.kind = "insert" \/ ~ SameRow(x, c)
        BY <3>2, <3>3, <4>8 DEF Survives, SameRow
      <4>10. Holds(v[1], Rebased(x, c))
        BY <4>5, <4>7, <4>9, HoldsMoves
      <4>11. Forth(t[1], again) = Rebased(x, c)
        BY <3>2, <3>3, <4>2, <4>6 DEF MovedItem, Forth
      <4>12. g[1] = 1 /\ 1 <= g[1] /\ p <= g[1]
        BY <3>1, <4>1, <4>2
      <4>13. Holds(v[g[1]], Forth(t[1], again))
        BY <4>10, <4>11, <4>12
      <4> QED
        BY <2>1, <2>24, <4>12, <4>13
    <3> QED
      BY <3>5, <3>6
  <2>26. CASE ~ \E j \in 1 .. o : g[j] = p
    <3>1. ~ Survives(s[p], c)
      BY <1>6, <2>10, <2>26
    <3>2. p = 1
      <4>1. p \in F => Moves(s[p].m)
        BY <2>5
      <4> QED
        BY <2>10, <2>12, <2>14, <3>1, <4>1
    <3>3. g[1] # p
      BY <2>1, <2>26
    <3>4. g[1] \in p + 1 .. n /\ p <= g[1]
      BY <2>1, <2>10, <3>2, <3>3
    <3>5. Holds(v[g[1]], Forth(t[1], again))
      BY <2>1, <2>21, <3>4
    <3> QED
      BY <2>1, <2>24, <3>4, <3>5
  <2> QED
    BY <2>25, <2>26
<1> QED
  BY <1>7, <1>8

-----------------------------------------------------------------------------
(* The rows that the entries move are those that the queue moves. *)

\* An entry of an operation that is not committed: this operation, or one
\* queued after it, moves the rows below the row of the entry.
Rides(e, q) ==
  Moves(e.m) /\ e.committed = 0 =>
    \E k, i \in DOMAIN q : /\ k <= i /\ q[k].op = e.op
                           /\ Moves(q[i].m) /\ q[i].m.at = e.m.at

\* All but the last entry, which no other rests on.
Ridden(stack, q) == \A j \in DOMAIN stack : j # 1 => Rides(stack[j], q)

Riding ==
  \/ crossed \/ displaced
  \/ Ridden(undoStack, queue) /\ Ridden(redoStack, queue)

LEMMA RiddenNothing ==
  ASSUME NEW q
  PROVE  Ridden(<<>>, q)
<1>1. DOMAIN <<>> = {}
  OBVIOUS
<1> QED
  BY <1>1 DEF Ridden

LEMMA RidesEnqueued ==
  ASSUME Typed, NEW m, NEW undoes, Enqueued(m, undoes), NEW e
  PROVE  /\ Rides(e, queue) => Rides(e, queue')
         /\ /\ Moves(e.m) => Moves(m)
            /\ m.at = e.m.at
            /\ \/ e.op = nextOp \/ e.committed # 0
               \/ \E k \in DOMAIN queue : queue[k].op = e.op
            => Rides(e, queue')
<1>1. /\ DOMAIN queue' = 1 .. Len(queue) + 1 /\ Len(queue) \in Nat
      /\ DOMAIN queue = 1 .. Len(queue)
      /\ \A i \in DOMAIN queue : i \in DOMAIN queue' /\ queue'[i] = queue[i]
      /\ queue'[Len(queue) + 1].op = nextOp /\ queue'[Len(queue) + 1].m = m
  BY EnqueuedPlaces, TypedPlaces
<1>2. ASSUME Rides(e, queue) PROVE Rides(e, queue')
  BY <1>1, <1>2 DEF Rides
<1>3. ASSUME Moves(e.m) => Moves(m), m.at = e.m.at,
             \/ e.op = nextOp \/ e.committed # 0
             \/ \E k \in DOMAIN queue : queue[k].op = e.op
      PROVE  Rides(e, queue')
  <2>1. SUFFICES ASSUME Moves(e.m), e.committed = 0
                 PROVE  \E k, i \in DOMAIN queue' :
                          /\ k <= i /\ queue'[k].op = e.op
                          /\ Moves(queue'[i].m) /\ queue'[i].m.at = e.m.at
    BY DEF Rides
  <2>2. PICK n \in Nat : n = Len(queue)
    BY <1>1
  <2>3. n + 1 \in DOMAIN queue' /\ Moves(queue'[n + 1].m) /\ queue'[n + 1].m.at = e.m.at
    BY <1>1, <1>3, <2>1, <2>2
  <2>4. PICK k \in DOMAIN queue' : queue'[k].op = e.op
    <3>1. CASE e.op = nextOp
      BY <1>1, <2>2, <2>3, <3>1
    <3>2. CASE \E k \in DOMAIN queue : queue[k].op = e.op
      BY <1>1, <3>2
    <3> QED
      BY <1>3, <2>1, <3>1, <3>2
  <2>5. k <= n + 1
    BY <1>1, <2>2
  <2> QED
    BY <2>3, <2>4, <2>5
<1> QED
  BY <1>2, <1>3

LEMMA RiddenGoesOn ==
  ASSUME Typed, NEW m, NEW undoes, Enqueued(m, undoes), NEW stack, Ridden(stack, queue)
  PROVE  Ridden(stack, queue')
BY RidesEnqueued DEF Ridden

LEMMA RiddenAppended ==
  ASSUME NEW stack, Entry(stack), NEW e \in Item, e.m.at = e.inverse.at, NEW q,
         Ridden(stack, q), Rides(e, q)
  PROVE  Ridden(Append(stack, e), q)
<1>1. PICK s : s = Append(stack, e)
  OBVIOUS
<1>2. PICK n \in Nat : n = Len(stack)
  BY AppendedEntry
<1>3. /\ DOMAIN stack = 1 .. n /\ DOMAIN s = 1 .. n + 1
      /\ s[n + 1] = e /\ \A i \in DOMAIN stack : s[i] = stack[i]
  BY <1>1, <1>2, AppendedEntry
<1>4. \A i \in DOMAIN s : i \in DOMAIN stack \/ i = n + 1
  BY <1>3
<1> QED
  BY <1>1, <1>3, <1>4 DEF Ridden

LEMMA RiddenPopped ==
  ASSUME NEW stack, Entry(stack), stack # <<>>, NEW q, Ridden(stack, q)
  PROVE  Ridden(Popped(stack), q)
BY TopOf DEF Ridden

LEMMA RiddenPushed ==
  ASSUME Typed, NEW e \in Item, e.m.at = e.inverse.at, NEW q,
         Ridden(undoStack, q), Rides(e, q)
  PROVE  Ridden(Pushed(e), q)
<1>1. Entry(undoStack) /\ Len(undoStack) <= HistoryLimit
  <2>1. Entry(undoStack) /\ Entry(redoStack) /\ Len(undoStack) + Len(redoStack) <= HistoryLimit
    BY DEF Typed, HistoryTyped
  <2> QED
    BY <2>1, EntryPlaces, HistoryAssumption
<1>2. PICK s : s = Pushed(e)
  OBVIOUS
<1>3. PICK n \in Nat : n = Len(undoStack)
  BY <1>1, EntryPlaces
<1>4. DOMAIN undoStack = 1 .. n
  BY <1>1, <1>3, EntryPlaces
<1>5. Entry(s)
  BY <1>1, <1>2, PushedProperties
<1>6. \A i \in DOMAIN s : i \in Nat \ {0}
  BY <1>5, EntryPlaces
<1>7. PICK d \in {0, 1} :
        \A i \in DOMAIN s :
          /\ i + d \in 1 .. n + 1
          /\ i + d \in DOMAIN undoStack => s[i] = undoStack[i + d]
          /\ i + d = n + 1 => s[i] = e
  BY <1>1, <1>2, <1>3, PushedProperties
<1>8. ASSUME NEW i \in DOMAIN s, i # 1 PROVE Rides(s[i], q)
  <2>1. i \in Nat \ {0} /\ i + d \in 1 .. n + 1
    BY <1>6, <1>7
  <2>2. i + d # 1
    BY <1>8, <2>1
  <2>3. i + d \in DOMAIN undoStack \/ i + d = n + 1
    BY <1>4, <2>1
  <2> QED
    BY <1>7, <2>2, <2>3 DEF Ridden
<1> QED
  BY <1>2, <1>8 DEF Ridden

\* The first operation leaves the queue, and its entry is marked.
LEMMA RiddenMarked ==
  ASSUME Typed, OwnReceived, NEW stack, Entry(stack), Ridden(stack, queue)
  PROVE  Ridden(Marked(stack), queue')
<1>1. /\ revision < Len(log) /\ revision' = revision + 1 /\ log[revision'].op = queue[1].op
      /\ \A i \in DOMAIN queue : i # 1 => i - 1 \in DOMAIN queue'
      /\ \A i \in DOMAIN queue' :
           queue'[i].op = queue[i + 1].op /\ queue'[i].m = queue[i + 1].m
  BY DEF OwnReceived
<1>2. Incoming.op = queue[1].op
  BY <1>1 DEF Incoming
<1>3. PICK s : s = Marked(stack)
  OBVIOUS
<1>4. DOMAIN s = DOMAIN stack /\ \A i \in DOMAIN stack : MarkedItem(stack[i], s[i])
  BY <1>1, <1>3, MarkedProperties
<1>5. ASSUME NEW j \in DOMAIN s, j # 1, Moves(s[j].m), s[j].committed = 0
      PROVE  \E k, i \in DOMAIN queue' :
               /\ k <= i /\ queue'[k].op = s[j].op
               /\ Moves(queue'[i].m) /\ queue'[i].m.at = s[j].m.at
  <2>1. revision + 1 # 0
    BY TypedPlaces
  <2>2. s[j].op # queue[1].op /\ s[j] = stack[j]
    BY <1>2, <1>4, <1>5, <2>1 DEF MarkedItem
  <2>3. PICK k \in DOMAIN queue, i \in DOMAIN queue :
          /\ k <= i /\ queue[k].op = s[j].op
          /\ Moves(queue[i].m) /\ queue[i].m.at = s[j].m.at
    BY <1>4, <1>5, <2>2 DEF Ridden, Rides
  <2>4. k # 1 /\ k \in Nat \ {0} /\ i \in Nat \ {0}
    BY <2>2, <2>3, TypedPlaces
  <2>5. i # 1 /\ k - 1 <= i - 1 /\ i - 1 + 1 = i /\ k - 1 + 1 = k
    BY <2>3, <2>4
  <2>6. i - 1 \in DOMAIN queue' /\ k - 1 \in DOMAIN queue'
    BY <1>1, <2>4, <2>5
  <2> QED
    BY <1>1, <2>3, <2>5, <2>6
<1> QED
  BY <1>3, <1>5 DEF Ridden, Rides

\* Over entries that move rows only writes are received.
LEMMA WritesOverMoves ==
  ASSUME NEW stack, Entry(stack), NEW c, ~ Displaces(stack, c),
         NEW j \in DOMAIN stack, j # 1, Moves(stack[j].m)
  PROVE  ~ Moves(c)
<1>1. PICK n \in Nat : n = Len(stack)
  BY EntryPlaces
<1>2. DOMAIN stack = 1 .. n
  BY <1>1, EntryPlaces
<1>3. 1 \in DOMAIN stack /\ 1 < j
  BY <1>2
<1> QED
  BY <1>3 DEF Displaces

LEMMA RiddenThinned ==
  ASSUME Typed, NEW c \in Mutation, OtherReceived(c), NEW stack, Entry(stack),
         ~ Displaces(stack, c), NEW s, Thinned(stack, s, c), Ridden(stack, queue)
  PROVE  Ridden(s, queue')
<1>1. PICK g \in [DOMAIN s -> DOMAIN stack] :
        /\ \A i \in DOMAIN s : MovedItem(stack[g[i]], s[i], c)
        /\ \A i, j \in DOMAIN s : i < j => g[i] < g[j]
  BY DEF Thinned
<1>2. Entry(s)
  BY DEF Thinned
<1>3. PICK n \in Nat, o \in Nat : n = Len(stack) /\ o = Len(s)
  BY <1>2, EntryPlaces
<1>4. DOMAIN stack = 1 .. n /\ DOMAIN s = 1 .. o
  BY <1>2, <1>3, EntryPlaces
<1>5. /\ DOMAIN queue' = DOMAIN queue
      /\ \A i \in DOMAIN queue :
           /\ queue'[i].op = queue[i].op
           /\ i # 1 => queue'[i].m = Rebased(queue[i].m, c)
           /\ i = 1 => queue'[i] = queue[i]
  BY DEF OtherReceived
<1>6. ASSUME NEW m \in Mutation, ~ Moves(c) PROVE Rebased(m, c) = m
  BY <1>6 DEF Moves, Rebased, RowAfter, Mutation
<1>7. ASSUME NEW j \in DOMAIN s, j # 1, Moves(s[j].m), s[j].committed = 0
      PROVE  \E k, i \in DOMAIN queue' :
               /\ k <= i /\ queue'[k].op = s[j].op
               /\ Moves(queue'[i].m) /\ queue'[i].m.at = s[j].m.at
  <2>1. PICK x \in DOMAIN stack : x = g[j]
    BY <1>1
  <2>2. x # 1
    <3>1. 1 \in DOMAIN s /\ 1 < j
      BY <1>4, <1>7
    <3>2. g[1] < x /\ g[1] \in 1 .. n
      BY <1>1, <1>4, <2>1, <3>1
    <3> QED
      BY <3>2
  <2>3. PICK e \in Item : e = stack[x]
    BY EntryPlaces
  <2>4. MovedItem(e, s[j], c)
    BY <1>1, <2>1, <2>3
  <2>5. /\ s[j].m = Rebased(e.m, c) /\ s[j].op = e.op /\ s[j].committed = e.committed
        /\ e.m \in Mutation
    BY <2>4 DEF MovedItem, Item
  <2>6. Moves(e.m)
    BY <1>7, <2>5, RebasedFields DEF Moves
  <2>7. ~ Moves(c)
    BY <2>2, <2>3, <2>6, WritesOverMoves
  <2>8. s[j].m = e.m
    BY <1>6, <2>5, <2>7
  <2>9. PICK k \in DOMAIN queue, i \in DOMAIN queue :
          /\ k <= i /\ queue[k].op = e.op
          /\ Moves(queue[i].m) /\ queue[i].m.at = e.m.at
    BY <1>7, <2>2, <2>3, <2>5, <2>6 DEF Ridden, Rides
  <2>10. queue[i].m \in Mutation
    BY TypedPlaces DEF Queued
  <2>11. queue'[i].m = queue[i].m /\ queue'[k].op = queue[k].op
    BY <1>5, <1>6, <2>7, <2>10
  <2> QED
    BY <1>5, <2>5, <2>8, <2>9, <2>11
<1> QED
  BY <1>7 DEF Ridden, Rides

LEMMA RidingSteps ==
  ASSUME Typed, Known, Opposed, Riding, [Next]_vars
  PROVE  Riding'
<1>1. Entry(undoStack) /\ Entry(redoStack)
  BY DEF Typed, HistoryTyped
<1>2. CASE Reloaded
  BY <1>2, RiddenNothing DEF Reloaded, Riding
<1>3. CASE Grown \/ Halted
  <2>1. UNCHANGED <<queue, crossed, undoStack, redoStack, displaced>>
    BY <1>3 DEF Grown, LogGrows, Halted, queueVars, pageVars
  <2> QED
    BY <2>1 DEF Riding
<1>4. SUFFICES ASSUME ~ Reloaded, ~ Grown, ~ Halted, ~ crossed', ~ displaced'
               PROVE  Ridden(undoStack', queue') /\ Ridden(redoStack', queue')
  BY <1>2, <1>3 DEF Riding
<1>5. ~ crossed /\ ~ displaced
  <2>1. ASSUME NEW m, NEW undoes, Enqueued(m, undoes) PROVE crossed' = crossed
    BY <2>1 DEF Enqueued
  <2>2. Executed \/ Undone \/ Redone => crossed' = crossed /\ displaced' = displaced
    BY <2>1 DEF Executed, Undone, Redone
  <2>3. Acknowledged => crossed' = crossed /\ displaced' = displaced
    BY DEF Acknowledged, OwnReceived
  <2>4. Received => (crossed => crossed') /\ (displaced => displaced')
    BY DEF Received, OtherReceived
  <2> QED
    BY <1>4, <2>2, <2>3, <2>4, Steps
<1>6. Ridden(undoStack, queue) /\ Ridden(redoStack, queue)
  BY <1>5 DEF Riding
<1>7. CASE Executed
  <2>1. PICK m \in Mutation, e \in Item :
          /\ Enqueued(m, 0)
          /\ e.op = nextOp /\ e.m.at = e.inverse.at /\ e.m = m
          /\ undoStack' = Pushed(e) /\ redoStack' = <<>>
    BY <1>7 DEF Executed
  <2>2. Ridden(undoStack, queue') /\ Rides(e, queue')
    BY <1>6, <2>1, RiddenGoesOn, RidesEnqueued
  <2> QED
    BY <2>1, <2>2, RiddenPushed, RiddenNothing
<1>8. CASE Undone
  <2>1. PICK e \in Item :
          /\ undoStack # <<>> /\ e = Top(undoStack) /\ Enqueued(e.inverse, e.op)
          /\ undoStack' = Popped(undoStack) /\ redoStack' = Append(redoStack, e)
    BY <1>8 DEF Undone
  <2>2. Ridden(undoStack, queue') /\ Ridden(redoStack, queue')
    BY <1>6, <2>1, RiddenGoesOn
  <2>3. /\ e.m.at = e.inverse.at /\ e = undoStack[Len(undoStack)]
        /\ Len(undoStack) \in DOMAIN undoStack
    BY <1>1, <2>1, TopOf, EntryPlaces
  <2>4. e.committed # 0 \/ \E k \in DOMAIN queue : queue[k].op = e.op
    BY <2>3 DEF Known, AllKnownIn, KnownIn
  <2>5. Moves(e.m) => Moves(e.inverse)
    <3>1. Opposite(e)
      BY <1>1, <2>1, MembersPopped DEF Opposed, AllOpposite
    <3> QED
      BY <3>1 DEF Opposite, Flipped, Moves, Item, Mutation
  <2>6. Rides(e, queue')
    BY <2>1, <2>3, <2>4, <2>5, RidesEnqueued
  <2> QED
    BY <1>1, <2>1, <2>2, <2>3, <2>6, RiddenPopped, RiddenAppended
<1>9. CASE Redone
  <2>1. PICK e \in Item :
          /\ redoStack # <<>> /\ Enqueued(e.m, 0)
          /\ e.op = nextOp /\ e.m.at = e.inverse.at
          /\ undoStack' = Append(undoStack, e) /\ redoStack' = Popped(redoStack)
    BY <1>9 DEF Redone
  <2>2. Ridden(undoStack, queue') /\ Ridden(redoStack, queue')
    BY <1>6, <2>1, RiddenGoesOn
  <2>3. Rides(e, queue')
    BY <2>1, RidesEnqueued
  <2> QED
    BY <1>1, <2>1, <2>2, <2>3, RiddenPopped, RiddenAppended
<1>10. CASE Acknowledged
  BY <1>1, <1>6, <1>10, RiddenMarked DEF Acknowledged
<1>11. CASE Received
  <2>1. PICK c \in Mutation :
          /\ OtherReceived(c)
          /\ Thinned(undoStack, undoStack', c) /\ Thinned(redoStack, redoStack', c)
          /\ displaced' = (displaced \/ Displaces(undoStack, c) \/ Displaces(redoStack, c))
    BY <1>11 DEF Received
  <2>2. ~ Displaces(undoStack, c) /\ ~ Displaces(redoStack, c)
    BY <1>4, <2>1
  <2>3. Ridden(undoStack', queue')
    BY <1>1, <1>6, <2>1, <2>2, RiddenThinned
  <2>4. Ridden(redoStack', queue')
    BY <1>1, <1>6, <2>1, <2>2, RiddenThinned
  <2> QED
    BY <2>3, <2>4
<1> QED
  BY <1>4, <1>7, <1>8, <1>9, <1>10, <1>11, Steps

-----------------------------------------------------------------------------
(* The documents of the entries, in every step. *)

\* Each stack leads back from the document of the page.
Leading ==
  \/ crossed \/ displaced
  \/ /\ Grounded(undoStack, FALSE, rows, revision)
     /\ Grounded(redoStack, TRUE, rows, revision)

LEMMA GroundedPushed ==
  ASSUME Entry(undoStack), NEW e \in Item, e.m.at = e.inverse.at, NEW again, NEW doc, NEW r,
         Grounded(Append(undoStack, e), again, doc, r)
  PROVE  Grounded(Pushed(e), again, doc, r)
<1>1. PICK s : s = Append(undoStack, e)
  OBVIOUS
<1>2. Entry(s) /\ Len(s) = Len(undoStack) + 1 /\ Len(undoStack) \in Nat
  BY <1>1, AppendedEntry
<1>3. s # <<>>
  <2>1. Len(s) # 0
    BY <1>2
  <2> QED
    BY <2>1, EmptyEntry
<1>4. Pushed(e) = s \/ Pushed(e) = Tail(s)
  BY <1>1 DEF Pushed
<1> QED
  BY <1>1, <1>2, <1>3, <1>4, GroundedTail

LEMMA GroundedNothing ==
  ASSUME NEW again, NEW doc, NEW r
  PROVE  Grounded(<<>>, again, doc, r)
BY DEF Grounded

\* The first operation is committed: the entries that could not be replayed
\* still cannot.
LEMMA GroundedMarked ==
  ASSUME Typed, CommittedOnce, OwnReceived, NEW stack, Entry(stack),
         AllKnownIn(stack, queue, log, revision), NEW again, NEW doc,
         Grounded(stack, again, doc, revision)
  PROVE  Grounded(Marked(stack), again, doc, revision')
<1>1. revision < Len(log) /\ revision' = revision + 1 /\ revision' \in DOMAIN log
  BY DEF OwnReceived
<1>2. Incoming = log[revision']
  BY <1>1 DEF Incoming
<1>3. PICK r \in Nat : r = revision
  BY TypedPlaces
<1>4. PICK s : s = Marked(stack)
  OBVIOUS
<1>5. /\ Entry(s) /\ Len(s) = Len(stack) /\ DOMAIN stack = 1 .. Len(stack)
      /\ \A i \in DOMAIN stack : MarkedItem(stack[i], s[i])
  BY <1>1, <1>4, MarkedProperties, EntryPlaces
<1>6. ASSUME NEW i \in DOMAIN stack
      PROVE  /\ s[i].m = stack[i].m /\ s[i].inverse = stack[i].inverse
             /\ Frozen(stack[i], r) => Frozen(s[i], r + 1)
  <2>1. PICK e \in Item : e = stack[i]
    BY EntryPlaces
  <2>2. MarkedItem(e, s[i]) /\ KnownIn(e, queue, log, revision)
    BY <1>5, <2>1 DEF AllKnownIn
  <2>3. s[i].m = e.m /\ s[i].inverse = e.inverse
    BY <2>2 DEF MarkedItem
  <2>4. ASSUME Frozen(e, r) PROVE Frozen(s[i], r + 1)
    <3>1. Moves(e.m) /\ e.committed # 0 /\ e.committed # r
      BY <2>4 DEF Frozen
    <3>2. PICK k \in Nat : k = e.committed
      BY DEF Item
    <3>3. k <= r /\ k # 0 /\ log[k].op = e.op
      BY <1>3, <2>2, <3>1, <3>2 DEF KnownIn
    <3>4. k \in DOMAIN log /\ k # r + 1
      <4>1. r <= Len(log) /\ Len(log) \in Nat /\ DOMAIN log = 1 .. Len(log)
        BY <1>3, TypedPlaces
      <4> QED
        BY <3>2, <3>3, <4>1
    <3>5. e.op # 0
      BY EditingAssumption DEF Item, Ops
    <3>6. e.op # Incoming.op
      BY <1>1, <1>2, <1>3, <3>3, <3>4, <3>5 DEF CommittedOnce
    <3>7. s[i] = e
      BY <2>2, <3>6 DEF MarkedItem
    <3> QED
      BY <3>1, <3>2, <3>3, <3>4, <3>7 DEF Frozen
  <2> QED
    BY <2>1, <2>3, <2>4
<1>7. \A i \in 1 .. Len(stack) :
        /\ s[i].m = stack[i].m /\ s[i].inverse = stack[i].inverse
        /\ Frozen(stack[i], r) => Frozen(s[i], r + 1)
  BY <1>5, <1>6
<1>8. Grounded(s, again, doc, r + 1)
  BY <1>3, <1>5, <1>7, GroundedAlike
<1> QED
  BY <1>1, <1>3, <1>4, <1>8

\* A revision of another user that is not received across the page's own moves.
LEMMA GroundedThinned ==
  ASSUME Typed, NEW c \in Mutation, OtherReceived(c), ~ crossed',
         NEW stack, Entry(stack), AllOpposite(stack), Ridden(stack, queue),
         AllKnownIn(stack, queue, log, revision), ~ Displaces(stack, c),
         NEW s, Thinned(stack, s, c), NEW again, Grounded(stack, again, rows, revision)
  PROVE  Grounded(s, again, rows', revision')
<1>1. /\ revision' = revision + 1 /\ rows' = Applied(rows, c) /\ InBounds(rows, c)
      /\ \A i \in DOMAIN queue : ~ SameRow(queue[i].m, c)
      /\ \A i \in DOMAIN queue : ~ (Moves(queue[i].m) /\ c.at > queue[i].m.at)
  BY DEF OtherReceived
<1>2. rows \in Sheets /\ revision \in Nat
  BY DEF Typed, PageTyped
<1>3. ASSUME NEW i \in DOMAIN stack PROVE stack[i].committed <= revision
  <2>1. KnownIn(stack[i], queue, log, revision)
    BY DEF AllKnownIn
  <2> QED
    BY <1>2, <2>1 DEF KnownIn
<1>4. ASSUME NEW j \in DOMAIN stack, j # 1, Moves(stack[j].m), stack[j].committed = 0
      PROVE  c.at < stack[j].m.at
  <2>1. PICK i \in DOMAIN queue : Moves(queue[i].m) /\ queue[i].m.at = stack[j].m.at
    BY <1>4 DEF Ridden, Rides
  <2>2. queue[i].m \in Mutation
    BY TypedPlaces DEF Queued
  <2>3. ~ SameRow(queue[i].m, c) /\ ~ (c.at > queue[i].m.at)
    BY <1>1, <2>1
  <2>4. c.at \in Nat /\ queue[i].m.at \in Nat
    BY <2>2 DEF Mutation
  <2> QED
    BY <2>1, <2>3, <2>4 DEF SameRow
<1>5. Grounded(s, again, Applied(rows, c), revision + 1)
  BY <1>1, <1>2, <1>3, <1>4, GroundedReceived
<1> QED
  BY <1>1, <1>5

LEMMA LeadingSteps ==
  ASSUME Typed, Own, Known, Opposed, Riding, Leading, [Next]_vars
  PROVE  Leading'
<1>1. Entry(undoStack) /\ Entry(redoStack) /\ rows \in Sheets
  BY DEF Typed, HistoryTyped, PageTyped
<1>2. CASE Reloaded
  BY <1>2, GroundedNothing DEF Reloaded, Leading
<1>3. CASE Grown \/ Halted
  <2>1. UNCHANGED <<rows, revision, crossed, undoStack, redoStack, displaced>>
    BY <1>3 DEF Grown, LogGrows, Halted, pageVars
  <2> QED
    BY <2>1 DEF Leading
<1>4. SUFFICES ASSUME ~ Reloaded, ~ Grown, ~ Halted, ~ crossed', ~ displaced'
               PROVE  /\ Grounded(undoStack', FALSE, rows', revision')
                      /\ Grounded(redoStack', TRUE, rows', revision')
  BY <1>2, <1>3 DEF Leading
<1>5. ~ crossed /\ ~ displaced
  <2>1. ASSUME NEW m, NEW undoes, Enqueued(m, undoes) PROVE crossed' = crossed
    BY <2>1 DEF Enqueued
  <2>2. Executed \/ Undone \/ Redone => crossed' = crossed /\ displaced' = displaced
    BY <2>1 DEF Executed, Undone, Redone
  <2>3. Acknowledged => crossed' = crossed /\ displaced' = displaced
    BY DEF Acknowledged, OwnReceived
  <2>4. Received => (crossed => crossed') /\ (displaced => displaced')
    BY DEF Received, OtherReceived
  <2> QED
    BY <1>4, <2>2, <2>3, <2>4, Steps
<1>6. /\ Grounded(undoStack, FALSE, rows, revision)
      /\ Grounded(redoStack, TRUE, rows, revision)
  BY <1>5 DEF Leading
<1>7. CASE Executed
  <2>1. PICK m \in Mutation, e \in Item :
          /\ Enqueued(m, 0)
          /\ e.m.at = e.inverse.at /\ e.m = m /\ e.inverse = Inverted(rows, m)
          /\ undoStack' = Pushed(e) /\ redoStack' = <<>>
    BY <1>7 DEF Executed
  <2>2. InBounds(rows, m) /\ rows' = Applied(rows, m) /\ revision' = revision
    BY <2>1 DEF Enqueued
  <2>3. rows \in Document /\ Len(rows) > 0
    BY <1>1 DEF Sheets
  <2>4. Forth(e, FALSE) = m /\ Back(e, FALSE) = e.inverse
    BY <2>1 DEF Forth, Back
  <2>5. rows' \in Sheets /\ Holds(rows', Forth(e, FALSE))
    BY <1>1, <2>2, <2>4, SheetsChange, AppliedHolds
  <2>6. InBounds(rows', e.inverse) /\ Applied(rows', e.inverse) = rows
    BY <2>1, <2>2, <2>3, InverseRestores
  <2>7. Grounded(Append(undoStack, e), FALSE, rows', revision)
    BY <1>1, <1>6, <2>1, <2>4, <2>5, <2>6, GroundedAppended
  <2>8. Grounded(Pushed(e), FALSE, rows', revision)
    BY <1>1, <2>1, <2>7, GroundedPushed
  <2> QED
    BY <2>1, <2>2, <2>8, GroundedNothing
<1>8. CASE Undone
  <2>1. PICK e \in Item :
          /\ undoStack # <<>> /\ e = Top(undoStack) /\ Replayable(e)
          /\ Enqueued(e.inverse, e.op)
          /\ undoStack' = Popped(undoStack) /\ redoStack' = Append(redoStack, e)
    BY <1>8 DEF Undone
  <2>2. InBounds(rows, e.inverse) /\ rows' = Applied(rows, e.inverse) /\ revision' = revision
    BY <2>1 DEF Enqueued
  <2>3. ~ Frozen(e, revision)
    BY <2>1 DEF Frozen, Replayable
  <2>4. e.m.at = e.inverse.at /\ Opposite(e)
    BY <1>1, <2>1, MembersPopped, MembersTyped DEF Opposed, AllOpposite
  <2>5. /\ Forth(e, FALSE) = e.m /\ Back(e, FALSE) = e.inverse
        /\ Forth(e, TRUE) = e.inverse /\ Back(e, TRUE) = e.m
    BY DEF Forth, Back
  <2>6. Holds(rows, e.m) /\ Grounded(Popped(undoStack), FALSE, rows', revision)
    BY <1>1, <1>6, <2>1, <2>2, <2>3, <2>5, GroundedPopped
  <2>7. WaysOf(e, e.inverse, e.m)
    BY <2>4, <2>5, WaysOfItem
  <2>8. e.inverse \in Mutation /\ e.m \in Mutation /\ e.m.kind = Flipped(e.inverse.kind)
    BY <2>7 DEF WaysOf
  <2>9. rows' \in Sheets /\ Holds(rows', e.inverse)
    BY <1>1, <2>2, <2>8, SheetsChange, AppliedHolds
  <2>10. InBounds(rows', e.m) /\ Applied(rows', e.m) = rows
    BY <1>1, <2>2, <2>4, <2>6, <2>8, Reversal
  <2>11. Grounded(Append(redoStack, e), TRUE, rows', revision)
    BY <1>1, <1>6, <2>4, <2>5, <2>9, <2>10, GroundedAppended
  <2> QED
    BY <2>1, <2>2, <2>6, <2>11
<1>9. CASE Redone
  <2>1. PICK e \in Item, f \in Item :
          /\ redoStack # <<>> /\ f = Top(redoStack) /\ Replayable(f)
          /\ Enqueued(e.m, 0)
          /\ e.m = f.m /\ e.inverse = f.inverse
          /\ undoStack' = Append(undoStack, e) /\ redoStack' = Popped(redoStack)
    BY <1>9 DEF Redone
  <2>2. InBounds(rows, e.m) /\ rows' = Applied(rows, e.m) /\ revision' = revision
    BY <2>1 DEF Enqueued
  <2>3. ~ Frozen(f, revision)
    BY <2>1 DEF Frozen, Replayable
  <2>4. f.m.at = f.inverse.at /\ Opposite(f)
    BY <1>1, <2>1, MembersPopped, MembersTyped DEF Opposed, AllOpposite
  <2>5. /\ Forth(f, TRUE) = e.inverse /\ Back(f, TRUE) = e.m
        /\ Forth(e, FALSE) = e.m /\ Back(e, FALSE) = e.inverse
    BY <2>1 DEF Forth, Back
  <2>6. Holds(rows, e.inverse) /\ Grounded(Popped(redoStack), TRUE, rows', revision)
    BY <1>1, <1>6, <2>1, <2>2, <2>3, <2>5, GroundedPopped
  <2>7. e.m.at = e.inverse.at /\ Opposite(e)
    BY <2>1, <2>4 DEF Opposite
  <2>8. WaysOf(e, e.m, e.inverse)
    BY <2>5, <2>7, WaysOfItem
  <2>9. e.m \in Mutation /\ e.inverse \in Mutation /\ e.inverse.kind = Flipped(e.m.kind)
    BY <2>8 DEF WaysOf
  <2>10. rows' \in Sheets /\ Holds(rows', e.m)
    BY <1>1, <2>2, <2>9, SheetsChange, AppliedHolds
  <2>11. InBounds(rows', e.inverse) /\ Applied(rows', e.inverse) = rows
    BY <1>1, <2>2, <2>6, <2>7, <2>9, Reversal
  <2>12. Grounded(Append(undoStack, e), FALSE, rows', revision)
    BY <1>1, <1>6, <2>5, <2>7, <2>10, <2>11, GroundedAppended
  <2> QED
    BY <2>1, <2>2, <2>6, <2>12
<1>10. CASE Acknowledged
  <2>1. /\ OwnReceived /\ rows' = rows
        /\ undoStack' = Marked(undoStack) /\ redoStack' = Marked(redoStack)
    BY <1>10 DEF Acknowledged, OwnReceived
  <2>2. /\ CommittedOnce
        /\ AllKnownIn(undoStack, queue, log, revision)
        /\ AllKnownIn(redoStack, queue, log, revision)
    BY DEF Own, Known
  <2> QED
    BY <1>1, <1>6, <2>1, <2>2, GroundedMarked
<1>11. CASE Received
  <2>1. PICK c \in Mutation :
          /\ OtherReceived(c)
          /\ Thinned(undoStack, undoStack', c) /\ Thinned(redoStack, redoStack', c)
          /\ displaced' = (displaced \/ Displaces(undoStack, c) \/ Displaces(redoStack, c))
    BY <1>11 DEF Received
  <2>2. ~ Displaces(undoStack, c) /\ ~ Displaces(redoStack, c)
    BY <1>4, <2>1
  <2>3. /\ AllOpposite(undoStack) /\ AllOpposite(redoStack)
        /\ AllKnownIn(undoStack, queue, log, revision)
        /\ AllKnownIn(redoStack, queue, log, revision)
        /\ Ridden(undoStack, queue) /\ Ridden(redoStack, queue)
    BY <1>5 DEF Opposed, Known, Riding
  <2>4. Grounded(undoStack', FALSE, rows', revision')
    BY <1>1, <1>4, <1>6, <2>1, <2>2, <2>3, GroundedThinned
  <2>5. Grounded(redoStack', TRUE, rows', revision')
    BY <1>1, <1>4, <1>6, <2>1, <2>2, <2>3, GroundedThinned
  <2> QED
    BY <2>4, <2>5
<1> QED
  BY <1>4, <1>7, <1>8, <1>9, <1>10, <1>11, Steps

\* Each entry of a stack leads back to the document in which the one below it
\* is the next, unless an entry was displaced.
THEOREM StacksLeadBack == Spec => [](Riding /\ Leading)
<1>1. Init => Riding /\ Leading
  BY RiddenNothing, GroundedNothing DEF Init, Riding, Leading
<1>2. IInv /\ Opposed /\ Riding /\ Leading /\ [Next]_vars => Riding' /\ Leading'
  BY RidingSteps, LeadingSteps DEF IInv
<1>3. UndoInv => Opposed
  BY DEF UndoInv
<1> QED
  BY <1>1, <1>2, <1>3, InvariantHolds, UndosAreKnown, PTL DEF Spec

\* The next undo of a write finds in its row what was written, the next redo
\* what was there before, unless an entry was displaced.
THEOREM HistoryIsInPlace == Spec => []HistoryInPlaceUnlessDisplaced
<1>1. IInv /\ Opposed /\ Leading => HistoryInPlaceUnlessDisplaced
  <2> SUFFICES ASSUME IInv, Opposed, Leading, ~ crossed, ~ displaced
               PROVE  /\ undoStack # <<>> => LET entry == Top(undoStack) IN
                           ~ Moves(entry.m) => rows[entry.m.at] = entry.m.cell
                      /\ redoStack # <<>> => LET entry == Top(redoStack) IN
                           ~ Moves(entry.m) => rows[entry.inverse.at] = entry.inverse.cell
    BY DEF HistoryInPlaceUnlessDisplaced
  <2>1. Entry(undoStack) /\ Entry(redoStack) /\ rows \in Sheets
    BY DEF IInv, Typed, HistoryTyped, PageTyped
  <2>2. /\ Grounded(undoStack, FALSE, rows, revision)
        /\ Grounded(redoStack, TRUE, rows, revision)
    BY DEF Leading
  <2>3. ASSUME undoStack # <<>>, ~ Moves(Top(undoStack).m)
        PROVE  rows[Top(undoStack).m.at] = Top(undoStack).m.cell
    <3>1. ~ Frozen(Top(undoStack), revision)
      BY <2>3 DEF Frozen
    <3>2. Holds(rows, Forth(Top(undoStack), FALSE))
      BY <2>1, <2>2, <2>3, <3>1, GroundedPopped
    <3>3. Holds(rows, Top(undoStack).m) /\ Top(undoStack).m.kind # "delete"
      BY <2>3, <3>2 DEF Forth, Moves
    <3> QED
      BY <3>3 DEF Holds
  <2>4. ASSUME redoStack # <<>>, ~ Moves(Top(redoStack).m)
        PROVE  rows[Top(redoStack).inverse.at] = Top(redoStack).inverse.cell
    <3>1. ~ Frozen(Top(redoStack), revision)
      BY <2>4 DEF Frozen
    <3>2. Holds(rows, Forth(Top(redoStack), TRUE))
      BY <2>1, <2>2, <2>4, <3>1, GroundedPopped
    <3>3. Opposite(Top(redoStack))
      BY <2>1, <2>4, MembersPopped DEF Opposed, AllOpposite
    <3>4. Top(redoStack).inverse.kind # "delete"
      BY <2>4, <3>3 DEF Opposite, Flipped, Moves
    <3>5. Holds(rows, Top(redoStack).inverse)
      BY <3>2 DEF Forth
    <3> QED
      BY <3>4, <3>5 DEF Holds
  <2> QED
    BY <2>3, <2>4
<1>2. UndoInv => Opposed
  BY DEF UndoInv
<1> QED
  BY <1>1, <1>2, InvariantHolds, UndosAreKnown, StacksLeadBack, PTL
=============================================================================
