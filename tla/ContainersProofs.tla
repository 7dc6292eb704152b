--------------------------- MODULE ContainersProofs ---------------------------
(***************************************************************************)
(* The containers, for any sizes and steps of growth.                      *)
(*                                                                         *)
(* The stacks stay in their memory, although growth is decided by a        *)
(* comparison of tokens with cells and gstack_grow allocates once whatever *)
(* it is asked for.  The inductive invariant says that as many tokens are  *)
(* allocated as the stack has.  It needs the assertion on count in         *)
(* gstack_grow, and nothing but positive sizes of the constants.  That the *)
(* cells are a stack needs, besides, that memory is only written in whole  *)
(* tokens (Whole): then a token is read as one value, and each operation   *)
(* is the operation of LifoStack on the tokens up to the top.              *)
(*                                                                         *)
(* Text segments number names once and for all: the array by number and    *)
(* the hash table by text agree, copies and reloaded images have the same  *)
(* numbers (ImagesKeepNames), and a map is a table of names                *)
(* (ImplementsNames).                                                      *)
(***************************************************************************)
EXTENDS GenericStack, TextSegments, WellFoundedInduction, TLAPS

-------------------------------------------------------------------------------
(* Stacks *)

StackInv ==
  /\ TypeOK
  /\ tok_sp = sp * TokenSize
  /\ sp + 1 <= sz

-------------------------------------------------------------------------------
\* Multiplication by the token size keeps the order.
LEMMA Monotone ==
  ASSUME NEW T \in Nat, NEW m \in Int, NEW n \in Int, m <= n
  PROVE  m * T <= n * T
<1>1. /\ n - m \in Nat
      /\ (n - m) * T = n * T - m * T
  OBVIOUS
<1>2. (n - m) * T \in Nat
  BY <1>1
<1>3. m * T \in Int /\ n * T \in Int
  OBVIOUS
<1> QED
  BY <1>1, <1>2, <1>3

\* A positive number of cells per token: there are at least as many cells as
\* tokens.
LEMMA TokensBelowCells ==
  ASSUME NEW T \in Nat \ {0}, NEW n \in Nat
  PROVE  n <= n * T
<1>1. n * T = n + n * (T - 1)
  OBVIOUS
<1>2. n * (T - 1) \in Nat
  OBVIOUS
<1> QED
  BY <1>1, <1>2

\* The next cell, and what growth leaves, whatever was counted.
LEMMA NextCell ==
  ASSUME NEW T \in Nat \ {0}, NEW s \in Int, NEW n \in Int
  PROVE  /\ s * T + T * n = (s + n) * T
         /\ s * T + T = (s + 1) * T
         /\ s * T - T = (s - 1) * T
         /\ s * T - T * n = (s - n) * T
OBVIOUS

-------------------------------------------------------------------------------
LEMMA StackInit == Init => StackInv
<1> SUFFICES ASSUME Init PROVE StackInv
  OBVIOUS
<1> USE SizesAssumption DEF Init
<1>1. Cells(0) = {}
  <2>1. 0 * TokenSize = 0
    OBVIOUS
  <2> QED
    BY <2>1 DEF Cells
<1>2. TypeOK
  BY <1>1 DEF TypeOK
<1>3. tok_sp = sp * TokenSize /\ sp + 1 <= sz
  OBVIOUS
<1> QED
  BY <1>2, <1>3 DEF StackInv

\* A push that has to grow the memory writes all the cells that it adds: the
\* new token and zeroes after it.
LEMMA PushedMemory ==
  ASSUME StackInv, NEW w \in Tokens,
         NEW grown \in Nat, grown = sz + PushStep,
         NEW cell \in Int, cell = tok_sp + TokenSize
  PROVE  Written(Cleared(Realloc(grown), cell + TokenSize,
                         cell + TokenSize + (grown - (sp + 1) - 1) * TokenSize), cell, w)
           \in [Cells(grown) -> Tokens \cup {Zero}]
<1> USE SizesAssumption
<1> DEFINE m == Realloc(grown)
           last == cell + TokenSize + (grown - (sp + 1) - 1) * TokenSize
           c1 == Cleared(m, cell + TokenSize, last)
           r == Written(c1, cell, w)
<1>1. sp \in Int /\ sz \in Nat /\ stack \in [Cells(sz) -> Tokens \cup {Zero}] /\ sp + 1 <= sz
      /\ tok_sp = sp * TokenSize
  BY DEF StackInv, TypeOK
<1>2. cell = (sp + 1) * TokenSize
  BY <1>1, NextCell
<1>3. last = grown * TokenSize
  <2>1. cell + TokenSize = (sp + 2) * TokenSize
    BY <1>1, <1>2
  <2>2. (sp + 2) * TokenSize + (grown - (sp + 2)) * TokenSize = grown * TokenSize
    BY <1>1
  <2>3. grown - (sp + 1) - 1 = grown - (sp + 2)
    BY <1>1
  <2> QED
    BY <2>1, <2>2, <2>3
<1>4. (sp + 1) * TokenSize <= sz * TokenSize
  BY <1>1, Monotone
<1>5. DOMAIN r = Cells(grown) /\ r = [c \in Cells(grown) |-> r[c]]
  BY DEF Written, Cleared, Realloc
<1>6. ASSUME NEW c \in Cells(grown) PROVE r[c] \in Tokens \cup {Zero}
  <2>1. c \in Int /\ 0 <= c /\ c <= grown * TokenSize - 1
    BY <1>6, <1>1 DEF Cells
  <2>2. r[c] = IF cell <= c /\ c < cell + TokenSize THEN w
               ELSE IF cell + TokenSize <= c /\ c < last THEN Zero
               ELSE IF c \in DOMAIN stack THEN stack[c] ELSE Junk
    BY <1>6 DEF Written, Cleared, Realloc
  <2>3. c < cell => c \in Cells(sz)
    <3>1. sz * TokenSize \in Int /\ (sp + 1) * TokenSize \in Int
      BY <1>1
    <3> QED
      BY <2>1, <1>2, <1>4, <3>1 DEF Cells
  <2>4. c >= cell + TokenSize => c < last
    <3>1. grown * TokenSize \in Int
      OBVIOUS
    <3> HIDE DEF last
    <3> QED
      BY <2>1, <1>3, <3>1
  <2>5. CASE c < cell
    <3>1. r[c] = stack[c]
      BY <2>1, <2>2, <2>3, <2>5, <1>1
    <3> QED
      BY <3>1, <2>3, <2>5, <1>1
  <2>6. CASE cell <= c /\ c < cell + TokenSize
    BY <2>2, <2>6
  <2>7. CASE c >= cell + TokenSize
    <3>1. r[c] = Zero
      <4> HIDE DEF last, r
      <4> QED
        BY <2>1, <2>2, <2>4, <2>7
    <3> QED
      BY <3>1
  <2> QED
    BY <2>1, <2>5, <2>6, <2>7
<1>7. r \in [Cells(grown) -> Tokens \cup {Zero}]
  <2> HIDE DEF r
  <2> QED
    BY <1>5, <1>6
<1> QED
  BY <1>7

LEMMA PushStepInv == ASSUME StackInv, NEW w \in Tokens, gpush(w) PROVE StackInv'
<1> USE SizesAssumption
<1>1. sp \in Int /\ sp >= -1 /\ sz \in Nat /\ stack \in [Cells(sz) -> Tokens \cup {Zero}]
      /\ sp + 1 <= sz /\ tok_sp = sp * TokenSize /\ tok_sp \in Int
  BY DEF StackInv, TypeOK
<1>2. sp' = sp + 1 /\ tok_sp' = tok_sp + TokenSize
  BY DEF gpush
<1>3. tok_sp' = sp' * TokenSize /\ tok_sp' \in Int
  BY <1>1, <1>2, NextCell
<1>4. sp' <= tok_sp'
  BY <1>1, <1>2, <1>3, TokensBelowCells
<1>5. CASE Full(tok_sp + TokenSize)
  <2>1. sz' = sz + PushStep /\ sz' \in Nat
    BY <1>1, <1>5 DEF gpush
  <2>2. stack' \in [Cells(sz') -> Tokens \cup {Zero}]
    BY <1>1, <1>5, <2>1, PushedMemory DEF gpush
  <2> QED
    BY <1>1, <1>2, <1>3, <2>1, <2>2 DEF StackInv, TypeOK
<1>6. CASE ~Full(tok_sp + TokenSize)
  <2>1. sz' = sz /\ stack' = Written(stack, tok_sp + TokenSize, w)
    BY <1>6 DEF gpush
  <2>2. stack' \in [Cells(sz') -> Tokens \cup {Zero}]
    BY <1>1, <2>1 DEF Written
  <2>3. sp' + 1 <= sz'
    BY <1>1, <1>2, <1>3, <1>4, <1>6, <2>1 DEF Full
  <2> QED
    BY <1>1, <1>2, <1>3, <2>1, <2>2, <2>3 DEF StackInv, TypeOK
<1> QED
  BY <1>5, <1>6

LEMMA GrowStepInv == ASSUME StackInv, gstack_grow PROVE StackInv'
<1> USE SizesAssumption
<1>1. sp \in Int /\ sp >= -1 /\ sz \in Nat /\ stack \in [Cells(sz) -> Tokens \cup {Zero}]
      /\ sp + 1 <= sz /\ tok_sp = sp * TokenSize /\ tok_sp \in Int
  BY DEF StackInv, TypeOK
<1>2. PICK count \in 0 .. GrowStep - 1 :
        /\ sp' = sp + count
        /\ tok_sp' = tok_sp + TokenSize * count
        /\ IF Full(tok_sp + TokenSize * count)
           THEN /\ sz' = sz + GrowStep
                /\ stack' = Cleared(Realloc(sz + GrowStep), sz * TokenSize,
                                    (sz + GrowStep) * TokenSize)
           ELSE UNCHANGED <<sz, stack>>
  BY DEF gstack_grow
<1>3. sp' \in Int /\ sp' >= -1 /\ tok_sp' = sp' * TokenSize /\ tok_sp' \in Int
  BY <1>1, <1>2, NextCell
<1>4. CASE Full(tok_sp + TokenSize * count)
  <2>1. sz' = sz + GrowStep /\ sz' \in Nat /\ sp' + 1 <= sz'
    BY <1>1, <1>2, <1>4
  <2>2. stack' = Cleared(Realloc(sz'), sz * TokenSize, sz' * TokenSize)
    BY <1>2, <1>4, <2>1
  <2>3. ASSUME NEW c \in Cells(sz')
        PROVE (IF sz * TokenSize <= c /\ c < sz' * TokenSize THEN Zero
               ELSE IF c \in DOMAIN stack THEN stack[c] ELSE Junk) \in Tokens \cup {Zero}
    <3>1. sz * TokenSize \in Nat /\ sz' * TokenSize \in Nat
      BY <1>1, <2>1
    <3>2. c \in Int /\ 0 <= c /\ c < sz' * TokenSize
      BY <2>3, <3>1 DEF Cells
    <3>3. c < sz * TokenSize => c \in Cells(sz)
      BY <3>1, <3>2 DEF Cells
    <3> QED
      BY <1>1, <3>1, <3>2, <3>3
  <2>4. stack' \in [Cells(sz') -> Tokens \cup {Zero}]
    BY <2>2, <2>3 DEF Cleared, Realloc
  <2> QED
    BY <1>3, <2>1, <2>4 DEF StackInv, TypeOK
<1>5. CASE ~Full(tok_sp + TokenSize * count)
  <2>1. sz' = sz /\ stack' = stack
    BY <1>2, <1>5
  <2>2. sp' + 1 <= sz'
    <3>1. CASE sp' = -1
      BY <1>1, <2>1, <3>1
    <3>2. CASE sp' \in Nat
      BY <1>1, <1>2, <1>3, <1>5, <2>1, <3>2, TokensBelowCells DEF Full
    <3> QED
      BY <1>3, <3>1, <3>2
  <2> QED
    BY <1>1, <1>3, <2>1, <2>2 DEF StackInv, TypeOK
<1> QED
  BY <1>4, <1>5

\* The invariant is kept by the other steps as well.
LEMMA StackStep == ASSUME StackInv, [Next]_vars PROVE StackInv'
<1> USE SizesAssumption
<1>1. sp \in Int /\ sp >= -1 /\ sz \in Nat /\ stack \in [Cells(sz) -> Tokens \cup {Zero}]
      /\ sp + 1 <= sz /\ tok_sp = sp * TokenSize /\ tok_sp \in Int
  BY DEF StackInv, TypeOK
<1>2. ASSUME NEW w \in Tokens, gpush(w) PROVE StackInv'
  BY <1>2, PushStepInv
<1>3. CASE _gpop
  <2>1. sp' = sp - 1 /\ sp' \in Int /\ sp' >= -1 /\ sz' = sz /\ stack' = stack
    BY <1>1, <1>3 DEF _gpop
  <2>2. tok_sp' = sp' * TokenSize /\ tok_sp' \in Int
    BY <1>1, <1>3, <2>1, NextCell DEF _gpop
  <2> QED
    BY <1>1, <2>1, <2>2 DEF StackInv, TypeOK
<1>4. CASE gstack_grow
  BY <1>4, GrowStepInv
<1>5. CASE gstack_shrink
  <2>1. PICK count \in 0 .. sp + 1 : sp' = sp - count /\ tok_sp' = tok_sp - TokenSize * count
    BY <1>5 DEF gstack_shrink
  <2>2. sp' \in Int /\ sp' >= -1 /\ sz' = sz /\ stack' = stack
    BY <1>1, <1>5, <2>1 DEF gstack_shrink
  <2>3. tok_sp' = sp' * TokenSize /\ tok_sp' \in Int
    BY <1>1, <2>1, <2>2, NextCell
  <2>4. sp' + 1 <= sz'
    BY <1>1, <2>1, <2>2
  <2> QED
    BY <1>1, <2>2, <2>3, <2>4 DEF StackInv, TypeOK
<1>6. CASE _gpeek
  BY <1>1, <1>6 DEF _gpeek, StackInv, TypeOK
<1>7. CASE gstack_deinit
  <2>1. Cells(0) = {}
    <3>1. 0 * TokenSize = 0
      OBVIOUS
    <3> QED
      BY <3>1 DEF Cells
  <2>2. sp' = -1 /\ tok_sp' = -TokenSize /\ sz' = 0 /\ stack' = [c \in {} |-> Zero]
    BY <1>7 DEF gstack_deinit
  <2>3. stack' \in [Cells(sz') -> Tokens \cup {Zero}]
    BY <2>1, <2>2
  <2>4. tok_sp' = sp' * TokenSize /\ tok_sp' \in Int
    BY <2>2
  <2> QED
    BY <2>2, <2>3, <2>4 DEF StackInv, TypeOK
<1>8. CASE UNCHANGED vars
  BY <1>1, <1>8 DEF vars, StackInv, TypeOK
<1> QED
  BY <1>2, <1>3, <1>4, <1>5, <1>6, <1>7, <1>8 DEF Next

\* The invariant of the stacks of generic_stack.c holds for every token size.
THEOREM StackInvariance == Spec => []StackInv
<1>1. Init => StackInv
  BY StackInit
<1>2. StackInv /\ [Next]_vars => StackInv'
  BY StackStep
<1> QED
  BY <1>1, <1>2, PTL DEF Spec

\* The token on top, and with it all tokens, lie in the memory of the stack.
LEMMA InvInBounds == StackInv => StackInBounds
<1> SUFFICES ASSUME StackInv, sp # -1
             PROVE tok_sp >= 0 /\ tok_sp .. tok_sp + TokenSize - 1 \subseteq DOMAIN stack
  BY DEF StackInBounds
<1> USE SizesAssumption
<1>1. sp \in Nat /\ sz \in Nat /\ DOMAIN stack = Cells(sz) /\ sp + 1 <= sz
      /\ tok_sp = sp * TokenSize
  BY DEF StackInv, TypeOK
<1>2. tok_sp \in Nat
  BY <1>1
<1>3. tok_sp + TokenSize <= sz * TokenSize
  <2>1. (sp + 1) * TokenSize <= sz * TokenSize
    BY <1>1, Monotone
  <2> QED
    BY <1>1, <2>1, NextCell
<1>4. sz * TokenSize \in Nat
  BY <1>1
<1> QED
  BY <1>1, <1>2, <1>3, <1>4 DEF Cells

\* gpush and gstack_grow always leave room for the tokens of the stack.
THEOREM StackStaysInBounds == Spec => []StackInBounds
<1>1. StackInv => StackInBounds
  BY InvInBounds
<1> QED
  BY <1>1, StackInvariance, PTL

\* Types, and that no cell of the stack's memory is one that nobody wrote.
THEOREM StackTypeCorrect == Spec => []TypeOK
<1>1. StackInv => TypeOK
  BY DEF StackInv
<1> QED
  BY <1>1, StackInvariance, PTL
-------------------------------------------------------------------------------
\* Memory is written in whole tokens: every allocated token is one value, those
\* above the top included, which gstack_grow shows again.
Whole ==
  \A k \in 0 .. sz - 1 : \A c \in k * TokenSize .. k * TokenSize + TokenSize - 1 :
    stack[c] = stack[k * TokenSize]

WholeInv == StackInv /\ Whole

\* The value of token k of the memory.
Token(k) == stack[k * TokenSize]

\* A cell of token k lies above the first cell of a token j as k does above j.
LEMMA CellOf ==
  ASSUME NEW T \in Nat \ {0}, NEW j \in Int, NEW k \in Int, NEW c \in Int,
         k * T <= c, c < k * T + T
  PROVE  /\ j <= k => j * T <= c
         /\ k < j => c < j * T
<1>1. k * T \in Int /\ j * T \in Int /\ (k + 1) * T = k * T + T
  OBVIOUS
<1>2. ASSUME j <= k PROVE j * T <= c
  <2>1. j * T <= k * T
    BY <1>2, Monotone
  <2> QED
    BY <1>1, <2>1
<1>3. ASSUME k < j PROVE c < j * T
  <2>1. (k + 1) * T <= j * T
    BY <1>3, Monotone
  <2> QED
    BY <1>1, <2>1
<1> QED
  BY <1>2, <1>3

\* The cells of an allocated token are cells of the memory.
LEMMA CellAllocated ==
  ASSUME NEW n \in Nat, NEW k \in 0 .. n - 1, NEW c \in Int,
         k * TokenSize <= c, c < k * TokenSize + TokenSize
  PROVE  c \in Cells(n)
<1> USE SizesAssumption
<1>1. 0 * TokenSize = 0 /\ n * TokenSize \in Int
  OBVIOUS
<1>2. 0 * TokenSize <= c /\ c < n * TokenSize
  BY CellOf
<1> QED
  BY <1>1, <1>2 DEF Cells

\* A token that is allocated is read as it was written.
LEMMA ReadsToken ==
  ASSUME WholeInv, NEW k \in 0 .. sz - 1
  PROVE  /\ TokenAt(k * TokenSize) = Token(k)
         /\ Token(k) \in Tokens \cup {Zero}
<1> USE SizesAssumption
<1>1. sz \in Nat /\ stack \in [Cells(sz) -> Tokens \cup {Zero}]
  BY DEF WholeInv, StackInv, TypeOK
<1>2. k * TokenSize \in Int
  OBVIOUS
<1>3. k * TokenSize \in Cells(sz)
  BY <1>1, <1>2, CellAllocated
<1>4. ASSUME NEW c \in k * TokenSize .. k * TokenSize + TokenSize - 1
      PROVE c \in DOMAIN stack /\ stack[c] = stack[k * TokenSize]
  <2>1. c \in Int /\ k * TokenSize <= c /\ c < k * TokenSize + TokenSize
    BY <1>2
  <2>2. c \in Cells(sz)
    BY <1>1, <2>1, CellAllocated
  <2> QED
    BY <1>1, <2>2 DEF WholeInv, Whole
<1> QED
  BY <1>1, <1>3, <1>4 DEF TokenAt, Token

\* The contents of the stack are the tokens up to the top.
LEMMA ContentsAre ==
  ASSUME WholeInv
  PROVE  /\ Contents = [i \in 1 .. sp + 1 |-> Token(i - 1)]
         /\ Contents \in Seq(Tokens \cup {Zero})
         /\ Len(Contents) = sp + 1
         /\ \A k \in 0 .. sp : TokenAt(k * TokenSize) = Token(k)
<1>1. sp \in Int /\ sp >= -1 /\ sz \in Nat /\ sp + 1 <= sz
  BY DEF WholeInv, StackInv, TypeOK
<1>2. \A k \in 0 .. sp : TokenAt(k * TokenSize) = Token(k) /\ Token(k) \in Tokens \cup {Zero}
  BY <1>1, ReadsToken
<1>3. \A i \in 1 .. sp + 1 : i - 1 \in 0 .. sp
  BY <1>1
<1>4. Contents = [i \in 1 .. sp + 1 |-> Token(i - 1)]
  BY <1>2, <1>3 DEF Contents
<1>5. \A i \in 1 .. sp + 1 : Token(i - 1) \in Tokens \cup {Zero}
  BY <1>2, <1>3
<1> QED
  BY <1>1, <1>2, <1>4, <1>5
\* The same after a step.
LEMMA ContentsAfter ==
  WholeInv' => Contents' = [i \in 1 .. sp' + 1 |-> stack'[(i - 1) * TokenSize]]
<1>1. WholeInv => Contents = [i \in 1 .. sp + 1 |-> stack[(i - 1) * TokenSize]]
  BY ContentsAre DEF Token
<1>2. WholeInv' => (Contents = [i \in 1 .. sp + 1 |-> stack[(i - 1) * TokenSize]])'
  BY <1>1, PTL
<1> QED
  BY <1>2

\* Its type and length after a step.
LEMMA ContentsTyped ==
  WholeInv' => Contents' \in Seq(Tokens \cup {Zero}) /\ Len(Contents') = sp' + 1
<1>1. WholeInv => Contents \in Seq(Tokens \cup {Zero}) /\ Len(Contents) = sp + 1
  BY ContentsAre
<1>2. WholeInv' => (Contents \in Seq(Tokens \cup {Zero}) /\ Len(Contents) = sp + 1)'
  BY <1>1, PTL
<1> QED
  BY <1>2

\* A push writes one token and zeroes after it, and leaves the tokens below.
LEMMA PushWrites ==
  ASSUME WholeInv, NEW w \in Tokens, gpush(w)
  PROVE  /\ Whole'
         /\ stack'[(sp + 1) * TokenSize] = w
         /\ \A k \in 0 .. sp : Token(k)' = Token(k)
<1> USE SizesAssumption
<1>1. /\ sp \in Int /\ sp >= -1 /\ sz \in Nat /\ stack \in [Cells(sz) -> Tokens \cup {Zero}]
      /\ sp + 1 <= sz /\ tok_sp + TokenSize = (sp + 1) * TokenSize
      /\ (sp + 1) * TokenSize \in Int /\ sz' \in Nat /\ sz' >= sz /\ sp + 1 < sz'
      /\ (sp + 1) * TokenSize + TokenSize = (sp + 2) * TokenSize
  <2>1. StackInv'
    BY PushStepInv DEF WholeInv
  <2>2. sz' \in Nat /\ sp' + 1 <= sz'
    BY <2>1 DEF StackInv, TypeOK
  <2>3. sp' = sp + 1 /\ (sz' = sz \/ sz' = sz + PushStep)
    BY DEF gpush
  <2>4. sp \in Int /\ sp >= -1 /\ sz \in Nat /\ sp + 1 <= sz /\ tok_sp = sp * TokenSize
        /\ stack \in [Cells(sz) -> Tokens \cup {Zero}]
    BY DEF WholeInv, StackInv, TypeOK
  <2>5. (sp + 1) * TokenSize + TokenSize = (sp + 1 + 1) * TokenSize
    BY <2>4, NextCell
  <2>6. tok_sp + TokenSize = (sp + 1) * TokenSize
    BY <2>4, NextCell
  <2>7. sp + 1 + 1 = sp + 2
    BY <2>4
  <2> QED
    BY <2>2, <2>3, <2>4, <2>5, <2>6, <2>7
<1>0. PICK n \in Nat : n = sz' /\ n >= sz /\ sp + 1 < n
  BY <1>1
<1>7. n >= sz /\ sp + 1 < n /\ sp \in Int /\ sp >= -1
  BY <1>0, <1>1
<1> DEFINE cell == (sp + 1) * TokenSize
           V(k) == IF k = sp + 1 THEN w ELSE IF k <= sp \/ n = sz THEN stack[k * TokenSize] ELSE Zero
<1>2. ASSUME NEW k \in 0 .. n - 1, NEW c \in k * TokenSize .. k * TokenSize + TokenSize - 1
      PROVE stack'[c] = V(k)
  <2>1. c \in Int /\ k \in Int /\ k * TokenSize \in Int /\ k * TokenSize <= c
        /\ c < k * TokenSize + TokenSize
    OBVIOUS
  <2>0. k < n /\ n \in Int
    OBVIOUS
  <2>2. c \in Cells(n)
    BY <1>0, <1>1, <2>1, CellAllocated
  <2>3. /\ k < sp + 1 => c < cell
        /\ k >= sp + 1 => cell <= c
        /\ k < sp + 2 => c < cell + TokenSize
        /\ k >= sp + 2 => cell + TokenSize <= c
    BY <1>1, <2>1, CellOf
  <2>4. cell <= c /\ c < cell + TokenSize <=> k = sp + 1
    BY <1>1, <2>1, <2>3
  <2>5. ASSUME k < sz PROVE c \in Cells(sz) /\ stack[c] = stack[k * TokenSize]
    <3>1. k \in 0 .. sz - 1
      BY <1>1, <2>1, <2>5
    <3>2. c \in Cells(sz)
      BY <1>1, <2>1, <3>1, CellAllocated
    <3> QED
      BY <3>1, <3>2 DEF WholeInv, Whole
  <2>6. CASE Full(cell)
    <3> DEFINE last == cell + TokenSize + (sz + PushStep - (sp + 1) - 1) * TokenSize
    <3>1. /\ n = sz + PushStep
          /\ stack' = Written(Cleared(Realloc(n), cell + TokenSize, last), cell, w)
      BY <1>0, <1>1, <2>6 DEF gpush
    <3>2. stack'[c] = IF cell <= c /\ c < cell + TokenSize THEN w
                      ELSE IF cell + TokenSize <= c /\ c < last THEN Zero
                      ELSE IF c \in DOMAIN stack THEN stack[c] ELSE Junk
      BY <1>0, <2>2, <3>1 DEF Written, Cleared, Realloc
    <3>3. last = n * TokenSize
      <4>1. (sp + 2) * TokenSize + (n - (sp + 2)) * TokenSize = n * TokenSize
        BY <1>0, <1>1
      <4>2. sz + PushStep - (sp + 1) - 1 = n - (sp + 2)
        BY <1>1, <3>1
      <4> QED
        BY <1>1, <4>1, <4>2
    <3>4. c < last
      <4> HIDE DEF last
      <4>1. c < n * TokenSize
        BY <2>0, <2>1, CellOf
      <4> QED
        BY <3>3, <4>1
    <3> HIDE DEF last
    <3>5. CASE k = sp + 1
      BY <2>4, <3>2, <3>5
    <3>6. CASE k < sp + 1
      <4>1. c \in DOMAIN stack /\ stack[c] = stack[k * TokenSize]
        BY <1>1, <2>1, <2>5, <3>6
      <4>2. k <= sp /\ k # sp + 1 /\ ~(cell <= c) /\ ~(cell + TokenSize <= c)
        BY <1>1, <2>1, <2>3, <3>6
      <4> QED
        BY <3>2, <4>1, <4>2
    <3>7. CASE k > sp + 1
      <4>1. cell + TokenSize <= c /\ ~(k <= sp) /\ k # sp + 1 /\ n # sz
        BY <1>1, <2>1, <2>3, <3>1, <3>7
      <4>2. ~(c < cell + TokenSize)
        BY <1>1, <2>1, <4>1
      <4> QED
        BY <3>2, <3>4, <4>1, <4>2
    <3> QED
      BY <1>1, <2>1, <3>5, <3>6, <3>7
  <2>7. CASE ~Full(cell)
    <3>1. n = sz /\ stack' = Written(stack, cell, w)
      BY <1>0, <1>1, <2>7 DEF gpush
    <3>2. c \in DOMAIN stack /\ stack[c] = stack[k * TokenSize]
      BY <1>1, <2>1, <2>5, <3>1
    <3>3. stack'[c] = IF cell <= c /\ c < cell + TokenSize THEN w ELSE stack[c]
      BY <3>1, <3>2 DEF Written
    <3>4. V(k) = IF k = sp + 1 THEN w ELSE stack[k * TokenSize]
      BY <3>1
    <3> HIDE DEF V
    <3>5. CASE k = sp + 1
      BY <2>4, <3>3, <3>4, <3>5
    <3>6. CASE k # sp + 1
      <4>1. ~(cell <= c /\ c < cell + TokenSize)
        BY <2>4, <3>6
      <4> QED
        BY <3>2, <3>3, <3>4, <3>6, <4>1
    <3> QED
      BY <3>5, <3>6
  <2> QED
    BY <2>6, <2>7
<1> HIDE DEF V
<1>3. ASSUME NEW k \in 0 .. n - 1 PROVE Token(k)' = V(k)
  <2>1. k * TokenSize \in k * TokenSize .. k * TokenSize + TokenSize - 1
    <3>1. k * TokenSize \in Int
      OBVIOUS
    <3> QED
      BY <3>1
  <2> QED
    BY <1>2, <2>1 DEF Token
<1>4. Whole'
  BY <1>0, <1>2, <1>3 DEF Whole, Token
<1>5. sp + 1 \in 0 .. n - 1 /\ \A k \in 0 .. sp : k \in 0 .. n - 1 /\ k # sp + 1 /\ k <= sp
  <2> HIDE DEF cell
  <2>1. sp + 1 \in 0 .. n - 1
    BY <1>7
  <2>2. ASSUME NEW k \in 0 .. sp PROVE k \in 0 .. n - 1 /\ k # sp + 1 /\ k <= sp
    BY <1>7
  <2> QED
    BY <2>1, <2>2
<1>6. stack'[(sp + 1) * TokenSize] = w
  BY <1>3, <1>5 DEF V, Token
<1>8. \A k \in 0 .. sp : Token(k)' = Token(k)
  BY <1>3, <1>5 DEF V, Token
<1> QED
  BY <1>4, <1>6, <1>8

\* A reservation changes no token that is allocated and writes those it adds.
LEMMA GrowWrites ==
  ASSUME WholeInv, gstack_grow
  PROVE  /\ Whole'
         /\ \A k \in 0 .. sp : Token(k)' = Token(k)
<1> USE SizesAssumption
<1>1. /\ sp \in Int /\ sp >= -1 /\ sz \in Nat /\ stack \in [Cells(sz) -> Tokens \cup {Zero}]
      /\ sp + 1 <= sz
  BY DEF WholeInv, StackInv, TypeOK
<1>2. \/ UNCHANGED <<sz, stack>>
      \/ /\ sz' = sz + GrowStep
         /\ stack' = Cleared(Realloc(sz'), sz * TokenSize, sz' * TokenSize)
  BY DEF gstack_grow
<1>3. CASE UNCHANGED <<sz, stack>>
  BY <1>3 DEF WholeInv, Whole, Token
<1>4. CASE /\ sz' = sz + GrowStep
           /\ stack' = Cleared(Realloc(sz'), sz * TokenSize, sz' * TokenSize)
  <2>1. PICK n \in Nat : n = sz' /\ n = sz + GrowStep
    BY <1>1, <1>4
  <2> DEFINE V(k) == IF k < sz THEN stack[k * TokenSize] ELSE Zero
  <2>2. ASSUME NEW k \in 0 .. n - 1, NEW c \in k * TokenSize .. k * TokenSize + TokenSize - 1
        PROVE stack'[c] = V(k)
    <3>1. c \in Int /\ k \in Int /\ k * TokenSize \in Int /\ k * TokenSize <= c
          /\ c < k * TokenSize + TokenSize
      OBVIOUS
    <3>0. k < n /\ n \in Int
      BY <2>1
    <3>2. c \in Cells(n)
      BY <2>1, <3>1, CellAllocated
    <3>3. c < n * TokenSize /\ (k < sz => c < sz * TokenSize) /\ (sz <= k => sz * TokenSize <= c)
      BY <1>1, <3>0, <3>1, CellOf
    <3>4. stack'[c] = IF sz * TokenSize <= c /\ c < n * TokenSize THEN Zero
                      ELSE IF c \in DOMAIN stack THEN stack[c] ELSE Junk
      BY <1>4, <2>1, <3>2 DEF Cleared, Realloc
    <3>5. CASE k < sz
      <4>1. k \in 0 .. sz - 1
        BY <1>1, <3>1, <3>5
      <4>2. c \in Cells(sz)
        BY <1>1, <3>1, <4>1, CellAllocated
      <4>3. stack[c] = stack[k * TokenSize]
        BY <4>1 DEF WholeInv, Whole
      <4>4. ~(sz * TokenSize <= c)
        <5>1. sz * TokenSize \in Int
          BY <1>1
        <5> QED
          BY <3>1, <3>3, <3>5, <5>1
      <4> QED
        BY <1>1, <3>4, <3>5, <4>2, <4>3, <4>4
    <3>6. CASE sz <= k
      BY <1>1, <3>1, <3>3, <3>4, <3>6
    <3> QED
      BY <1>1, <3>1, <3>5, <3>6
  <2> HIDE DEF V
  <2>3. ASSUME NEW k \in 0 .. n - 1 PROVE Token(k)' = V(k)
    <3>1. k * TokenSize \in k * TokenSize .. k * TokenSize + TokenSize - 1
      <4>1. k * TokenSize \in Int
        OBVIOUS
      <4> QED
        BY <4>1
    <3> QED
      BY <2>2, <3>1 DEF Token
  <2>4. Whole'
    BY <2>1, <2>2, <2>3 DEF Whole, Token
  <2>5. \A k \in 0 .. sp : k \in 0 .. n - 1 /\ k < sz
    BY <1>1, <2>1
  <2>6. \A k \in 0 .. sp : Token(k)' = Token(k)
    BY <2>3, <2>5 DEF V, Token
  <2> QED
    BY <2>4, <2>6
<1> QED
  BY <1>2, <1>3, <1>4

\* All steps keep the memory whole.
LEMMA WholeStep == ASSUME WholeInv, [Next]_vars PROVE WholeInv'
<1>1. StackInv'
  BY StackStep DEF WholeInv
<1>2. CASE \E w \in Tokens : gpush(w)
  BY <1>1, <1>2, PushWrites DEF WholeInv
<1>3. CASE gstack_grow
  BY <1>1, <1>3, GrowWrites DEF WholeInv
<1>4. CASE UNCHANGED <<sz, stack>>
  BY <1>1, <1>4 DEF WholeInv, Whole
<1>5. CASE gstack_deinit
  <2>1. sz' = 0
    BY <1>5 DEF gstack_deinit
  <2>2. 0 .. sz' - 1 = {}
    BY <2>1
  <2> QED
    BY <1>1, <2>2 DEF WholeInv, Whole
<1> QED
  BY <1>2, <1>3, <1>4, <1>5 DEF Next, _gpop, gstack_shrink, _gpeek, vars

\* No operation of generic_stack.c leaves a token that is half written.
THEOREM WholeInvariance == Spec => []WholeInv
<1>1. Init => WholeInv
  <2> SUFFICES ASSUME Init PROVE WholeInv
    OBVIOUS
  <2>1. 0 .. sz - 1 = {}
    BY DEF Init
  <2> QED
    BY <2>1, StackInit DEF WholeInv, Whole
<1>2. WholeInv /\ [Next]_vars => WholeInv'
  BY WholeStep
<1> QED
  BY <1>1, <1>2, PTL DEF Spec
-------------------------------------------------------------------------------
\* gpush appends the token.
LEMMA PushIsPush ==
  ASSUME WholeInv, WholeInv', NEW w \in Tokens, gpush(w)
  PROVE  Abstract!Push
<1>0. sp \in Int /\ sp >= -1
  BY DEF WholeInv, StackInv, TypeOK
<1>1. sp' + 1 = sp + 2 /\ seen' = <<>>
  <2>1. sp + 1 + 1 = sp + 2
    BY <1>0
  <2> QED
    BY <2>1 DEF gpush
<1>2. Contents = [i \in 1 .. sp + 1 |-> Token(i - 1)] /\ Contents \in Seq(Tokens \cup {Zero})
      /\ Len(Contents) = sp + 1
  BY ContentsAre
<1>3. Contents' = [i \in 1 .. sp + 2 |-> stack'[(i - 1) * TokenSize]]
  BY <1>1, ContentsAfter
<1>4. DOMAIN Append(Contents, w) = 1 .. sp + 2
  BY <1>0, <1>2
<1>5. ASSUME NEW i \in 1 .. sp + 2 PROVE Append(Contents, w)[i] = stack'[(i - 1) * TokenSize]
  <2>1. CASE i \in 1 .. sp + 1
    <3>1. Append(Contents, w)[i] = Contents[i] /\ i - 1 \in 0 .. sp
      BY <1>0, <1>2, <2>1
    <3> QED
      BY <1>2, <2>1, <3>1, PushWrites DEF Token
  <2>2. CASE i = sp + 2
    <3>1. Append(Contents, w)[i] = w /\ i - 1 = sp + 1
      BY <1>0, <1>2, <2>2
    <3> QED
      BY <3>1, PushWrites
  <2>3. i \in 1 .. sp + 1 \/ i = sp + 2
    BY <1>0
  <2> QED
    BY <2>1, <2>2, <2>3
<1>6. Contents' = Append(Contents, w)
  <2> DEFINE A == Append(Contents, w)
             V(i) == stack'[(i - 1) * TokenSize]
  <2>1. A \in Seq(Tokens \cup {Zero})
    BY <1>2
  <2> HIDE DEF A, V
  <2>2. DOMAIN A = 1 .. sp + 2 /\ \A i \in 1 .. sp + 2 : A[i] = V(i)
    BY <1>4, <1>5 DEF A, V
  <2>3. A = [i \in 1 .. sp + 2 |-> V(i)]
    BY <2>1, <2>2
  <2> QED
    BY <1>3, <2>3 DEF A, V
<1> QED
  BY <1>1, <1>6 DEF Abstract!Push

\* _gpop gives the last token and takes it off.
LEMMA PopIsPop == ASSUME WholeInv, WholeInv', _gpop PROVE Abstract!Pop
<1>0. sp \in Nat
  BY DEF WholeInv, StackInv, TypeOK, _gpop
<1>1. sp' + 1 = sp /\ stack' = stack /\ seen' = <<TokenAt(sp * TokenSize)>>
  <2>1. sp - 1 + 1 = sp
    BY <1>0
  <2> QED
    BY <2>1 DEF WholeInv, StackInv, _gpop
<1>2. Contents = [i \in 1 .. sp + 1 |-> Token(i - 1)] /\ Contents \in Seq(Tokens \cup {Zero})
      /\ Len(Contents) = sp + 1 /\ TokenAt(sp * TokenSize) = Token(sp)
  BY <1>0, ContentsAre
<1>3. Contents' = [i \in 1 .. sp |-> Token(i - 1)]
  BY <1>1, ContentsAfter DEF Token
<1>4. Abstract!Front(Contents) = [i \in 1 .. sp |-> Contents[i]]
  BY <1>0, <1>2 DEF Abstract!Front
<1>5. Contents' = Abstract!Front(Contents)
  <2>1. \A i \in 1 .. sp : Contents[i] = Token(i - 1)
    BY <1>0, <1>2
  <2> QED
    BY <1>3, <1>4, <2>1
<1>6. Abstract!Last(Contents) = Token(sp) /\ Contents # <<>>
  <2>1. Contents[sp + 1] = Token(sp + 1 - 1) /\ sp + 1 - 1 = sp
    BY <1>0, <1>2
  <2>2. Len(Contents) # 0
    BY <1>0, <1>2
  <2> QED
    BY <1>2, <2>1, <2>2 DEF Abstract!Last
<1> QED
  BY <1>1, <1>2, <1>5, <1>6 DEF Abstract!Pop
\* gstack_grow keeps what there is and adds zeroes and left-overs.
LEMMA GrowIsReserve == ASSUME WholeInv, WholeInv', gstack_grow PROVE Abstract!Reserve
<1>0. PICK n \in Nat : n = sp' + 1 /\ sp + 1 <= n
  <2>1. PICK count \in Nat : sp' = sp + count
    BY SizesAssumption DEF gstack_grow
  <2>2. sp \in Int /\ sp >= -1
    BY DEF WholeInv, StackInv, TypeOK
  <2>3. sp + count + 1 \in Nat /\ sp + 1 <= sp + count + 1
    BY <2>2
  <2> QED
    BY <2>1, <2>3
<1>1. PICK m \in 0 .. n : m = sp + 1
  <2>1. sp \in Int /\ sp >= -1 /\ sp + 1 <= n
    BY <1>0 DEF WholeInv, StackInv, TypeOK
  <2>2. sp + 1 \in 0 .. n
    BY <2>1
  <2> QED
    BY <2>2
<1>2. Contents = [i \in 1 .. m |-> Token(i - 1)] /\ Len(Contents) = m
      /\ Contents \in Seq(Tokens \cup {Zero})
  BY <1>1, ContentsAre
<1>3. Contents' = [i \in 1 .. n |-> stack'[(i - 1) * TokenSize]] /\ Len(Contents') = n
      /\ Contents' \in Seq(Tokens \cup {Zero})
  <2>1. Contents' \in Seq(Tokens \cup {Zero}) /\ Len(Contents') = sp' + 1
    BY ContentsTyped
  <2> QED
    BY <1>0, <2>1, ContentsAfter
<1>4. ASSUME NEW i \in 1 .. m PROVE Contents[i] = Contents'[i]
  <2>1. i - 1 \in 0 .. sp /\ i \in 1 .. n
    <3>1. sp \in Int
      BY DEF WholeInv, StackInv, TypeOK
    <3> QED
      BY <1>1, <3>1
  <2> QED
    BY <1>2, <1>3, <2>1, GrowWrites DEF Token
<1>5. Abstract!IsPrefix(Contents, Contents')
  <2> HIDE DEF Contents
  <2>1. \A i \in 1 .. m : i \in 1 .. n
    BY <1>1
  <2>2. SubSeq(Contents, 1, m) = [i \in 1 .. m |-> Contents[i]]
    BY <1>2
  <2>3. SubSeq(Contents', 1, m) = [i \in 1 .. m |-> Contents'[i]]
    BY <1>1, <1>3
  <2>4. SubSeq(Contents, 1, m) = SubSeq(Contents', 1, m)
    BY <1>4, <2>2, <2>3
  <2>5. m <= n
    OBVIOUS
  <2> QED
    BY <1>2, <1>3, <2>4, <2>5 DEF Abstract!IsPrefix
<1>6. seen' = <<>>
  BY DEF gstack_grow
<1>7. \A i \in DOMAIN Contents' : Contents'[i] \in Tokens \cup {Zero}
  BY <1>3
<1> QED
  BY <1>5, <1>6, <1>7 DEF Abstract!Reserve

\* gstack_shrink takes tokens off.
LEMMA ShrinkIsRelease == ASSUME WholeInv, WholeInv', gstack_shrink PROVE Abstract!Release
<1>0. PICK m \in Nat : m = sp + 1
  BY DEF WholeInv, StackInv, TypeOK
<1>1. PICK n \in 0 .. m : n = sp' + 1
  <2>1. PICK count \in 0 .. m : sp' = sp - count
    BY <1>0 DEF gstack_shrink
  <2>2. sp \in Int
    BY DEF WholeInv, StackInv, TypeOK
  <2>3. sp - count + 1 \in 0 .. m
    BY <1>0, <2>2
  <2> QED
    BY <2>1, <2>3
<1>2. Contents = [i \in 1 .. m |-> Token(i - 1)] /\ Len(Contents) = m
      /\ Contents \in Seq(Tokens \cup {Zero})
  BY <1>0, ContentsAre
<1>3. Contents' = [i \in 1 .. n |-> Token(i - 1)]
  <2>1. stack' = stack
    BY DEF gstack_shrink
  <2> QED
    BY <1>1, <2>1, ContentsAfter DEF Token
<1>4. SubSeq(Contents, 1, n) = [i \in 1 .. n |-> Contents[i]]
  BY <1>2
<1>5. \A i \in 1 .. n : Contents[i] = Token(i - 1)
  BY <1>2
<1>6. Contents' = SubSeq(Contents, 1, n)
  BY <1>3, <1>4, <1>5
<1>7. seen' = <<>>
  BY DEF gstack_shrink
<1> QED
  BY <1>2, <1>6, <1>7 DEF Abstract!Release

\* _gpeek gives a token of the stack.
LEMMA PeekIsPeek == ASSUME WholeInv, WholeInv', _gpeek PROVE Abstract!Peek
<1>0. PICK m \in Nat : m = sp + 1 /\ m > 0
  BY DEF WholeInv, StackInv, TypeOK, _gpeek
<1>1. PICK ofs \in -sp .. 0 : seen' = <<TokenAt(tok_sp + ofs * TokenSize)>>
  BY DEF _gpeek
<1>2. sp + ofs \in 0 .. sp /\ sp + ofs + 1 \in 1 .. m /\ sp + ofs = sp + ofs + 1 - 1
  <2>1. sp \in Int
    BY DEF WholeInv, StackInv, TypeOK
  <2>2. m > 0 /\ m = sp + 1
    BY <1>0
  <2> QED
    BY <2>1, <2>2
<1>3. tok_sp + ofs * TokenSize = (sp + ofs) * TokenSize
  <2>1. tok_sp = sp * TokenSize /\ sp \in Int
    BY DEF WholeInv, StackInv, TypeOK
  <2> QED
    BY <1>1, <2>1, SizesAssumption
<1>4. Contents = [i \in 1 .. m |-> Token(i - 1)] /\ TokenAt((sp + ofs) * TokenSize) = Token(sp + ofs)
  BY <1>0, <1>2, ContentsAre
<1>5. Contents[sp + ofs + 1] = Token(sp + ofs)
  BY <1>2, <1>4
<1>6. seen' = <<Contents[sp + ofs + 1]>> /\ sp + ofs + 1 \in DOMAIN Contents
  BY <1>1, <1>2, <1>3, <1>4, <1>5
<1>7. Contents' = Contents
  BY ContentsAfter, <1>4, <1>0 DEF _gpeek, Token
<1> QED
  BY <1>6, <1>7 DEF Abstract!Peek

\* gstack_deinit gives all tokens, the top first.
LEMMA DeinitIsDrain == ASSUME WholeInv, WholeInv', gstack_deinit PROVE Abstract!Drain
<1>0. PICK m \in Nat : m = sp + 1
  BY DEF WholeInv, StackInv, TypeOK
<1>1. sp \in Int /\ sp = m - 1 /\ tok_sp = sp * TokenSize
  BY <1>0 DEF WholeInv, StackInv, TypeOK
<1>2. Contents = [i \in 1 .. m |-> Token(i - 1)] /\ Len(Contents) = m
      /\ \A k \in 0 .. sp : TokenAt(k * TokenSize) = Token(k)
  BY <1>0, ContentsAre
<1>3. seen' = [i \in 1 .. m |-> TokenAt(tok_sp - (i - 1) * TokenSize)]
  BY <1>0 DEF gstack_deinit
<1>4. ASSUME NEW i \in 1 .. m
      PROVE TokenAt(tok_sp - (i - 1) * TokenSize) = Contents[m - i + 1]
  <2>1. tok_sp - (i - 1) * TokenSize = (m - i) * TokenSize
    <3>1. (m - 1) * TokenSize - (i - 1) * TokenSize = (m - i) * TokenSize
      BY SizesAssumption
    <3> QED
      BY <1>1, <3>1
  <2>2. m - i \in 0 .. sp /\ m - i + 1 \in 1 .. m /\ m - i + 1 - 1 = m - i
    BY <1>1
  <2> QED
    BY <1>2, <2>1, <2>2
<1>5. seen' = Abstract!Reverse(Contents)
  BY <1>2, <1>3, <1>4 DEF Abstract!Reverse
<1>6. Contents' = <<>>
  <2>1. sp' + 1 = 0
    BY DEF gstack_deinit
  <2> QED
    BY <2>1, ContentsAfter
<1> QED
  BY <1>5, <1>6 DEF Abstract!Drain

\* Every step of a stack of generic_stack.c is a step of a stack.
LEMMA StepImplements ==
  ASSUME WholeInv, WholeInv', [Next]_vars
  PROVE  [Abstract!Next]_(Abstract!vars)
<1>1. CASE \E w \in Tokens : gpush(w)
  BY <1>1, PushIsPush DEF Abstract!Next
<1>2. CASE _gpop
  BY <1>2, PopIsPop DEF Abstract!Next
<1>3. CASE gstack_grow
  BY <1>3, GrowIsReserve DEF Abstract!Next
<1>4. CASE gstack_shrink
  BY <1>4, ShrinkIsRelease DEF Abstract!Next
<1>5. CASE _gpeek
  BY <1>5, PeekIsPeek DEF Abstract!Next
<1>6. CASE gstack_deinit
  BY <1>6, DeinitIsDrain DEF Abstract!Next
<1>7. CASE UNCHANGED vars
  BY <1>7 DEF vars, Abstract!vars, Contents, TokenAt
<1> QED
  BY <1>1, <1>2, <1>3, <1>4, <1>5, <1>6, <1>7 DEF Next

\* gpush, _gpop, _gpeek, gstack_grow, gstack_shrink and gstack_deinit make a
\* stack, whatever the token size and however pushes and reservations mix.
THEOREM StackImplemented == Spec => ImplementsStack
<1>1. Init => Abstract!Init
  <2> SUFFICES ASSUME Init PROVE Contents = <<>> /\ seen = <<>>
    BY DEF Abstract!Init
  <2>1. 1 .. sp + 1 = {}
    BY DEF Init
  <2> QED
    BY <2>1 DEF Init, Contents
<1>2. WholeInv /\ WholeInv' /\ [Next]_vars => [Abstract!Next]_(Abstract!vars)
  BY StepImplements
<1> QED
  BY <1>1, <1>2, WholeInvariance, PTL DEF Spec, ImplementsStack, Abstract!Spec

-------------------------------------------------------------------------------
(* Numbers *)

\* A set of numbers has a least one.
LEMMA Least ==
  ASSUME NEW T, T \subseteq Nat, T # {}
  PROVE  \E x \in T : \A y \in T : x <= y
<1>1. PICK x \in T : \A y \in T : <<y, x>> \notin OpToRel(<, Nat)
  BY NatLessThanWellFounded, WFMin
<1>2. ASSUME NEW y \in T PROVE ~ (y < x)
  BY <1>1, <1>2 DEF OpToRel
<1> QED
  BY <1>2

\* What holds of zero and of the successor of every number of which it holds.
LEMMA UpTo ==
  ASSUME NEW n \in Nat, NEW T, 0 \in T, \A i \in 0 .. n - 1 : i \in T => i + 1 \in T
  PROVE  \A i \in 0 .. n : i \in T
<1> DEFINE Bad == {i \in 0 .. n : i \notin T}
<1>1. SUFFICES ASSUME Bad # {} PROVE FALSE
  OBVIOUS
<1>2. PICK x \in Bad : \A y \in Bad : x <= y
  <2>1. Bad \subseteq Nat
    OBVIOUS
  <2> HIDE DEF Bad
  <2> QED
    BY <1>1, <2>1, Least
<1>3. x \in Nat /\ x # 0 /\ x - 1 \in 0 .. n - 1
  OBVIOUS
<1>4. x - 1 \in T
  BY <1>2, <1>3
<1>5. (x - 1) + 1 \in T /\ (x - 1) + 1 = x
  BY <1>3, <1>4
<1> QED
  BY <1>2, <1>5

LEMMA QuantizeAbove ==
  ASSUME NEW k \in Nat
  PROVE  Quantize(k) \in Nat /\ Quantize(k) > k
<1> DEFINE q == (k + Granule) \div Granule
<1>1. q \in Nat /\ q * Granule <= k + Granule /\ k + Granule < q * Granule + Granule
  BY GranuleAssumption
<1>2. q * Granule \in Nat
  BY <1>1, GranuleAssumption
<1> QED
  BY <1>1, <1>2, GranuleAssumption DEF Quantize

-------------------------------------------------------------------------------
(* Arrays *)

\* An array has the words it has reserved and no more in use.
Array(d) ==
  /\ d = [reserved |-> d.reserved, size |-> d.size, data |-> d.data]
  /\ d.reserved \in Nat /\ d.size \in 0 .. d.reserved
  /\ d.data = [i \in 0 .. d.reserved - 1 |-> d.data[i]]

\* dynarray_reserve makes room and keeps the words.
LEMMA ReserveKeeps ==
  ASSUME NEW d, Array(d), NEW n \in Nat
  PROVE  LET e == dynarray_reserve(d, n)
         IN  /\ Array(e) /\ e.size = d.size
             /\ e.reserved = IF n <= d.reserved THEN d.reserved ELSE n
             /\ \A j \in 0 .. d.reserved - 1 : e.data[j] = d.data[j]
<1>1. CASE n <= d.reserved
  BY <1>1 DEF dynarray_reserve
<1>2. CASE ~ (n <= d.reserved)
  <2> DEFINE w == [i \in 0 .. n - 1 |-> IF i < d.reserved THEN d.data[i] ELSE NULL]
  <2>1. dynarray_reserve(d, n) = [reserved |-> n, size |-> d.size, data |-> w]
    BY <1>2 DEF dynarray_reserve, Array
  <2> QED
    BY <1>2, <2>1 DEF Array
<1> QED
  BY <1>1, <1>2

\* dynarray_set writes one word, and makes room for it.
LEMMA SetWord ==
  ASSUME NEW d, Array(d), NEW k \in Nat, NEW v
  PROVE  LET e == dynarray_set(d, k, v)
         IN  /\ Array(e) /\ e.size = IF d.size <= k THEN k + 1 ELSE d.size
             /\ d.reserved <= e.reserved /\ k < e.reserved
             /\ e.data[k] = v
             /\ \A j \in 0 .. d.reserved - 1 : j # k => e.data[j] = d.data[j]
<1> DEFINE r == IF d.reserved <= k THEN dynarray_reserve(d, Quantize(k)) ELSE d
           e == dynarray_set(d, k, v)
<1>1. /\ Array(r) /\ r.size = d.size /\ d.reserved <= r.reserved /\ k < r.reserved
      /\ \A j \in 0 .. d.reserved - 1 : r.data[j] = d.data[j]
  BY QuantizeAbove, ReserveKeeps DEF Array
<1> HIDE DEF r
<1> DEFINE w == [i \in 0 .. r.reserved - 1 |-> IF i = k THEN v ELSE r.data[i]]
           s == IF d.size <= k THEN k + 1 ELSE d.size
<1>2. e = [reserved |-> r.reserved, size |-> s, data |-> w]
  <2>1. r = [reserved |-> r.reserved, size |-> r.size, data |-> r.data]
        /\ DOMAIN r.data = 0 .. r.reserved - 1
    BY <1>1 DEF Array
  <2>2. e = [r EXCEPT !.size = IF r.size <= k THEN k + 1 ELSE r.size,
                      !.data = [i \in DOMAIN r.data |-> IF i = k THEN v ELSE r.data[i]]]
    BY DEF dynarray_set, r
  <2>3. [i \in DOMAIN r.data |-> IF i = k THEN v ELSE r.data[i]] = w
    BY <2>1
  <2> HIDE DEF w, e
  <2> QED
    BY <1>1, <2>1, <2>2, <2>3
<1>3. s \in 0 .. r.reserved /\ r.reserved \in Nat /\ d.reserved \in Nat
  BY <1>1 DEF Array
<1>4. /\ w = [i \in 0 .. r.reserved - 1 |-> w[i]]
      /\ w[k] = v
      /\ \A j \in 0 .. d.reserved - 1 : j # k => w[j] = d.data[j]
  <2>1. /\ k \in 0 .. r.reserved - 1
        /\ \A j \in 0 .. d.reserved - 1 : j \in 0 .. r.reserved - 1 /\ r.data[j] = d.data[j]
    BY <1>1, <1>3
  <2>2. \A j \in 0 .. r.reserved - 1 : w[j] = IF j = k THEN v ELSE r.data[j]
    OBVIOUS
  <2>3. w = [i \in 0 .. r.reserved - 1 |-> w[i]]
    OBVIOUS
  <2> HIDE DEF w
  <2> QED
    BY <2>1, <2>2, <2>3
<1> HIDE DEF e, w, s
<1>5. Array(e) /\ e.size = s /\ e.reserved = r.reserved /\ e.data = w
  BY <1>2, <1>3, <1>4 DEF Array
<1>6. /\ Array(e) /\ e.size = s
      /\ d.reserved <= e.reserved /\ k < e.reserved
      /\ e.data[k] = v
      /\ \A j \in 0 .. d.reserved - 1 : j # k => e.data[j] = d.data[j]
  BY <1>1, <1>4, <1>5
<1> QED
  BY <1>6 DEF e, s
-------------------------------------------------------------------------------
(* Text segments *)

Strings == Texts \cup {EmptyText}
Entry == [key : Strings, e : Nat]

\* Text number i.
Text(ts, i) == ts.by_index.data[i]
Numbers(ts) == 0 .. ts.by_index.size - 1

\* The table by text has an entry of every text in the array by number, and no
\* other, and no text has two numbers.
Tables(ts) ==
  /\ ts = [by_index |-> ts.by_index, by_text |-> ts.by_text]
  /\ Array(ts.by_index)
  /\ \A i \in Numbers(ts) : Text(ts, i) \in Strings
  /\ \A i, j \in Numbers(ts) : Text(ts, i) = Text(ts, j) => i = j
  /\ ts.by_text \in [Rows -> Seq(Entry)]
  /\ \A r \in Rows : \A k \in DOMAIN ts.by_text[r] :
        /\ ts.by_text[r][k].e \in Numbers(ts)
        /\ Text(ts, ts.by_text[r][k].e) = ts.by_text[r][k].key
  /\ \A i \in Numbers(ts) : Holds(ts.by_text, Text(ts, i))

\* And number 0 is the empty text.
Segment(ts) == Tables(ts) /\ 0 \in Numbers(ts) /\ Text(ts, 0) = EmptyText

\* The search finds an entry of the text.
LEMMA Finds ==
  ASSUME NEW ts, Segment(ts), NEW t \in Strings, Holds(ts.by_text, t)
  PROVE  /\ hash_find_e(ts.by_text, t).e \in Numbers(ts)
         /\ Text(ts, hash_find_e(ts.by_text, t).e) = t
<1> DEFINE chain == ts.by_text[Hash[t]]
           T == {i \in DOMAIN chain : chain[i].key = t}
           First(i) == chain[i].key = t /\ \A j \in 1 .. i - 1 : chain[j].key # t
<1>1. Hash[t] \in Rows /\ chain \in Seq(Entry)
  BY TextsAssumption DEF Segment, Tables, Strings
<1>2. T \subseteq Nat /\ T # {}
  BY <1>1 DEF Holds
<1>3. PICK i \in T : \A j \in T : i <= j
  <2> HIDE DEF T
  <2> QED
    BY <1>2, Least
<1>4. i \in DOMAIN chain /\ First(i)
  BY <1>1, <1>3
<1> HIDE DEF First
<1>5. PICK k \in DOMAIN chain : k = (CHOOSE j \in DOMAIN chain : First(j)) /\ First(k)
  BY <1>4
<1>6. hash_find_e(ts.by_text, t) = chain[k]
  BY <1>5 DEF hash_find_e, First
<1>7. chain[k].e \in Numbers(ts) /\ Text(ts, chain[k].e) = chain[k].key /\ chain[k].key = t
  BY <1>1, <1>5 DEF Segment, Tables, First
<1> QED
  BY <1>6, <1>7

\* The number of a text is the place it has in the array.
LEMMA NumberOf ==
  ASSUME NEW ts, Segment(ts), NEW t \in Strings
  PROVE  /\ \A i \in Numbers(ts) : Text(ts, i) = t => text_seg_text_to_index(ts, t) = i
         /\ (\A i \in Numbers(ts) : Text(ts, i) # t) => text_seg_text_to_index(ts, t) = -1
<1>1. ASSUME NEW i \in Numbers(ts), Text(ts, i) = t
      PROVE  text_seg_text_to_index(ts, t) = i
  <2>1. Holds(ts.by_text, t)
    BY <1>1 DEF Segment, Tables
  <2>2. hash_find_e(ts.by_text, t).e = i
    BY <1>1, <2>1, Finds DEF Segment, Tables
  <2> QED
    BY <2>1, <2>2 DEF text_seg_text_to_index
<1>2. ASSUME \A i \in Numbers(ts) : Text(ts, i) # t
      PROVE  text_seg_text_to_index(ts, t) = -1
  BY <1>2, Finds DEF text_seg_text_to_index
<1> QED
  BY <1>1, <1>2

\* A text that the segment has is not added again.
LEMMA KnownStays ==
  ASSUME NEW ts, Segment(ts), NEW t \in Texts, NEW i \in Numbers(ts), Text(ts, i) = t
  PROVE  text_seg_find_by_text(ts, t) = ts
<1>1. t \in Strings /\ t # EmptyText
  BY TextsAssumption DEF Strings
<1>2. Holds(ts.by_text, t)
  BY DEF Segment, Tables
<1>3. hash_find_e(ts.by_text, t).e \in Numbers(ts) /\ hash_find_e(ts.by_text, t).e # 0
  BY <1>1, <1>2, Finds DEF Segment, Tables
<1> QED
  BY <1>2, <1>3 DEF text_seg_find_by_text, hash_find, HASH_NOVAL

\* An entry in front of a chain is found, and hides none of another text.
LEMMA AddElem ==
  ASSUME NEW tab \in [Rows -> Seq(Entry)], NEW t \in Strings, NEW n \in Nat
  PROVE  LET new == hash_addelem(tab, t, n)
         IN  /\ new \in [Rows -> Seq(Entry)]
             /\ Holds(new, t)
             /\ \A u \in Strings : Holds(tab, u) => Holds(new, u)
             /\ \A r \in Rows : \A k \in DOMAIN new[r] :
                   \/ new[r][k] = [key |-> t, e |-> n]
                   \/ \E j \in DOMAIN tab[r] : new[r][k] = tab[r][j]
<1> DEFINE h == Hash[t]
           s == [key |-> t, e |-> n]
           chain == <<s>> \o tab[h]
           new == hash_addelem(tab, t, n)
<1>1. h \in Rows /\ \A u \in Strings : Hash[u] \in Rows
  BY TextsAssumption DEF Strings
<1>2. s \in Entry
  BY DEF Entry
<1>3. /\ chain \in Seq(Entry) /\ Len(chain) = Len(tab[h]) + 1
      /\ chain[1] = s
      /\ \A k \in 1 .. Len(tab[h]) : chain[k + 1] = tab[h][k]
  <2>1. tab[h] \in Seq(Entry)
    BY <1>1
  <2> HIDE DEF s, h
  <2> QED
    BY <1>2, <2>1
<1>4. new = [tab EXCEPT ![h] = chain]
  BY DEF hash_addelem
<1> HIDE DEF new, chain, s, h
<1>5. /\ new \in [Rows -> Seq(Entry)]
      /\ new[h] = chain
      /\ \A r \in Rows : r # h => new[r] = tab[r]
  BY <1>1, <1>3, <1>4
<1>6. DOMAIN chain = 1 .. Len(tab[h]) + 1 /\ DOMAIN tab[h] = 1 .. Len(tab[h]) /\ Len(tab[h]) \in Nat
  BY <1>1, <1>3
<1>7. s.key = t
  BY DEF s
<1>8. Holds(new, t)
  BY <1>3, <1>5, <1>6, <1>7 DEF Holds, h
<1>9. ASSUME NEW u \in Strings, Holds(tab, u) PROVE Holds(new, u)
  <2>1. PICK k \in DOMAIN tab[Hash[u]] : tab[Hash[u]][k].key = u
    BY <1>9 DEF Holds
  <2>2. CASE Hash[u] = h
    <3>1. k \in 1 .. Len(tab[h]) /\ k + 1 \in DOMAIN chain /\ chain[k + 1] = tab[h][k]
      BY <1>3, <1>6, <2>1, <2>2
    <3> QED
      BY <1>5, <2>1, <2>2, <3>1 DEF Holds
  <2>3. CASE Hash[u] # h
    BY <1>1, <1>5, <2>1, <2>3 DEF Holds
  <2> QED
    BY <2>2, <2>3
<1>10. ASSUME NEW r \in Rows, NEW k \in DOMAIN new[r]
       PROVE  new[r][k] = s \/ \E j \in DOMAIN tab[r] : new[r][k] = tab[r][j]
  <2>1. CASE r # h
    BY <1>5, <2>1
  <2>2. CASE r = h /\ k = 1
    BY <1>3, <1>5, <2>2
  <2>3. CASE r = h /\ k # 1
    <3>1. k - 1 \in 1 .. Len(tab[h]) /\ (k - 1) + 1 = k
      BY <1>5, <1>6, <2>3
    <3>2. chain[k] = tab[h][k - 1]
      BY <1>3, <3>1
    <3> QED
      BY <1>5, <1>6, <2>3, <3>1, <3>2
  <2> QED
    BY <2>1, <2>2, <2>3
<1> QED
  BY <1>5, <1>8, <1>9, <1>10 DEF new, s

\* A text that the segment does not have gets the next number.
LEMMA Appended ==
  ASSUME NEW ts, Tables(ts), NEW t \in Strings, \A i \in Numbers(ts) : Text(ts, i) # t
  PROVE  LET new == text_seg_find_by_text(ts, t)
         IN  /\ Tables(new)
             /\ new.by_index.size = ts.by_index.size + 1
             /\ Text(new, ts.by_index.size) = t
             /\ \A i \in Numbers(ts) : Text(new, i) = Text(ts, i)
<1> DEFINE n == ts.by_index.size
           d == dynarray_set(ts.by_index, n, t)
           tab == hash_addelem(ts.by_text, t, n)
           new == text_seg_find_by_text(ts, t)
<1>1. n \in Nat /\ Array(ts.by_index) /\ ts.by_text \in [Rows -> Seq(Entry)]
  BY DEF Tables, Array
<1>2. ~Holds(ts.by_text, t)
  <2>1. ASSUME Holds(ts.by_text, t) PROVE FALSE
    <3>1. Hash[t] \in Rows
      BY TextsAssumption DEF Strings
    <3>2. PICK k \in DOMAIN ts.by_text[Hash[t]] : ts.by_text[Hash[t]][k].key = t
      BY <2>1 DEF Holds
    <3> QED
      BY <3>1, <3>2 DEF Tables
  <2> QED
    BY <2>1
<1>3. new = [by_index |-> d, by_text |-> tab]
  BY <1>2 DEF text_seg_find_by_text, hash_find, HASH_NOVAL
<1>4. /\ Array(d) /\ d.size = n + 1 /\ ts.by_index.reserved <= d.reserved
      /\ d.data[n] = t
      /\ \A j \in 0 .. ts.by_index.reserved - 1 : j # n => d.data[j] = ts.by_index.data[j]
  BY <1>1, SetWord
<1>5. /\ tab \in [Rows -> Seq(Entry)]
      /\ Holds(tab, t)
      /\ \A u \in Strings : Holds(ts.by_text, u) => Holds(tab, u)
      /\ \A r \in Rows : \A k \in DOMAIN tab[r] :
            \/ tab[r][k] = [key |-> t, e |-> n]
            \/ \E j \in DOMAIN ts.by_text[r] : tab[r][k] = ts.by_text[r][j]
  BY <1>1, AddElem
<1> HIDE DEF new, d, tab
<1>6. new.by_index = d /\ new.by_text = tab /\ new = [by_index |-> d, by_text |-> tab]
  BY <1>3
<1>7. \A i \in Numbers(ts) : i \in Nat /\ i # n /\ Text(new, i) = Text(ts, i)
  <2>1. \A i \in Numbers(ts) : i \in 0 .. ts.by_index.reserved - 1 /\ i # n
    BY <1>1 DEF Numbers, Array
  <2> QED
    BY <1>4, <1>6, <2>1 DEF Text
<1>8. Text(new, n) = t
  BY <1>4, <1>6 DEF Text
<1>9. Numbers(new) = Numbers(ts) \cup {n} /\ n \notin Numbers(ts)
  BY <1>1, <1>4, <1>6 DEF Numbers
<1>10. Tables(new)
  <2>1. \A i \in Numbers(new) : Text(new, i) \in Strings
    BY <1>7, <1>8, <1>9 DEF Tables
  <2>2. \A i, j \in Numbers(new) : Text(new, i) = Text(new, j) => i = j
    BY <1>7, <1>8, <1>9 DEF Tables
  <2>3. ASSUME NEW r \in Rows, NEW k \in DOMAIN tab[r]
        PROVE  tab[r][k].e \in Numbers(new) /\ Text(new, tab[r][k].e) = tab[r][k].key
    <3>1. CASE tab[r][k] = [key |-> t, e |-> n]
      BY <1>8, <1>9, <3>1
    <3>2. ASSUME NEW j \in DOMAIN ts.by_text[r], tab[r][k] = ts.by_text[r][j]
          PROVE  tab[r][k].e \in Numbers(new) /\ Text(new, tab[r][k].e) = tab[r][k].key
      BY <1>7, <1>9, <3>2 DEF Tables
    <3> QED
      BY <1>5, <3>1, <3>2
  <2>4. \A i \in Numbers(new) : Holds(tab, Text(new, i))
    BY <1>5, <1>7, <1>8, <1>9 DEF Tables
  <2> QED
    BY <1>4, <1>5, <1>6, <2>1, <2>2, <2>3, <2>4 DEF Tables
<1> QED
  BY <1>4, <1>6, <1>7, <1>8, <1>10 DEF new, d

\* A new segment has the empty text.
LEMMA NewSegment == Segment(text_seg_init) /\ text_seg_init.by_index.size = 1
<1> DEFINE ts == [by_index |-> dynarray_init, by_text |-> init_hashtab]
<1>1. Array(ts.by_index) /\ ts.by_index.size = 0
  BY DEF Array, dynarray_init
<1>2. /\ ts.by_text \in [Rows -> Seq(Entry)]
      /\ \A r \in Rows : DOMAIN ts.by_text[r] = {}
  BY DEF init_hashtab
<1>3. Numbers(ts) = {}
  BY <1>1 DEF Numbers
<1>4. Tables(ts)
  BY <1>1, <1>2, <1>3 DEF Tables
<1>5. EmptyText \in Strings
  BY DEF Strings
<1> HIDE DEF ts
<1>6. /\ Tables(text_seg_find_by_text(ts, EmptyText))
      /\ text_seg_find_by_text(ts, EmptyText).by_index.size = 1
      /\ Text(text_seg_find_by_text(ts, EmptyText), 0) = EmptyText
  BY <1>1, <1>3, <1>4, <1>5, Appended
<1>7. text_seg_init = text_seg_find_by_text(ts, EmptyText)
  BY DEF text_seg_init, ts
<1> QED
  BY <1>6, <1>7 DEF Segment, Numbers

\* A name of a program gets a number, and the other names keep theirs.
LEMMA Named ==
  ASSUME NEW ts, Segment(ts), NEW t \in Texts
  PROVE  LET new == text_seg_find_by_text(ts, t)
         IN  /\ Segment(new)
             /\ \A i \in Numbers(ts) : i \in Numbers(new) /\ Text(new, i) = Text(ts, i)
             /\ \/ (new = ts /\ \E i \in Numbers(ts) : Text(ts, i) = t)
                \/ /\ \A i \in Numbers(ts) : Text(ts, i) # t
                   /\ new.by_index.size = ts.by_index.size + 1
                   /\ Text(new, ts.by_index.size) = t
<1>1. CASE \E i \in Numbers(ts) : Text(ts, i) = t
  BY <1>1, KnownStays
<1>2. CASE \A i \in Numbers(ts) : Text(ts, i) # t
  <2> DEFINE new == text_seg_find_by_text(ts, t)
  <2>1. /\ Tables(new)
        /\ new.by_index.size = ts.by_index.size + 1
        /\ Text(new, ts.by_index.size) = t
        /\ \A i \in Numbers(ts) : Text(new, i) = Text(ts, i)
    BY <1>2, Appended DEF Segment, Strings
  <2>2. ts.by_index.size \in Nat
    BY DEF Segment, Tables, Array
  <2> HIDE DEF new
  <2>3. \A i \in Numbers(ts) : i \in Numbers(new)
    BY <2>1, <2>2 DEF Numbers
  <2>4. Segment(new)
    BY <2>1, <2>3 DEF Segment
  <2> QED
    BY <1>2, <2>1, <2>3, <2>4 DEF new
<1> QED
  BY <1>1, <1>2

-------------------------------------------------------------------------------
(* Copies *)

\* The names of a segment are its texts.
LEMMA NamesAre ==
  ASSUME NEW ts, Segment(ts)
  PROVE  /\ NamesOf(ts) = [i \in 1 .. ts.by_index.size |-> Text(ts, i - 1)]
         /\ NamesOf(ts) \in Seq(Strings)
         /\ Len(NamesOf(ts)) = ts.by_index.size
<1> DEFINE n == ts.by_index.size
           names == [i \in 1 .. n |-> Text(ts, i - 1)]
<1>1. n \in Nat /\ n <= ts.by_index.reserved /\ ts.by_index.reserved \in Nat
      /\ DOMAIN ts.by_index.data = 0 .. ts.by_index.reserved - 1
  BY DEF Segment, Tables, Array
<1>2. ASSUME NEW i \in 1 .. n
      PROVE  text_seg_find_by_index(ts, i - 1) = Text(ts, i - 1) /\ Text(ts, i - 1) \in Strings
  <2>1. i - 1 \in Numbers(ts) /\ i - 1 < n /\ i - 1 \in DOMAIN ts.by_index.data
    BY <1>1 DEF Numbers
  <2>2. Text(ts, i - 1) \in Strings
    BY <2>1 DEF Segment, Tables
  <2> QED
    BY <1>1, <2>1, <2>2 DEF text_seg_find_by_index, dynarray_get, Text
<1>3. NamesOf(ts) = names
  BY <1>2 DEF NamesOf
<1>4. names \in [1 .. n -> Strings]
  BY <1>2
<1>5. names \in Seq(Strings) /\ Len(names) = n
  <2> HIDE DEF names
  <2> QED
    BY <1>1, <1>4
<1> QED
  BY <1>3, <1>5

\* A segment with more memory is the same segment.
LEMMA Reserved ==
  ASSUME NEW ts, Segment(ts), NEW n \in Nat
  PROVE  LET new == [ts EXCEPT !.by_index = dynarray_reserve(ts.by_index, n)]
         IN  Segment(new) /\ new.by_index.size = ts.by_index.size
<1> DEFINE d == dynarray_reserve(ts.by_index, n)
           new == [ts EXCEPT !.by_index = d]
<1>1. /\ Array(d) /\ d.size = ts.by_index.size
      /\ \A j \in 0 .. ts.by_index.reserved - 1 : d.data[j] = ts.by_index.data[j]
  BY ReserveKeeps DEF Segment, Tables
<1> HIDE DEF d
<1>2. new = [by_index |-> d, by_text |-> ts.by_text]
  BY DEF Segment, Tables
<1> HIDE DEF new
<1>3. new.by_index = d /\ new.by_text = ts.by_text
  BY <1>2
<1>4. Numbers(new) = Numbers(ts)
  BY <1>1, <1>3 DEF Numbers
<1>5. \A i \in Numbers(ts) : Text(new, i) = Text(ts, i)
  <2>1. \A i \in Numbers(ts) : i \in 0 .. ts.by_index.reserved - 1
    BY DEF Segment, Tables, Array, Numbers
  <2> QED
    BY <1>1, <1>3, <2>1 DEF Text
<1>6. Tables(new)
  BY <1>1, <1>2, <1>3, <1>4, <1>5 DEF Segment, Tables
<1> QED
  BY <1>1, <1>3, <1>4, <1>5, <1>6 DEF Segment, new, d

\* f adds the first texts of a sequence, one after the other.
Adding(f, ts, texts, n) ==
  f = [i \in 0 .. n |-> IF i = 0 THEN ts ELSE text_seg_find_by_text(f[i - 1], texts[i])]

\* There is such a function: the recursion of AddAll is well founded.
LEMMA AddingIs ==
  ASSUME NEW ts, NEW texts, NEW n \in Nat
  PROVE  \E f : Adding(f, ts, texts, n)
<1> DEFINE T == {k \in 0 .. n : \E f : Adding(f, ts, texts, k)}
<1>1. 0 \in T
  <2>1. Adding([i \in 0 .. 0 |-> ts], ts, texts, 0)
    BY DEF Adding
  <2> QED
    BY <2>1
<1>2. ASSUME NEW k \in 0 .. n - 1, k \in T PROVE k + 1 \in T
  <2>1. PICK f : Adding(f, ts, texts, k)
    BY <1>2
  <2> DEFINE g == [i \in 0 .. k + 1 |->
                     IF i = k + 1 THEN text_seg_find_by_text(f[k], texts[k + 1]) ELSE f[i]]
             h == [i \in 0 .. k + 1 |->
                     IF i = 0 THEN ts ELSE text_seg_find_by_text(g[i - 1], texts[i])]
  <2>2. ASSUME NEW i \in 0 .. k + 1 PROVE g[i] = h[i]
    <3>1. \A j \in 0 .. k : g[j] = f[j]
      OBVIOUS
    <3>2. \A j \in 0 .. k : f[j] = IF j = 0 THEN ts ELSE text_seg_find_by_text(f[j - 1], texts[j])
      BY <2>1 DEF Adding
    <3>3. g[k + 1] = text_seg_find_by_text(f[k], texts[k + 1])
      OBVIOUS
    <3>4. h[i] = IF i = 0 THEN ts ELSE text_seg_find_by_text(g[i - 1], texts[i])
      OBVIOUS
    <3>5. CASE i = 0
      <4>1. 0 \in 0 .. k
        OBVIOUS
      <4> HIDE DEF g, h
      <4> QED
        BY <3>1, <3>2, <3>4, <3>5, <4>1
    <3>6. CASE i = k + 1
      <4>1. k \in 0 .. k /\ i - 1 = k /\ i # 0
        BY <3>6
      <4> HIDE DEF g, h
      <4> QED
        BY <3>1, <3>3, <3>4, <3>6, <4>1
    <3>7. CASE i # 0 /\ i # k + 1
      <4>1. i \in 0 .. k /\ i - 1 \in 0 .. k
        BY <3>7
      <4> HIDE DEF g, h
      <4> QED
        BY <3>1, <3>2, <3>4, <3>7, <4>1
    <3> QED
      BY <3>5, <3>6, <3>7
  <2>3. g = h
    BY <2>2
  <2>4. Adding(g, ts, texts, k + 1)
    BY <2>3 DEF Adding
  <2>5. k + 1 \in 0 .. n
    OBVIOUS
  <2> HIDE DEF g
  <2> QED
    BY <2>4, <2>5
<1> HIDE DEF T
<1>3. \A i \in 0 .. n : i \in T
  BY <1>1, <1>2, UpTo
<1> QED
  BY <1>3 DEF T

LEMMA AddAllIs ==
  ASSUME NEW ts, NEW texts, Len(texts) \in Nat
  PROVE  \E f : Adding(f, ts, texts, Len(texts)) /\ AddAll(ts, texts) = f[Len(texts)]
<1> DEFINE g == CHOOSE f : Adding(f, ts, texts, Len(texts))
<1>1. Adding(g, ts, texts, Len(texts))
  BY AddingIs
<1>2. AddAll(ts, texts) = g[Len(texts)]
  BY DEF AddAll, Adding
<1> QED
  BY <1>1, <1>2

\* Adding the names of a segment to a new one gives them the same numbers.
LEMMA CopyOf ==
  ASSUME NEW src, Segment(src), NEW dest, Segment(dest), dest.by_index.size = 1
  PROVE  LET new == AddAll(dest, Tail(NamesOf(src)))
         IN  /\ Segment(new) /\ new.by_index.size = src.by_index.size
             /\ \A i \in Numbers(src) : Text(new, i) = Text(src, i)
<1> DEFINE texts == Tail(NamesOf(src))
           n == src.by_index.size - 1
<1>1. /\ n \in Nat /\ src.by_index.size = n + 1
      /\ Len(texts) = n /\ \A i \in 1 .. n : texts[i] = Text(src, i)
  <2>1. src.by_index.size \in Nat \ {0}
    BY DEF Segment, Tables, Array, Numbers
  <2>2. NamesOf(src) \in Seq(Strings) /\ Len(NamesOf(src)) = src.by_index.size
    BY NamesAre
  <2>3. Len(texts) = n /\ \A i \in 1 .. n : texts[i] = NamesOf(src)[i + 1]
    BY <2>1, <2>2
  <2>4. \A i \in 1 .. n : NamesOf(src)[i + 1] = Text(src, (i + 1) - 1) /\ (i + 1) - 1 = i
    BY <2>1, NamesAre
  <2> QED
    BY <2>1, <2>3, <2>4
<1> HIDE DEF texts
<1>2. PICK f : Adding(f, dest, texts, n) /\ AddAll(dest, texts) = f[n]
  BY <1>1, AddAllIs
<1> DEFINE T == {k \in 0 .. n : /\ Segment(f[k]) /\ f[k].by_index.size = k + 1
                                /\ \A i \in 0 .. k : Text(f[k], i) = Text(src, i)}
<1>3. \A k \in 0 .. n : f[k] = IF k = 0 THEN dest ELSE text_seg_find_by_text(f[k - 1], texts[k])
  BY <1>2 DEF Adding
<1>4. 0 \in T
  <2>1. f[0] = dest /\ 0 \in 0 .. n
    BY <1>1, <1>3
  <2>2. Text(dest, 0) = Text(src, 0)
    BY DEF Segment
  <2> QED
    BY <2>1, <2>2
<1>5. ASSUME NEW k \in 0 .. n - 1, k \in T PROVE k + 1 \in T
  <2> DEFINE t == Text(src, k + 1)
             new == text_seg_find_by_text(f[k], t)
  <2>1. /\ k \in 0 .. n /\ k + 1 \in 0 .. n /\ k + 1 \in 1 .. n /\ k + 1 # 0 /\ (k + 1) - 1 = k
        /\ k + 1 \in Numbers(src) /\ 0 \in Numbers(src)
        /\ \A i \in 0 .. k : i \in Numbers(src) /\ i # k + 1
    BY <1>1 DEF Numbers
  <2>2. f[k + 1] = new
    BY <1>1, <1>3, <2>1
  <2>3. t \in Texts
    BY <2>1 DEF Segment, Tables, Strings
  <2>4. /\ Segment(f[k]) /\ f[k].by_index.size = k + 1
        /\ \A i \in 0 .. k : Text(f[k], i) = Text(src, i)
    BY <1>5
  <2>5. Numbers(f[k]) = 0 .. k
    BY <2>4 DEF Numbers
  <2>6. \A i \in Numbers(f[k]) : Text(f[k], i) # t
    BY <2>1, <2>4, <2>5 DEF Segment, Tables
  <2>7. /\ Segment(new)
        /\ \A i \in Numbers(f[k]) : Text(new, i) = Text(f[k], i)
        /\ new.by_index.size = f[k].by_index.size + 1
        /\ Text(new, f[k].by_index.size) = t
    BY <2>3, <2>4, <2>6, Named
  <2>8. \A i \in 0 .. k + 1 : Text(new, i) = Text(src, i)
    <3> HIDE DEF new
    <3>1. \A i \in 0 .. k + 1 : i \in 0 .. k \/ i = k + 1
      OBVIOUS
    <3> QED
      BY <2>4, <2>5, <2>7, <3>1
  <2> HIDE DEF new
  <2> QED
    BY <2>1, <2>2, <2>4, <2>7, <2>8
<1>6. \A k \in 0 .. n : k \in T
  <2> HIDE DEF T, n
  <2> QED
    BY <1>1, <1>4, <1>5, UpTo
<1>7. n \in T
  BY <1>1, <1>6
<1>8. Numbers(src) = 0 .. n
  BY <1>1 DEF Numbers
<1>9. /\ Segment(f[n]) /\ f[n].by_index.size = n + 1
      /\ \A i \in 0 .. n : Text(f[n], i) = Text(src, i)
  BY <1>7
<1> HIDE DEF n, T
<1>10. /\ Segment(AddAll(dest, texts)) /\ AddAll(dest, texts).by_index.size = src.by_index.size
       /\ \A i \in Numbers(src) : Text(AddAll(dest, texts), i) = Text(src, i)
  BY <1>1, <1>2, <1>8, <1>9
<1> QED
  BY <1>10 DEF texts

\* Two segments with the same texts give every text the same number.
LEMMA SameNumbers ==
  ASSUME NEW a, Segment(a), NEW b, Segment(b), a.by_index.size = b.by_index.size,
         \A i \in Numbers(a) : Text(b, i) = Text(a, i)
  PROVE  /\ NamesOf(b) = NamesOf(a)
         /\ \A t \in Strings : text_seg_text_to_index(b, t) = text_seg_text_to_index(a, t)
<1>1. a.by_index.size \in Nat /\ Numbers(b) = Numbers(a)
  BY DEF Segment, Tables, Array, Numbers
<1>2. \A i \in 1 .. a.by_index.size : Text(b, i - 1) = Text(a, i - 1)
  BY <1>1 DEF Numbers
<1>3. NamesOf(b) = NamesOf(a)
  BY <1>2, NamesAre
<1>4. ASSUME NEW t \in Strings
      PROVE  text_seg_text_to_index(b, t) = text_seg_text_to_index(a, t)
  <2>1. CASE \E i \in Numbers(a) : Text(a, i) = t
    BY <1>1, <2>1, NumberOf
  <2>2. CASE \A i \in Numbers(a) : Text(a, i) # t
    BY <1>1, <2>2, NumberOf
  <2> QED
    BY <2>1, <2>2
<1> QED
  BY <1>3, <1>4

-------------------------------------------------------------------------------
(* Theorems about segments *)

\* Whatever mixture of opcodes fills a map and copies it, its names are a
\* segment.
THEOREM SegmentInvariance == MapSpec => []Segment(symbols)
<1>1. MapInit => Segment(symbols)
  BY NewSegment DEF MapInit
<1>2. ASSUME Segment(symbols), [MapNext]_map PROVE Segment(symbols)'
  <2>1. CASE MapSet
    <3>1. PICK t \in Texts, v \in Values :
            symbols' = IF text_seg_text_to_index(symbols, t) # -1 THEN symbols
                       ELSE text_seg_find_by_text(symbols, t)
      BY <2>1 DEF MapSet
    <3>2. Segment(text_seg_find_by_text(symbols, t))
      BY <1>2, Named
    <3> QED
      BY <1>2, <3>1, <3>2
  <2>2. CASE EnvAdd
    <3>1. PICK t \in Texts : symbols' = text_seg_find_by_text(symbols, t)
      BY <2>2 DEF EnvAdd
    <3>2. Segment(text_seg_find_by_text(symbols, t))
      BY <1>2, Named
    <3> QED
      BY <3>1, <3>2
  <2>3. CASE EnvSet
    BY <1>2, <2>3 DEF EnvSet
  <2>4. CASE Clone
    <3>1. symbols' = AddAll(text_seg_init, Tail(NamesOf(symbols)))
      BY <2>4 DEF Clone, text_seg_copy
    <3>2. Segment(AddAll(text_seg_init, Tail(NamesOf(symbols))))
      BY <1>2, CopyOf, NewSegment
    <3> QED
      BY <3>1, <3>2
  <2>5. CASE UNCHANGED map
    BY <1>2, <2>5 DEF map
  <2> QED
    BY <1>2, <2>1, <2>2, <2>3, <2>4, <2>5 DEF MapNext
<1> QED
  BY <1>1, <1>2, PTL DEF MapSpec

\* The names of a map, or of any text segment that is filled like one, are read
\* back from an image in the same order, and every text has its number again:
\* code that was saved with numbers finds its names (text_seg_serialize,
\* text_seg_unserialize).
THEOREM NamesReadBack == MapSpec => []ImagesKeepNames
<1>1. ASSUME Segment(symbols) PROVE ImagesKeepNames
  <2> DEFINE n == symbols.by_index.size
             room == [text_seg_init EXCEPT !.by_index = dynarray_reserve(@, n)]
             back == text_seg_unserialize(text_seg_init, text_seg_serialize(symbols))
  <2>1. n \in Nat
    BY <1>1 DEF Segment, Tables, Array
  <2>2. back = AddAll(room, Tail(NamesOf(symbols)))
    BY DEF text_seg_unserialize, text_seg_serialize
  <2>3. Segment(room) /\ room.by_index.size = 1
    BY <2>1, NewSegment, Reserved
  <2> HIDE DEF room, back
  <2>4. /\ Segment(back) /\ back.by_index.size = n
        /\ \A i \in Numbers(symbols) : Text(back, i) = Text(symbols, i)
    BY <1>1, <2>2, <2>3, CopyOf
  <2>5. /\ NamesOf(back) = NamesOf(symbols)
        /\ \A t \in Strings : text_seg_text_to_index(back, t) = text_seg_text_to_index(symbols, t)
    BY <1>1, <2>4, SameNumbers
  <2> QED
    BY <2>5 DEF ImagesKeepNames, back, Strings
<1> QED
  BY <1>1, SegmentInvariance, PTL

-------------------------------------------------------------------------------
(* Values *)

\* The numbers of names, without that of the empty text.
Names(ts) == 1 .. ts.by_index.size - 1

\* The two words of every name lie in the memory of the array and are of one
\* value; the size of the array is even or that of a new one.
WordsInv ==
  /\ Segment(symbols)
  /\ Array(data) /\ cloned \in BOOLEAN
  /\ \A i \in Names(symbols) : 2 * i + 1 < data.reserved /\ data.data[2 * i] = data.data[2 * i + 1]
  /\ data.size = 1 \/ \E k \in 1 .. symbols.by_index.size : data.size = 2 * k
  /\ ~cloned => data.size = IF symbols.by_index.size = 1 THEN 1 ELSE 2 * symbols.by_index.size

\* mapSet makes room for one step at a time (containers.c, line 203).  On a clone
\* that has no value of its own yet the size is one and no longer even, and the
\* step is a word short for the name whose number is just half a step.  It is
\* enough that this name is never a new one.
Roomy ==
  cloned /\ data.size = 1 /\ 2 * symbols.by_index.size = MapStep =>
    \A t \in Texts : text_seg_text_to_index(symbols, t) # -1

LEMMA Even == \E h \in Nat : MapStep = 2 * h /\ h > 1
  BY TextsAssumption

\* ValueOf of the machine, of any segment and array.
ValueIn(ts, d, t) ==
  LET i == text_seg_text_to_index(ts, t)
  IN  IF i = -1 THEN NULL
      ELSE IF Word(d, 2 * i, Wild) = Word(d, 2 * i + 1, Wild) THEN Word(d, 2 * i, Wild) ELSE Wild

\* The value of a name is in its words.
LEMMA ValueIs ==
  ASSUME NEW ts, Segment(ts), NEW d, Array(d), NEW t \in Texts,
         \A i \in Names(ts) : 2 * i + 1 < d.reserved /\ d.data[2 * i] = d.data[2 * i + 1]
  PROVE  /\ \A k \in Names(ts) : Text(ts, k) = t => ValueIn(ts, d, t) = d.data[2 * k]
         /\ (\A k \in Names(ts) : Text(ts, k) # t) => ValueIn(ts, d, t) = NULL
<1>1. t \in Strings /\ t # EmptyText
  BY TextsAssumption DEF Strings
<1>2. \A k \in Numbers(ts) : k \in Names(ts) \/ k = 0
  BY DEF Numbers, Names
<1>3. \A k \in Names(ts) : k \in Numbers(ts) /\ k \in Nat /\ k # -1
  BY DEF Numbers, Names
<1>4. ASSUME NEW k \in Names(ts), Text(ts, k) = t
      PROVE  /\ text_seg_text_to_index(ts, t) = k /\ k # -1
             /\ Word(d, 2 * k, Wild) = d.data[2 * k]
             /\ Word(d, 2 * k + 1, Wild) = d.data[2 * k]
  <2>1. text_seg_text_to_index(ts, t) = k
    BY <1>1, <1>3, <1>4, NumberOf
  <2>2. 2 * k \in DOMAIN d.data /\ 2 * k + 1 \in DOMAIN d.data
    <3>1. DOMAIN d.data = 0 .. d.reserved - 1 /\ d.reserved \in Nat
      BY DEF Array
    <3>2. k \in Nat /\ 2 * k + 1 < d.reserved
      BY <1>3, <1>4
    <3> QED
      BY <3>1, <3>2
  <2> QED
    BY <1>3, <1>4, <2>1, <2>2 DEF Word
<1>5. ASSUME \A k \in Names(ts) : Text(ts, k) # t
      PROVE  text_seg_text_to_index(ts, t) = -1
  <2>1. \A k \in Numbers(ts) : Text(ts, k) # t
    BY <1>1, <1>2, <1>5 DEF Segment
  <2> QED
    BY <1>1, <2>1, NumberOf
<1> QED
  BY <1>4, <1>5 DEF ValueIn

\* A write of v to name t makes ts and d into new and e: t has number i there,
\* and is the next name if ts does not know it.
WrittenTo(ts, d, new, e, i, t, v) ==
  /\ \/ new = ts /\ i \in Names(ts) /\ Text(ts, i) = t
     \/ /\ Segment(new) /\ i = ts.by_index.size /\ new.by_index.size = i + 1
        /\ \A j \in Numbers(ts) : Text(new, j) = Text(ts, j)
        /\ \A j \in Numbers(ts) : Text(ts, j) # t
        /\ Text(new, i) = t
  /\ Array(e) /\ e.size = IF d.size <= 2 * i + 1 THEN 2 * i + 2 ELSE d.size
  /\ d.reserved <= e.reserved /\ 2 * i + 1 < e.reserved
  /\ e.data[2 * i] = v /\ e.data[2 * i + 1] = v
  /\ \A j \in 0 .. d.reserved - 1 : j # 2 * i /\ j # 2 * i + 1 => e.data[j] = d.data[j]

LEMMA InitWords == MapInit => WordsInv
<1> SUFFICES ASSUME MapInit PROVE WordsInv
  OBVIOUS
<1>1. Segment(symbols) /\ symbols.by_index.size = 1 /\ cloned = FALSE
  BY NewSegment DEF MapInit
<1>2. Array(dynarray_init) /\ dynarray_init.size = 0
  BY DEF Array, dynarray_init
<1>3. Array(data) /\ data.size = 1
  BY <1>2, SetWord DEF MapInit, NewData
<1>4. Names(symbols) = {}
  BY <1>1 DEF Names
<1> QED
  BY <1>1, <1>3, <1>4 DEF WordsInv

\* e is d with v in both words of name i.
BothSet(d, e, i, v) ==
  /\ Array(e) /\ e.size = IF d.size <= 2 * i + 1 THEN 2 * i + 2 ELSE d.size
  /\ d.reserved <= e.reserved /\ 2 * i + 1 < e.reserved
  /\ e.data[2 * i] = v /\ e.data[2 * i + 1] = v
  /\ \A j \in 0 .. d.reserved - 1 :
        j # 2 * i /\ j # 2 * i + 1 => e.data[j] = d.data[j]

\* dynarray_set of both words of a value.
LEMMA SetBoth ==
  ASSUME NEW d, Array(d), NEW i \in Nat, NEW v, NEW a \in Nat, NEW b \in Nat,
         (a = 2 * i /\ b = 2 * i + 1) \/ (a = 2 * i + 1 /\ b = 2 * i)
  PROVE  BothSet(d, dynarray_set(dynarray_set(d, a, v), b, v), i, v)
<1> DEFINE c == dynarray_set(d, a, v)
           e == dynarray_set(c, b, v)
<1>1. /\ Array(c) /\ c.size = IF d.size <= a THEN a + 1 ELSE d.size
      /\ d.reserved <= c.reserved /\ a < c.reserved
      /\ c.data[a] = v
      /\ \A j \in 0 .. d.reserved - 1 : j # a => c.data[j] = d.data[j]
  BY SetWord
<1> HIDE DEF c
<1>2. /\ Array(e) /\ e.size = IF c.size <= b THEN b + 1 ELSE c.size
      /\ c.reserved <= e.reserved /\ b < e.reserved
      /\ e.data[b] = v
      /\ \A j \in 0 .. c.reserved - 1 : j # b => e.data[j] = c.data[j]
  BY <1>1, SetWord
<1> HIDE DEF e
<1>3. /\ c.reserved \in Nat /\ d.reserved \in Nat /\ e.reserved \in Nat
      /\ c.size \in Nat /\ d.size \in Nat
  BY <1>1, <1>2 DEF Array
<1>4. e.data[a] = v
  <2>1. a \in 0 .. c.reserved - 1 /\ a # b
    BY <1>1, <1>3
  <2> QED
    BY <1>1, <1>2, <2>1
<1>5. \A j \in 0 .. d.reserved - 1 : j # a /\ j # b => e.data[j] = d.data[j]
  <2>1. \A j \in 0 .. d.reserved - 1 : j \in 0 .. c.reserved - 1
    BY <1>1, <1>3
  <2> QED
    BY <1>1, <1>2, <2>1
<1>6. e.size = IF d.size <= 2 * i + 1 THEN 2 * i + 2 ELSE d.size
  BY <1>1, <1>2, <1>3
<1>7. d.reserved <= e.reserved /\ 2 * i + 1 < e.reserved
  BY <1>1, <1>2, <1>3
<1>8. /\ Array(e) /\ e.data[2 * i] = v /\ e.data[2 * i + 1] = v
      /\ \A j \in 0 .. d.reserved - 1 :
            j # 2 * i /\ j # 2 * i + 1 => e.data[j] = d.data[j]
  BY <1>2, <1>4, <1>5
<1> QED
  BY <1>6, <1>7, <1>8 DEF BothSet, e, c

\* What every opcode that writes a value does to the words.
LEMMA WritesWords ==
  ASSUME WordsInv, NEW t \in Texts, NEW i, NEW v, cloned' = cloned,
         WrittenTo(symbols, data, symbols', data', i, t, v)
  PROVE  WordsInv'
<1> DEFINE n == symbols.by_index.size
           m == symbols'.by_index.size
<1>0. /\ \/ symbols' = symbols /\ i \in Names(symbols)
         \/ Segment(symbols') /\ i = n /\ m = n + 1
      /\ Array(data') /\ data'.size = IF data.size <= 2 * i + 1 THEN 2 * i + 2 ELSE data.size
      /\ data.reserved <= data'.reserved /\ 2 * i + 1 < data'.reserved
      /\ data'.data[2 * i] = v /\ data'.data[2 * i + 1] = v
      /\ \A j \in 0 .. data.reserved - 1 :
            j # 2 * i /\ j # 2 * i + 1 => data'.data[j] = data.data[j]
  BY DEF WrittenTo
<1>1. n \in Nat /\ n > 0 /\ data.reserved \in Nat /\ data.size \in Nat /\ cloned \in BOOLEAN
  BY DEF WordsInv, Segment, Tables, Array, Numbers
<1>2. Segment(symbols') /\ (m = n \/ (m = n + 1 /\ i = n))
  BY <1>0 DEF WordsInv
<1>3. i \in 1 .. m - 1 /\ i \in Nat
  BY <1>0, <1>1 DEF Names
<1>4. \A j \in 1 .. m - 1 : j = i \/ (j \in Names(symbols) /\ j \in Nat)
  BY <1>1, <1>2 DEF Names
<1>5. \A j \in Names(symbols) : /\ j \in Nat
                                /\ 2 * j \in 0 .. data.reserved - 1
                                /\ 2 * j + 1 \in 0 .. data.reserved - 1
                                /\ j # i => /\ 2 * j # 2 * i /\ 2 * j # 2 * i + 1
                                            /\ 2 * j + 1 # 2 * i /\ 2 * j + 1 # 2 * i + 1
  <2>1. \A j \in Names(symbols) : j \in Nat /\ 2 * j + 1 < data.reserved
    BY <1>1 DEF WordsInv, Names
  <2> QED
    BY <1>1, <1>3, <2>1
<1>6. \A j \in Names(symbols) : j # i =>
         data'.data[2 * j] = data.data[2 * j] /\ data'.data[2 * j + 1] = data.data[2 * j + 1]
  BY <1>0, <1>5
<1>7. ASSUME NEW j \in 1 .. m - 1
      PROVE  2 * j + 1 < data'.reserved /\ data'.data[2 * j] = data'.data[2 * j + 1]
  <2>1. CASE j = i
    BY <1>0, <2>1
  <2>2. CASE j # i
    <3>1. j \in Names(symbols) /\ 2 * j + 1 < data.reserved /\ j \in Nat
      BY <1>4, <2>2 DEF WordsInv
    <3>2. data'.reserved \in Nat
      BY <1>0 DEF Array
    <3>3. data.data[2 * j] = data.data[2 * j + 1]
      BY <3>1 DEF WordsInv
    <3> QED
      BY <1>0, <1>1, <1>6, <2>2, <3>1, <3>2, <3>3
  <2> QED
    BY <2>1, <2>2
<1>8. data'.size = 1 \/ \E k \in 1 .. m : data'.size = 2 * k
  <2>1. CASE data.size <= 2 * i + 1
    <3>1. i + 1 \in 1 .. m /\ data'.size = 2 * (i + 1)
      BY <1>0, <1>1, <1>2, <1>3, <2>1
    <3> QED
      BY <3>1
  <2>2. CASE ~ (data.size <= 2 * i + 1)
    <3>1. data'.size = data.size
      BY <1>0, <2>2
    <3>2. \A k \in 1 .. n : k \in 1 .. m
      BY <1>1, <1>2
    <3> QED
      BY <3>1, <3>2 DEF WordsInv
  <2> QED
    BY <2>1, <2>2
<1>9. ASSUME ~cloned' PROVE data'.size = IF m = 1 THEN 1 ELSE 2 * m
  <2>1. data.size = IF n = 1 THEN 1 ELSE 2 * n
    BY <1>9 DEF WordsInv
  <2>2. data'.size = IF data.size <= 2 * i + 1 THEN 2 * i + 2 ELSE data.size
    BY <1>0
  <2> HIDE DEF n, m
  <2>3. CASE m = n
    <3>1. i <= n - 1 /\ i > 0 /\ n # 1
      BY <1>1, <1>3, <2>3
    <3>2. data.size = 2 * n /\ ~ (data.size <= 2 * i + 1)
      BY <1>1, <1>3, <2>1, <3>1
    <3> QED
      BY <2>2, <2>3, <3>1, <3>2
  <2>4. CASE m = n + 1 /\ i = n
    <3>1. data.size <= 2 * i + 1
      BY <1>1, <2>1, <2>4
    <3> QED
      BY <1>1, <2>2, <2>4, <3>1
  <2> QED
    BY <1>2, <2>3, <2>4
<1>10. WordsInv'
  BY <1>0, <1>1, <1>2, <1>7, <1>8, <1>9 DEF WordsInv, Names
<1> QED
  BY <1>10

LEMMA MapSetWrites ==
  ASSUME WordsInv, Roomy, MapSet
  PROVE  \E t \in Texts, v \in Values, i \in Nat :
            WrittenTo(symbols, data, symbols', data', i, t, v)
<1> DEFINE n == symbols.by_index.size
<1>1. PICK t \in Texts, v \in Values :
        LET known == text_seg_text_to_index(symbols, t) # -1
            ts == IF known THEN symbols ELSE text_seg_find_by_text(symbols, t)
            i == text_seg_text_to_index(ts, t)
        IN  /\ 2 * i < data.size + MapStep
            /\ symbols' = ts
            /\ data' = InPlace(Grown(data, i), i, v)
            /\ UNCHANGED cloned
  BY DEF MapSet
<1>2. Segment(symbols) /\ Array(data) /\ t \in Strings
  BY DEF WordsInv, Strings
<1>3. n \in Nat \ {0} /\ data.size \in Nat /\ data.reserved \in Nat /\ data.size <= data.reserved
  BY <1>2 DEF Segment, Tables, Array, Numbers
<1>4. t # EmptyText
  BY TextsAssumption
<1> DEFINE i == text_seg_text_to_index(symbols', t)
           g == Grown(data, i)
\* The name is known, or it is the next one.
<1>5. \/ (symbols' = symbols /\ i \in Names(symbols) /\ Text(symbols, i) = t)
      \/ /\ Segment(symbols')
         /\ i = n
         /\ symbols'.by_index.size = n + 1
         /\ \A j \in Numbers(symbols) : Text(symbols', j) = Text(symbols, j)
         /\ \A j \in Numbers(symbols) : Text(symbols, j) # t
         /\ Text(symbols', n) = t
  <2>1. CASE \E k \in Numbers(symbols) : Text(symbols, k) = t
    <3>1. PICK k \in Numbers(symbols) : Text(symbols, k) = t
      BY <2>1
    <3>2. text_seg_text_to_index(symbols, t) = k /\ k # -1
      BY <1>2, <3>1, NumberOf DEF Numbers
    <3>3. symbols' = symbols
      BY <1>1, <3>2
    <3>4. k \in Names(symbols)
      BY <1>2, <1>3, <1>4, <3>1 DEF Numbers, Names, Segment
    <3> QED
      BY <3>1, <3>2, <3>3, <3>4
  <2>2. CASE \A k \in Numbers(symbols) : Text(symbols, k) # t
    <3>1. symbols' = text_seg_find_by_text(symbols, t)
      BY <1>1, <1>2, <2>2, NumberOf
    <3>2. /\ Segment(symbols')
          /\ \A j \in Numbers(symbols) : Text(symbols', j) = Text(symbols, j)
          /\ symbols'.by_index.size = n + 1
          /\ Text(symbols', n) = t
      BY <1>2, <2>2, <3>1, Named
    <3>3. n \in 0 .. symbols'.by_index.size - 1
      BY <1>3, <3>2
    <3>4. i = n
      BY <1>2, <3>2, <3>3, NumberOf DEF Numbers
    <3> QED
      BY <2>2, <3>2, <3>4
  <2> QED
    BY <2>1, <2>2
<1>6. /\ 2 * i < data.size + MapStep
      /\ data' = InPlace(g, i, v)
      /\ cloned' = cloned
  BY <1>1
<1> HIDE DEF i
<1>7. i \in Nat /\ i > 0 /\ i <= n
  BY <1>3, <1>5 DEF Names
<1>8. PICK h \in Nat : MapStep = 2 * h /\ h > 1
  BY Even
<1>9. /\ Array(g) /\ g.size = IF data.size <= 2 * i + 1 THEN 2 * i + 2 ELSE data.size
      /\ data.reserved <= g.reserved /\ 2 * i + 1 < g.reserved
      /\ \A j \in 0 .. data.reserved - 1 : g.data[j] = data.data[j]
  <2>1. CASE 2 * i < data.size
    <3>1. PICK k \in 1 .. n : data.size = 2 * k
      BY <1>7, <2>1 DEF WordsInv
    <3>2. 2 * i + 1 < data.size
      BY <1>7, <2>1, <3>1
    <3>3. g = data
      BY <2>1 DEF Grown
    <3> QED
      BY <1>2, <1>3, <1>7, <3>2, <3>3
  <2>2. CASE ~ (2 * i < data.size)
    <3> DEFINE r == dynarray_reserve(data, data.size + MapStep)
               room == IF data.size + MapStep <= data.reserved THEN data.reserved
                       ELSE data.size + MapStep
    <3>0. data.size + MapStep \in Nat
      BY <1>3, <1>8
    <3>1. /\ Array(r) /\ r.size = data.size /\ r.reserved = room
          /\ \A j \in 0 .. data.reserved - 1 : r.data[j] = data.data[j]
      BY <1>2, <3>0, ReserveKeeps
    <3> HIDE DEF r
    <3>2. room \in Nat /\ data.reserved <= room /\ data.size + MapStep <= room
      BY <1>3, <1>8
    <3>3. 2 * i + 1 < room
      <4>1. CASE i \in Names(symbols)
        <5>1. 2 * i + 1 < data.reserved
          BY <4>1 DEF WordsInv
        <5> QED
          BY <1>3, <1>7, <3>2, <5>1
      <4>2. CASE i = n /\ data.size # 1
        <5>1. PICK k \in 1 .. n : data.size = 2 * k
          BY <4>2 DEF WordsInv
        <5>2. 2 * i + 1 < data.size + MapStep
          BY <1>6, <1>7, <1>8, <5>1
        <5> QED
          BY <1>3, <1>7, <1>8, <3>2, <5>2
      <4>3. CASE i = n /\ data.size = 1
        <5>1. i # h
          <6> SUFFICES ASSUME i = h PROVE FALSE
            OBVIOUS
          <6>1. 2 * n = MapStep /\ cloned
            BY <1>3, <1>8, <4>3 DEF WordsInv
          <6>2. text_seg_text_to_index(symbols, t) # -1
            BY <4>3, <6>1 DEF Roomy
          <6>3. n \notin Names(symbols)
            BY <1>3 DEF Names
          <6>4. \A j \in Numbers(symbols) : Text(symbols, j) # t
            BY <1>5, <4>3, <6>3
          <6> QED
            BY <1>2, <6>2, <6>4, NumberOf
        <5>2. 2 * i + 1 < 1 + MapStep
          BY <1>6, <1>7, <1>8, <4>3, <5>1
        <5> QED
          BY <1>3, <1>7, <1>8, <3>2, <4>3, <5>2
      <4> QED
        BY <1>5, <4>1, <4>2, <4>3
    <3>4. g = [r EXCEPT !.size = 2 * i + 2]
      BY <2>2 DEF Grown, r
    <3> HIDE DEF g, room
    <3>5. g = [reserved |-> r.reserved, size |-> 2 * i + 2, data |-> r.data]
      BY <3>1, <3>4 DEF Array
    <3>6. 2 * i + 2 \in 0 .. room
      BY <1>7, <3>2, <3>3
    <3>7. Array(g)
      BY <3>1, <3>2, <3>5, <3>6 DEF Array
    <3>8. data.size <= 2 * i + 1
      BY <1>3, <1>7, <2>2
    <3> QED
      BY <3>1, <3>2, <3>3, <3>5, <3>7, <3>8
  <2> QED
    BY <2>1, <2>2
<1> HIDE DEF g
<1>10. /\ Array(data') /\ data'.size = g.size /\ data'.reserved = g.reserved
       /\ data'.data[2 * i] = v /\ data'.data[2 * i + 1] = v
       /\ \A j \in 0 .. data.reserved - 1 :
             j # 2 * i /\ j # 2 * i + 1 => data'.data[j] = data.data[j]
  <2> DEFINE w == [j \in 0 .. g.reserved - 1 |-> IF j \in {2 * i, 2 * i + 1} THEN v ELSE g.data[j]]
  <2>1. /\ g = [reserved |-> g.reserved, size |-> g.size, data |-> g.data]
        /\ DOMAIN g.data = 0 .. g.reserved - 1
        /\ g.reserved \in Nat /\ g.size \in 0 .. g.reserved
    BY <1>9 DEF Array
  <2>2. data' = [reserved |-> g.reserved, size |-> g.size, data |-> w]
    BY <1>6, <2>1 DEF InPlace
  <2>3. w = [j \in 0 .. g.reserved - 1 |-> w[j]]
    OBVIOUS
  <2>4. \A j \in 0 .. g.reserved - 1 : w[j] = IF j = 2 * i \/ j = 2 * i + 1 THEN v ELSE g.data[j]
    OBVIOUS
  <2> HIDE DEF w
  <2>5. /\ data'.reserved = g.reserved /\ data'.size = g.size /\ data'.data = w
    BY <2>2
  <2>6. Array(data')
    BY <2>1, <2>2, <2>3, <2>5 DEF Array
  <2>7. 2 * i \in 0 .. g.reserved - 1 /\ 2 * i + 1 \in 0 .. g.reserved - 1
    BY <1>7, <1>9, <2>1
  <2>8. \A j \in 0 .. data.reserved - 1 : j \in 0 .. g.reserved - 1
    BY <1>3, <1>9, <2>1
  <2> QED
    BY <1>9, <2>4, <2>5, <2>6, <2>7, <2>8
<1>11. WrittenTo(symbols, data, symbols', data', i, t, v)
  BY <1>5, <1>9, <1>10 DEF WrittenTo
<1> QED
  BY <1>7, <1>11

\* EnvAdd names the text, if it is new, and writes both words.
LEMMA EnvAddWrites ==
  ASSUME WordsInv, EnvAdd
  PROVE  \E t \in Texts, v \in Values, i \in Nat :
            WrittenTo(symbols, data, symbols', data', i, t, v)
<1> DEFINE n == symbols.by_index.size
<1>1. PICK t \in Texts, v \in Values :
        LET ts == text_seg_find_by_text(symbols, t)
            i == text_seg_text_to_index(ts, t)
        IN  /\ symbols' = ts
            /\ data' = dynarray_set(dynarray_set(data, 2 * i + 1, v), 2 * i, v)
  BY DEF EnvAdd
<1>2. Segment(symbols) /\ Array(data) /\ t \in Strings /\ t # EmptyText
  BY TextsAssumption DEF WordsInv, Strings
<1>3. n \in Nat \ {0}
  BY <1>2 DEF Segment, Tables, Array, Numbers
<1> DEFINE i == text_seg_text_to_index(symbols', t)
<1>4. Segment(symbols') /\ symbols' = text_seg_find_by_text(symbols, t)
  BY <1>1, <1>2, Named
<1>5. \/ (symbols' = symbols /\ i \in Names(symbols) /\ Text(symbols, i) = t)
      \/ /\ i = n /\ symbols'.by_index.size = n + 1
         /\ \A j \in Numbers(symbols) : Text(symbols', j) = Text(symbols, j)
         /\ \A j \in Numbers(symbols) : Text(symbols, j) # t
         /\ Text(symbols', n) = t
  <2>1. CASE \E k \in Numbers(symbols) : Text(symbols, k) = t
    <3>1. PICK k \in Numbers(symbols) : Text(symbols, k) = t
      BY <2>1
    <3>2. symbols' = symbols
      BY <1>2, <1>4, <2>1, Named
    <3>3. i = k
      BY <1>2, <3>1, <3>2, NumberOf
    <3>4. k \in Names(symbols)
      BY <1>2, <1>3, <3>1 DEF Numbers, Names, Segment
    <3> QED
      BY <3>1, <3>2, <3>3, <3>4
  <2>2. CASE \A k \in Numbers(symbols) : Text(symbols, k) # t
    <3>1. /\ \A j \in Numbers(symbols) : Text(symbols', j) = Text(symbols, j)
          /\ symbols'.by_index.size = n + 1
          /\ Text(symbols', n) = t
      BY <1>2, <1>4, <2>2, Named
    <3>2. n \in Numbers(symbols')
      BY <1>3, <3>1 DEF Numbers
    <3>3. i = n
      BY <1>2, <1>4, <3>1, <3>2, NumberOf
    <3> QED
      BY <2>2, <3>1, <3>3
  <2> QED
    BY <2>1, <2>2
<1>6. data' = dynarray_set(dynarray_set(data, 2 * i + 1, v), 2 * i, v)
  BY <1>1
<1> HIDE DEF i
<1>7. i \in Nat
  BY <1>3, <1>5 DEF Names
<1>8. 2 * i \in Nat /\ 2 * i + 1 \in Nat
  BY <1>7
<1>9. BothSet(data, data', i, v)
  <2>1. BothSet(data, dynarray_set(dynarray_set(data, 2 * i + 1, v), 2 * i, v), i, v)
    BY <1>2, <1>7, <1>8, SetBoth
  <2> QED
    BY <1>6, <2>1
<1>10. WrittenTo(symbols, data, symbols', data', i, t, v)
  BY <1>4, <1>5, <1>9 DEF WrittenTo, BothSet
<1> QED
  BY <1>7, <1>10

\* EnvSet writes both words of a name that the compiler found.
LEMMA EnvSetWrites ==
  ASSUME WordsInv, EnvSet
  PROVE  \E t \in Texts, v \in Values, i \in Nat :
            WrittenTo(symbols, data, symbols', data', i, t, v)
<1>1. PICK i \in Names(symbols), v \in Values :
        /\ data' = dynarray_set(dynarray_set(data, 2 * i, v), 2 * i + 1, v)
        /\ symbols' = symbols
  BY DEF EnvSet, Names
<1>2. Segment(symbols) /\ Array(data) /\ symbols.by_index.size \in Nat
  BY DEF WordsInv, Segment, Tables, Array
<1>3. i \in Nat /\ i # 0 /\ i \in Numbers(symbols)
  BY <1>1, <1>2 DEF Names, Numbers
<1>4. Text(symbols, i) \in Texts
  BY <1>2, <1>3 DEF Segment, Tables, Strings
<1>5. 2 * i \in Nat /\ 2 * i + 1 \in Nat
  BY <1>3
<1>6. BothSet(data, data', i, v)
  <2>1. BothSet(data, dynarray_set(dynarray_set(data, 2 * i, v), 2 * i + 1, v), i, v)
    BY <1>2, <1>3, <1>5, SetBoth
  <2> QED
    BY <1>1, <2>1
<1>7. WrittenTo(symbols, data, symbols', data', i, Text(symbols, i), v)
  BY <1>1, <1>6 DEF WrittenTo, BothSet
<1> QED
  BY <1>1, <1>3, <1>4, <1>7

\* Every opcode that writes a value keeps the invariant.
LEMMA WordsStay ==
  ASSUME WordsInv, Roomy, MapSet \/ EnvAdd \/ EnvSet
  PROVE  /\ WordsInv'
         /\ \E t \in Texts, v \in Values, i \in Nat :
               WrittenTo(symbols, data, symbols', data', i, t, v)
<1>1. cloned' = cloned
  BY DEF MapSet, EnvAdd, EnvSet
<1>2. PICK t \in Texts, v \in Values, i \in Nat :
        WrittenTo(symbols, data, symbols', data', i, t, v)
  BY MapSetWrites, EnvAddWrites, EnvSetWrites
<1> QED
  BY <1>1, <1>2, WritesWords

\* What a table of names must do on such a write is what happens to the names
\* and to the values.
LEMMA PutNames ==
  ASSUME NEW ts, Segment(ts), NEW new, Segment(new), NEW i \in Nat, NEW t \in Texts, NEW v,
         NEW d, NEW e, WrittenTo(ts, d, new, e, i, t, v)
  PROVE  NamesOf(new) = IF Table!Contains(NamesOf(ts), t) THEN NamesOf(ts)
                        ELSE Append(NamesOf(ts), t)
<1> DEFINE n == ts.by_index.size
<1>1. /\ NamesOf(ts) = [k \in 1 .. n |-> Text(ts, k - 1)]
      /\ Len(NamesOf(ts)) = n
  BY NamesAre
<1>2. n \in Nat
  BY DEF Segment, Tables, Array
<1>3. CASE new = ts /\ i \in Names(ts) /\ Text(ts, i) = t
  <2>1. i + 1 \in 1 .. n /\ (i + 1) - 1 = i
    BY <1>2, <1>3 DEF Names
  <2>2. NamesOf(ts)[i + 1] = t
    BY <1>1, <1>3, <2>1
  <2> QED
    BY <1>1, <1>3, <2>1, <2>2 DEF Table!Contains
<1>4. CASE /\ i = n /\ new.by_index.size = i + 1
           /\ \A j \in Numbers(ts) : Text(new, j) = Text(ts, j)
           /\ \A j \in Numbers(ts) : Text(ts, j) # t
           /\ Text(new, i) = t
  <2>1. \A k \in 1 .. n : k - 1 \in Numbers(ts)
    BY <1>2 DEF Numbers
  <2>2. ~ Table!Contains(NamesOf(ts), t)
    BY <1>1, <1>4, <2>1 DEF Table!Contains
  <2>3. NamesOf(new) = [k \in 1 .. n + 1 |-> Text(new, k - 1)]
    BY <1>4, NamesAre
  <2>4. Append(NamesOf(ts), t) = [k \in 1 .. n + 1 |-> IF k = n + 1 THEN t ELSE Text(ts, k - 1)]
    BY <1>1, <1>2, NamesAre
  <2>5. ASSUME NEW k \in 1 .. n + 1
        PROVE  Text(new, k - 1) = IF k = n + 1 THEN t ELSE Text(ts, k - 1)
    <3>1. CASE k = n + 1
      BY <1>2, <1>4, <3>1
    <3>2. CASE k # n + 1
      <4>1. k \in 1 .. n
        BY <1>2, <3>2
      <4> QED
        BY <1>4, <2>1, <3>2, <4>1
    <3> QED
      BY <3>1, <3>2
  <2> QED
    BY <2>2, <2>3, <2>4, <2>5
<1> QED
  BY <1>3, <1>4 DEF WrittenTo

LEMMA PutValues ==
  ASSUME NEW ts, Segment(ts), NEW new, Segment(new), NEW i \in Nat, NEW t \in Texts, NEW v,
         NEW d, Array(d), NEW e, WrittenTo(ts, d, new, e, i, t, v),
         \A k \in Names(ts) : 2 * k + 1 < d.reserved /\ d.data[2 * k] = d.data[2 * k + 1],
         \A k \in Names(new) : 2 * k + 1 < e.reserved /\ e.data[2 * k] = e.data[2 * k + 1],
         NEW u \in Texts
  PROVE  ValueIn(new, e, u) = IF u = t THEN v ELSE ValueIn(ts, d, u)
<1>1. ts.by_index.size \in Nat \ {0} /\ d.reserved \in Nat
  BY DEF Segment, Tables, Array, Numbers
<1>2. Array(e) /\ e.data[2 * i] = v
      /\ \A j \in 0 .. d.reserved - 1 : j # 2 * i /\ j # 2 * i + 1 => e.data[j] = d.data[j]
  BY DEF WrittenTo
<1>3. /\ i \in Names(new) /\ Text(new, i) = t
      /\ \A k \in Names(ts) : k \in Names(new) /\ Text(new, k) = Text(ts, k)
      /\ \A k \in Names(new) : k = i \/ k \in Names(ts)
  <2>1. CASE new = ts /\ i \in Names(ts) /\ Text(ts, i) = t
    BY <2>1
  <2>2. CASE /\ i = ts.by_index.size /\ new.by_index.size = i + 1
             /\ \A j \in Numbers(ts) : Text(new, j) = Text(ts, j)
             /\ Text(new, i) = t
    <3>1. i \in Names(new) /\ \A k \in Names(new) : k = i \/ k \in Names(ts)
      BY <1>1, <2>2 DEF Names
    <3>2. \A k \in Names(ts) : k \in Names(new) /\ k \in Numbers(ts)
      BY <1>1, <2>2 DEF Names, Numbers
    <3> QED
      BY <2>2, <3>1, <3>2
  <2> QED
    BY <2>1, <2>2 DEF WrittenTo
<1>4. CASE u = t
  BY <1>2, <1>3, <1>4, ValueIs
<1>5. CASE u # t /\ \E k \in Names(ts) : Text(ts, k) = u
  <2>1. PICK k \in Names(ts) : Text(ts, k) = u
    BY <1>5
  <2>2. ValueIn(ts, d, u) = d.data[2 * k] /\ ValueIn(new, e, u) = e.data[2 * k]
    BY <1>2, <1>3, <2>1, ValueIs
  <2>3. k # i /\ k \in Nat /\ 2 * k + 1 < d.reserved
    BY <1>1, <1>3, <1>5, <2>1 DEF Names
  <2>4. 2 * k \in 0 .. d.reserved - 1 /\ 2 * k # 2 * i /\ 2 * k # 2 * i + 1
    BY <1>1, <2>3
  <2> QED
    BY <1>2, <1>5, <2>2, <2>4
<1>6. CASE u # t /\ \A k \in Names(ts) : Text(ts, k) # u
  <2>1. \A k \in Names(new) : Text(new, k) # u
    BY <1>3, <1>6
  <2> QED
    BY <1>2, <1>6, <2>1, ValueIs
<1> QED
  BY <1>4, <1>5, <1>6

\* A clone of a map that is no clone has its names and its values.
LEMMA CloneKeeps ==
  ASSUME WordsInv, ~cloned, Clone
  PROVE  /\ WordsInv' /\ NamesOf(symbols') = NamesOf(symbols)
         /\ \A t \in Texts : ValueIn(symbols', data', t) = ValueIn(symbols, data, t)
<1> DEFINE n == symbols.by_index.size
           d == dynarray_reserve(NewData, data.size)
           w == [j \in 0 .. d.reserved - 1 |->
                   IF j < data.size + (data.size % 2) THEN Word(data, j, Wild) ELSE d.data[j]]
<1>1. /\ symbols' = AddAll(text_seg_init, Tail(NamesOf(symbols)))
      /\ data' = [d EXCEPT !.data = [j \in DOMAIN d.data |->
           IF j < data.size + (data.size % 2) THEN Word(data, j, Wild) ELSE d.data[j]]]
      /\ cloned' = TRUE
  BY DEF Clone, text_seg_copy, CopiedData
<1>2. /\ Segment(symbols) /\ Array(data) /\ n \in Nat \ {0}
      /\ data.size = IF n = 1 THEN 1 ELSE 2 * n
      /\ data.size <= data.reserved /\ data.reserved \in Nat
  BY DEF WordsInv, Segment, Tables, Array, Numbers
<1>3. /\ Segment(symbols') /\ symbols'.by_index.size = n
      /\ \A i \in Numbers(symbols) : Text(symbols', i) = Text(symbols, i)
  BY <1>1, <1>2, CopyOf, NewSegment
<1>4. NamesOf(symbols') = NamesOf(symbols)
  BY <1>2, <1>3, SameNumbers
<1>5. Array(NewData) /\ NewData.size = 1
  <2>1. Array(dynarray_init) /\ dynarray_init.size = 0
    BY DEF Array, dynarray_init
  <2> QED
    BY <2>1, SetWord DEF NewData
<1>6. Array(d) /\ d.size = 1 /\ data.size <= d.reserved
  <2>1. data.size \in Nat /\ NewData.reserved \in Nat
    BY <1>2, <1>5 DEF Array
  <2> QED
    <3>1. d.reserved = IF data.size <= NewData.reserved THEN NewData.reserved ELSE data.size
      BY <1>5, <2>1, ReserveKeeps
    <3>2. Array(d) /\ d.size = 1
      BY <1>5, <2>1, ReserveKeeps
    <3> HIDE DEF d
    <3> QED
      BY <2>1, <3>1, <3>2
<1> HIDE DEF d
<1>7. data' = [reserved |-> d.reserved, size |-> 1, data |-> w]
  <2>1. /\ d = [reserved |-> d.reserved, size |-> d.size, data |-> d.data]
        /\ DOMAIN d.data = 0 .. d.reserved - 1
    BY <1>6 DEF Array
  <2> QED
    BY <1>1, <1>6, <2>1
<1>8. \A j \in 0 .. d.reserved - 1 : j < data.size => w[j] = Word(data, j, Wild)
  <2>1. data.size <= data.size + (data.size % 2)
    BY <1>2
  <2> QED
    BY <1>2, <2>1
<1>9. w = [j \in 0 .. d.reserved - 1 |-> w[j]]
  OBVIOUS
<1> HIDE DEF w
<1>10. Array(data') /\ data'.size = 1 /\ data'.reserved = d.reserved /\ data'.data = w
  BY <1>6, <1>7, <1>9 DEF Array
<1>11. ASSUME NEW i \in Names(symbols)
       PROVE  /\ 2 * i + 1 < data'.reserved
              /\ data'.data[2 * i] = data.data[2 * i]
              /\ data'.data[2 * i + 1] = data.data[2 * i + 1]
  <2>1. i \in Nat /\ 2 * i + 1 < data.size /\ d.reserved \in Nat
    BY <1>2, <1>6 DEF Names, Array
  <2>2. /\ 2 * i \in 0 .. d.reserved - 1 /\ 2 * i + 1 \in 0 .. d.reserved - 1
        /\ 2 * i \in 0 .. data.reserved - 1 /\ 2 * i + 1 \in 0 .. data.reserved - 1
        /\ 2 * i < data.size
    BY <1>2, <1>6, <2>1
  <2>3. DOMAIN data.data = 0 .. data.reserved - 1
    BY <1>2 DEF Array
  <2> QED
    BY <1>6, <1>8, <1>10, <2>1, <2>2, <2>3 DEF Word
<1>12. Names(symbols') = Names(symbols) /\ \A i \in Names(symbols) : i \in Numbers(symbols)
  BY <1>2, <1>3 DEF Names, Numbers
<1>13. \A i \in Names(symbols') :
          2 * i + 1 < data'.reserved /\ data'.data[2 * i] = data'.data[2 * i + 1]
  BY <1>11, <1>12 DEF WordsInv
<1>14. WordsInv'
  BY <1>1, <1>3, <1>10, <1>13 DEF WordsInv
<1>15. ASSUME NEW t \in Texts
       PROVE  ValueIn(symbols', data', t) = ValueIn(symbols, data, t)
  <2>1. \A i \in Names(symbols) :
           2 * i + 1 < data.reserved /\ data.data[2 * i] = data.data[2 * i + 1]
    BY DEF WordsInv
  <2>2. CASE \E k \in Names(symbols) : Text(symbols, k) = t
    <3>1. PICK k \in Names(symbols) : Text(symbols, k) = t
      BY <2>2
    <3>2. Text(symbols', k) = t /\ k \in Names(symbols')
      BY <1>3, <1>12, <3>1
    <3>3. ValueIn(symbols, data, t) = data.data[2 * k]
      BY <1>2, <2>1, <3>1, ValueIs
    <3>4. ValueIn(symbols', data', t) = data'.data[2 * k]
      BY <1>3, <1>10, <1>13, <3>2, ValueIs
    <3> QED
      BY <1>11, <3>1, <3>3, <3>4
  <2>3. CASE \A k \in Names(symbols) : Text(symbols, k) # t
    <3>1. \A k \in Names(symbols') : Text(symbols', k) # t
      BY <1>3, <1>12, <2>3
    <3>2. ValueIn(symbols, data, t) = NULL
      BY <1>2, <2>1, <2>3, ValueIs
    <3>3. ValueIn(symbols', data', t) = NULL
      BY <1>3, <1>10, <1>13, <3>1, ValueIs
    <3> QED
      BY <3>2, <3>3
  <2> QED
    BY <2>2, <2>3
<1> QED
  BY <1>4, <1>14, <1>15

-------------------------------------------------------------------------------
(* The theorem about values *)

\* A map implements a table of names: a name that gets a value is added at the
\* end if it is new, and its value alone changes; a clone has the names and the
\* values of its source.  It holds for maps of any size, arrays of any granule
\* and tables of any number of rows, as long as no clone is cloned again and
\* mapSet makes enough room.
THEOREM NamesKept == ASSUME ~Reclones PROVE MapSpec /\ []Roomy => ImplementsNames
<1> DEFINE V == [t \in Texts |-> ValueOf(t)]
<1>1. MapInit => WordsInv
  BY InitWords
<1>2. MapInit => Table!Init
  <2> SUFFICES ASSUME MapInit PROVE Table!Init
    OBVIOUS
  <2>1. /\ Segment(symbols) /\ symbols.by_index.size = 1 /\ Array(data)
        /\ Text(symbols, 0) = EmptyText
    BY InitWords, NewSegment DEF WordsInv, Segment, MapInit
  <2>2. NamesOf(symbols) = <<EmptyText>>
    <3>1. NamesOf(symbols) = [i \in 1 .. 1 |-> Text(symbols, i - 1)]
      BY <2>1, NamesAre
    <3> QED
      BY <2>1, <3>1
  <2>3. Names(symbols) = {}
    BY <2>1 DEF Names
  <2>4. \A t \in Texts : ValueOf(t) = NULL
    BY <2>1, <2>3, ValueIs DEF ValueOf, ValueIn
  <2> QED
    BY <2>2, <2>4 DEF Table!Init
<1>3. /\ \A t \in Texts : ValueOf(t) = ValueIn(symbols, data, t)
      /\ \A t \in Texts : ValueOf(t)' = ValueIn(symbols', data', t)
  BY DEF ValueOf, ValueIn
<1>4. ASSUME WordsInv, Roomy, [MapNext]_map
      PROVE  WordsInv' /\ [Table!Next]_<<NamesOf(symbols), V>>
  <2>1. CASE MapSet \/ EnvAdd \/ EnvSet
    <3>1. WordsInv'
      BY <1>4, <2>1, WordsStay
    <3>2. PICK t \in Texts, v \in Values, i \in Nat :
            WrittenTo(symbols, data, symbols', data', i, t, v)
      BY <1>4, <2>1, WordsStay
    <3>3. /\ Segment(symbols) /\ Segment(symbols') /\ Array(data)
          /\ \A k \in Names(symbols) :
                2 * k + 1 < data.reserved /\ data.data[2 * k] = data.data[2 * k + 1]
          /\ \A k \in Names(symbols') :
                2 * k + 1 < data'.reserved /\ data'.data[2 * k] = data'.data[2 * k + 1]
      BY <1>4, <3>1 DEF WordsInv
    <3>4. NamesOf(symbols') = IF Table!Contains(NamesOf(symbols), t) THEN NamesOf(symbols)
                              ELSE Append(NamesOf(symbols), t)
      BY <3>2, <3>3, PutNames
    <3>5. \A u \in Texts : ValueOf(u)' = IF u = t THEN v ELSE ValueOf(u)
      <4>1. \A u \in Texts :
               ValueIn(symbols', data', u) = IF u = t THEN v ELSE ValueIn(symbols, data, u)
        BY <3>2, <3>3, PutValues
      <4> QED
        BY <1>3, <4>1
    <3>6. V' = [V EXCEPT ![t] = v]
      BY <3>5
    <3>7. NamesOf(symbols)' = NamesOf(symbols')
      BY DEF NamesOf
    <3>8. Table!Put(t, v)
      BY <3>4, <3>6, <3>7 DEF Table!Put
    <3> QED
      BY <3>1, <3>8 DEF Table!Next
  <2>2. CASE Clone
    <3>1. ~cloned
      BY <2>2 DEF Clone
    <3>2. WordsInv' /\ NamesOf(symbols') = NamesOf(symbols)
          /\ \A t \in Texts : ValueIn(symbols', data', t) = ValueIn(symbols, data, t)
      BY <1>4, <2>2, <3>1, CloneKeeps
    <3>3. \A t \in Texts : ValueOf(t)' = ValueOf(t)
      BY <1>3, <3>2
    <3>4. V' = V /\ NamesOf(symbols)' = NamesOf(symbols)
      BY <3>2, <3>3
    <3> QED
      BY <3>2, <3>4
  <2>3. CASE UNCHANGED map
    <3>1. WordsInv'
      BY <1>4, <2>3 DEF map, WordsInv
    <3>2. \A t \in Texts : ValueOf(t)' = ValueOf(t)
      BY <2>3 DEF map, ValueOf
    <3>3. V' = V /\ NamesOf(symbols)' = NamesOf(symbols)
      BY <2>3, <3>2 DEF map
    <3> QED
      BY <3>1, <3>3
  <2> QED
    BY <1>4, <2>1, <2>2, <2>3 DEF MapNext
<1> QED
  BY <1>1, <1>2, <1>4, PTL DEF MapSpec, ImplementsNames, Table!Spec
===============================================================================
