----------------------------- MODULE GenericStack -----------------------------
(***************************************************************************)
(* The stacks of src/containers/generic_stack.c: of data, calls, closures, *)
(* catch blocs and locals of a thread, of the threads that a blocker keeps *)
(* and of compilations.  A token takes token_size cells of memory.  sz     *)
(* counts tokens, but is compared with tok_sp, which counts cells: the     *)
(* stack grows too early, never too late.                                  *)
(*                                                                         *)
(* An empty stack has sp = (word_t)-1, written -1 here.                    *)
(***************************************************************************)
EXTENDS Integers, Sequences

CONSTANTS
  Tokens,      \* what is pushed
  Zero,        \* the content of a cell that memset wrote
  Junk,        \* the content of a cell that nobody wrote
  TokenSize,   \* cells of a token
  PushStep,    \* 1024: the tokens that a push allocates at once
  GrowStep,    \* 16384: the tokens that gstack_grow allocates at once
  MaxTokens    \* bound on the tokens of the stack, and on its memory

\* token_size < 1024 is asserted by gstack_init.
ASSUME SizesAssumption ==
  /\ TokenSize \in Nat \ {0}
  /\ PushStep \in Nat \ {0}
  /\ GrowStep \in Nat \ {0}
  /\ MaxTokens \in Nat
  /\ Junk \notin Tokens \cup {Zero}

VARIABLES
  sp,      \* the number of the top token
  tok_sp,  \* its first cell
  sz,      \* tokens that are allocated
  stack,   \* the memory
  seen     \* history: the tokens that the last pop, peek or end gave

vars == <<sp, tok_sp, sz, stack, seen>>

Cells(n) == 0 .. n * TokenSize - 1

\* Memory of n tokens after a realloc.
Realloc(n) == [c \in Cells(n) |-> IF c \in DOMAIN stack THEN stack[c] ELSE Junk]

\* Memory m with zeroes from cell a to cell b - 1.
Cleared(m, a, b) == [c \in DOMAIN m |-> IF a <= c /\ c < b THEN Zero ELSE m[c]]

\* Memory m with a token at cell a.
Written(m, a, w) == [c \in DOMAIN m |-> IF a <= c /\ c < a + TokenSize THEN w ELSE m[c]]

\* The token at cell a; Junk if its cells are not of one token.
TokenAt(a) ==
  IF a \in DOMAIN stack /\ \A c \in a .. a + TokenSize - 1 : c \in DOMAIN stack /\ stack[c] = stack[a]
  THEN stack[a] ELSE Junk

Init ==
  /\ sp = -1
  /\ tok_sp = -TokenSize
  /\ sz = 0
  /\ stack = [c \in {} |-> Zero]
  /\ seen = <<>>

\* Mutant: full is when there are more tokens than allocated.
FullLate(cell) == cell < 0 \/ sz < cell

\* sz <= tok_sp, compared as words: the cell below an empty stack is the
\* largest of all.
Full(cell) == cell < 0 \/ sz <= cell

gpush(w) ==
  LET cell == tok_sp + TokenSize
      grown == sz + PushStep
  IN  /\ sp < MaxTokens - 1
      /\ sp' = sp + 1
      /\ tok_sp' = cell
      /\ IF Full(cell)
         THEN /\ sz' = grown
              /\ stack' = Written(Cleared(Realloc(grown), cell + TokenSize,
                                          cell + TokenSize + (grown - (sp + 1) - 1) * TokenSize),
                                  cell, w)
         ELSE sz' = sz /\ stack' = Written(stack, cell, w)
      /\ seen' = <<>>

\* Mutant: the cell is read when the top is gone.
PopBelow ==
  /\ sp # -1
  /\ seen' = <<TokenAt(tok_sp - TokenSize)>>
  /\ sp' = sp - 1
  /\ tok_sp' = tok_sp - TokenSize
  /\ UNCHANGED <<sz, stack>>

_gpop ==
  /\ sp # -1
  /\ seen' = <<TokenAt(tok_sp)>>
  /\ sp' = sp - 1
  /\ tok_sp' = tok_sp - TokenSize
  /\ UNCHANGED <<sz, stack>>

\* The assertion on count is what keeps one step of growth enough.  To grow an
\* empty stack by nothing allocates, again and again (bounded here).
gstack_grow ==
  \E count \in 0 .. GrowStep - 1 :
    LET cell == tok_sp + TokenSize * count
        grown == sz + GrowStep
    IN  /\ sp + count < MaxTokens
        /\ Full(cell) => sz < MaxTokens * TokenSize
        /\ sp' = sp + count
        /\ tok_sp' = cell
        /\ IF Full(cell)
           THEN sz' = grown /\ stack' = Cleared(Realloc(grown), sz * TokenSize, grown * TokenSize)
           ELSE UNCHANGED <<sz, stack>>
        /\ seen' = <<>>

gstack_shrink ==
  \E count \in 0 .. sp + 1 :
    /\ sp' = sp - count
    /\ tok_sp' = tok_sp - TokenSize * count
    /\ seen' = <<>>
    /\ UNCHANGED <<sz, stack>>

\* Compared as words: an empty stack lets every offset pass, and offsets above
\* the top abort on all others.  Callers look at stacks that hold a token.
_gpeek ==
  /\ sp # -1
  /\ \E rel_ofs \in -sp .. 0 : seen' = <<TokenAt(tok_sp + rel_ofs * TokenSize)>>
  /\ UNCHANGED <<sp, tok_sp, sz, stack>>

\* gstack_deinit hands every token to the callback, the top first.
gstack_deinit ==
  /\ seen' = [i \in 1 .. sp + 1 |-> TokenAt(tok_sp - (i - 1) * TokenSize)]
  /\ sp' = -1
  /\ tok_sp' = -TokenSize
  /\ sz' = 0
  /\ stack' = [c \in {} |-> Zero]

Next ==
  \/ \E w \in Tokens : gpush(w)
  \/ _gpop
  \/ gstack_grow
  \/ gstack_shrink
  \/ _gpeek
  \/ gstack_deinit

Spec == Init /\ [][Next]_vars

-------------------------------------------------------------------------------
TypeOK ==
  /\ sp \in Int /\ sp >= -1
  /\ tok_sp \in Int
  /\ sz \in Nat
  /\ stack \in [Cells(sz) -> Tokens \cup {Zero}]

\* Every token of the stack lies in the allocated memory, although the test
\* for growth compares tokens with cells and allocates one step at most.
StackInBounds ==
  sp # -1 => tok_sp >= 0 /\ tok_sp .. tok_sp + TokenSize - 1 \subseteq DOMAIN stack

\* The stack is one: tokens come back as they went in, however pushes and
\* reservations are mixed, and no reservation shows memory that nobody wrote.
Contents == [i \in 1 .. sp + 1 |-> TokenAt((i - 1) * TokenSize)]
Abstract == INSTANCE LifoStack WITH contents <- Contents
ImplementsStack == Abstract!Spec
===============================================================================
