----------------------------- MODULE MatrixCsv -----------------------------
(***************************************************************************)
(* The generator of the request files under examples/ (matrix_csv.c):       *)
(* create_csv() transposes two matrices and multiplies them in seventeen    *)
(* ways, and each of these functions writes every element it reads or       *)
(* writes to a file of its own.  One action per call, per iteration of an   *)
(* innermost loop and per return.                                           *)
(***************************************************************************)
EXTENDS Integers, Sequences

CONSTANTS
    MatrixSize,   \* n
    Operands,     \* the pairs <<A, B>> that init_matrix() may draw
    Garbage       \* what malloc() leaves in an array

VARIABLES
    heap,         \* the six arrays
    csv,          \* the files written so far, by their names
    next_method,  \* 0: before the loop over the methods; then its counter
    call,         \* the function that runs: a transposition by its file,
                  \* "method", or "none"
    counter,      \* of the function's loops
    local         \* its sum, rowA, colB, ...

generatorVars == <<heap, csv, next_method, call, counter, local>>

Area == MatrixSize * MatrixSize
Matrix == [0 .. Area - 1 -> Nat]
ASSUME MatrixAssumption ==
    MatrixSize \in Nat \ {0} /\ Operands \subseteq Matrix \X Matrix

Position == 0 .. MatrixSize - 1
At(row, column) == row * MatrixSize + column

(* The arrays in the order of their allocation, one after the other: the    *)
(* 32 bits of an address that a row keeps are enough to tell them apart.    *)
Arrays == <<"a", "b", "result", "result_transposed",
            "a_transposed", "b_transposed">>
ArrayName == {Arrays[p] : p \in DOMAIN Arrays}
AddressOf(array, index) ==
    index + Area * ((CHOOSE p \in DOMAIN Arrays : Arrays[p] = array) - 1)

(* A method is the nesting of its loops, outermost first, and its form.     *)
Method(name, x, y, z, opt) == [name |-> name, loops |-> <<x, y, z>>, opt |-> opt]
Methods == <<
    Method("ijk", "i", "j", "k", 0), Method("ikj", "i", "k", "j", 0),
    Method("jik", "j", "i", "k", 0), Method("jki", "j", "k", "i", 0),
    Method("kij", "k", "i", "j", 0), Method("kji", "k", "j", "i", 0),
    Method("ijk_opt1", "i", "j", "k", 1), Method("ikj_opt1", "i", "k", "j", 1),
    Method("jik_opt1", "j", "i", "k", 1), Method("jki_opt1", "j", "k", "i", 1),
    Method("kij_opt1", "k", "i", "j", 1), Method("kji_opt1", "k", "j", "i", 1),
    Method("ijk_opt2", "i", "j", "k", 2), Method("jik_opt2", "j", "i", "k", 2),
    Method("jki_opt2", "j", "k", "i", 2), Method("kij_opt2", "k", "i", "j", 2),
    Method("kji_opt2", "k", "j", "i", 2)>>
method == Methods[next_method]

(* The operands that the functions of the second optimised form index with  *)
(* row and column exchanged.                                                *)
IndexedTransposed(m) ==
    CASE m.name = "ijk_opt2" -> {"b"}
      [] m.name = "jik_opt2" -> {"b", "result"}
      [] m.name = "jki_opt2" -> {"a", "b", "result"}
      [] m.name = "kij_opt2" -> {"a"}
      [] m.name = "kji_opt2" -> {"a", "result"}
      [] OTHER -> {}

(* The arrays that create_csv() passes for the operands.                    *)
PassedTransposed(m) ==
    CASE m.name = "ijk_opt2" -> {"b"}
      [] m.name = "jik_opt2" -> {"b", "result"}
      [] m.name = "jki_opt2" -> {"a", "b", "result"}
      [] m.name = "kij_opt2" -> {"a"}
      [] m.name = "kji_opt2" -> {"a", "result"}
      [] OTHER -> {}

TransposedName(operand) ==
    CASE operand = "a" -> "a_transposed" [] operand = "b" -> "b_transposed"
      [] operand = "result" -> "result_transposed"

ElementOf(m, operand, row, column) ==
    [array |-> IF operand \in PassedTransposed(m) THEN TransposedName(operand)
                                                  ELSE operand,
     index |-> IF operand \in IndexedTransposed(m) THEN At(column, row)
                                                   ELSE At(row, column)]

-----------------------------------------------------------------------------
(* What a function does: it reads and stores elements of the heap, and each *)
(* access is a row of its file.                                             *)

ValueOf(e) == heap[e.array][e.index]
LoadRow(e) == [we |-> FALSE, data |-> 0, addr |-> AddressOf(e.array, e.index)]
StoreRow(e, value) ==
    [we |-> TRUE, data |-> value, addr |-> AddressOf(e.array, e.index)]
StoreValue(e, value) == heap' = [heap EXCEPT ![e.array][e.index] = value]

FileName == IF call = "method" THEN method.name ELSE call
WriteRows(rows) == csv' = [csv EXCEPT ![FileName] = @ \o rows]

(* fopen(..., "w+") empties the file.                                       *)
Enter(function, name) ==
    /\ call' = function
    /\ counter' = [v \in {"i", "j", "k"} |-> 0]
    /\ csv' = [f \in DOMAIN csv \cup {name} |-> IF f = name THEN <<>> ELSE csv[f]]

(* Nested loops from 0 to n: the innermost one that is not at its end goes  *)
(* on, and those inside it start again.                                     *)
Advance(loops) ==
    LET goes == CHOOSE d \in DOMAIN loops :
                  /\ d = 1 \/ counter[loops[d]] + 1 < MatrixSize
                  /\ \A e \in DOMAIN loops :
                        e > d => counter[loops[e]] + 1 = MatrixSize
    IN counter' = [v \in DOMAIN counter |->
                     IF v = loops[goes] THEN counter[v] + 1
                     ELSE IF \E e \in DOMAIN loops : e > goes /\ v = loops[e]
                          THEN 0 ELSE counter[v]]
LoopsEnded(loops) == counter[loops[1]] = MatrixSize

(* transpose_matrix(): the arrays of the call whose file is given.          *)
Untransposed == CASE call = "a" -> "a" [] call = "b" -> "b"
                  [] call = "c" -> "result_transposed"
Transposed == CASE call = "a" -> "a_transposed" [] call = "b" -> "b_transposed"
                [] call = "c" -> "result"

(* A mistake: the copy keeps rows and columns.                              *)
CopyElement ==
    LET e == [array |-> Untransposed, index |-> At(counter["i"], counter["j"])]
        t == [array |-> Transposed, index |-> At(counter["i"], counter["j"])]
    IN /\ WriteRows(<<LoadRow(e), StoreRow(t, ValueOf(e))>>)
       /\ StoreValue(t, ValueOf(e))

TransposeElement ==
    LET e == [array |-> Untransposed, index |-> At(counter["i"], counter["j"])]
        t == [array |-> Transposed, index |-> At(counter["j"], counter["i"])]
    IN /\ WriteRows(<<LoadRow(e), StoreRow(t, ValueOf(e))>>)
       /\ StoreValue(t, ValueOf(e))

transpose_matrix ==
    /\ call \in {"a", "b", "c"} /\ ~LoopsEnded(<<"i", "j">>)
    /\ TransposeElement
    /\ Advance(<<"i", "j">>)
    /\ UNCHANGED <<next_method, call, local>>

(* The bodies of the innermost loops: A[i][k] * B[k][j] goes to C[i][j].     *)
(* The element that does not depend on the innermost loop is the one the     *)
(* optimised forms keep in a local variable.                                 *)
StandardBody(a, b, c) ==
    LET sum == ValueOf(c) + ValueOf(a) * ValueOf(b)
    IN /\ WriteRows(<<LoadRow(a), LoadRow(b), LoadRow(c), StoreRow(c, sum)>>)
       /\ StoreValue(c, sum)
       /\ UNCHANGED local

(* float sum = 0, before the loop; result = sum, after it.                   *)
SumBody(a, b, c, first, last) ==
    /\ local' = (IF first THEN 0 ELSE local) + ValueOf(a) * ValueOf(b)
    /\ IF last
       THEN /\ WriteRows(<<LoadRow(a), LoadRow(b), StoreRow(c, local')>>)
            /\ StoreValue(c, local')
       ELSE WriteRows(<<LoadRow(a), LoadRow(b)>>) /\ UNCHANGED heap

(* A mistake: the kept element is read again for every product.             *)
HoistedBodyRereads(kept, other, c, first) ==
    LET sum == ValueOf(c) + ValueOf(kept) * ValueOf(other)
    IN /\ local' = ValueOf(kept)
       /\ WriteRows(<<LoadRow(kept), LoadRow(other), LoadRow(c), StoreRow(c, sum)>>)
       /\ StoreValue(c, sum)

HoistedBody(kept, other, c, first) ==
    LET factor == IF first THEN ValueOf(kept) ELSE local
        sum == ValueOf(c) + factor * ValueOf(other)
    IN /\ local' = factor
       /\ WriteRows((IF first THEN <<LoadRow(kept)>> ELSE <<>>)
                   \o <<LoadRow(other), LoadRow(c), StoreRow(c, sum)>>)
       /\ StoreValue(c, sum)

matrix_multiplication ==
    /\ call = "method" /\ ~LoopsEnded(method.loops)
    /\ LET i == counter["i"]  j == counter["j"]  k == counter["k"]
           a == ElementOf(method, "a", i, k)
           b == ElementOf(method, "b", k, j)
           c == ElementOf(method, "result", i, j)
           innermost == method.loops[3]
           first == counter[innermost] = 0
           last == counter[innermost] = MatrixSize - 1
       IN \/ method.opt = 0 /\ StandardBody(a, b, c)
          \/ method.opt # 0 /\ innermost = "k" /\ SumBody(a, b, c, first, last)
          \/ method.opt # 0 /\ innermost = "j" /\ HoistedBody(a, b, c, first)
          \/ method.opt # 0 /\ innermost = "i" /\ HoistedBody(b, a, c, first)
    /\ Advance(method.loops)
    /\ UNCHANGED <<next_method, call>>

-----------------------------------------------------------------------------
(* create_csv()                                                             *)

(* init_matrix() fills the operands.                                        *)
GeneratorInit ==
    /\ \E operands \in Operands :
          heap = [x \in ArrayName |->
                    CASE x = "a" -> operands[1]
                      [] x = "b" -> operands[2]
                      [] OTHER -> [e \in 0 .. Area - 1 |-> Garbage]]
    /\ csv = [f \in {} |-> <<>>]
    /\ next_method = 0
    /\ call = "none" /\ counter = [v \in {"i", "j", "k"} |-> 0] /\ local = 0

TransposeOperands ==
    /\ \/ call = "none" /\ next_method = 0 /\ Enter("a", "a")
       \/ call = "a" /\ LoopsEnded(<<"i", "j">>) /\ Enter("b", "b")
    /\ UNCHANGED <<heap, next_method, local>>

(* The loop over the methods goes on.                                       *)
NextMethod ==
    /\ \/ call \in {"b", "c"} /\ LoopsEnded(<<"i", "j">>)
       \/ /\ call = "method" /\ LoopsEnded(method.loops)
          /\ "result" \notin PassedTransposed(method)
    /\ call' = "none" /\ next_method' = next_method + 1
    /\ UNCHANGED <<heap, csv, counter, local>>

reset_matrix(h, matrix) ==
    [h EXCEPT ![matrix] = [e \in 0 .. Area - 1 |-> 0]]

(* A mistake: the result of the last method is still there.                 *)
RunMethodUnreset ==
    /\ call = "none" /\ next_method \in DOMAIN Methods
    /\ Enter("method", method.name)
    /\ UNCHANGED <<heap, next_method, local>>

RunMethod ==
    /\ call = "none" /\ next_method \in DOMAIN Methods
    /\ heap' = reset_matrix(reset_matrix(heap, "result"), "result_transposed")
    /\ Enter("method", method.name)
    /\ UNCHANGED <<next_method, local>>

TransposeResult ==
    /\ call = "method" /\ LoopsEnded(method.loops)
    /\ "result" \in PassedTransposed(method)
    /\ Enter("c", "c")
    /\ UNCHANGED <<heap, next_method, local>>

Generate ==
    \/ TransposeOperands \/ RunMethod \/ TransposeResult \/ NextMethod
    \/ transpose_matrix \/ matrix_multiplication

Generated == call = "none" /\ next_method > Len(Methods)

GeneratorSpec == GeneratorInit /\ [][Generate]_generatorVars

-----------------------------------------------------------------------------
(* The sums of the first products of row i of a and column j of b; all n of *)
(* them are the element of the product.                                     *)
SumsOf(a, b, i, j) ==
    LET sum[k \in 0 .. MatrixSize] ==
            IF k = 0 THEN 0
            ELSE sum[k - 1] + a[At(i, k - 1)] * b[At(k - 1, j)]
    IN sum
Product(a, b, i, j) == SumsOf(a, b, i, j)[MatrixSize]

(* Every method leaves A * B in result, whatever the order of its loops, the *)
(* variable it keeps, the transposed arrays it is passed and the method that *)
(* ran before it left behind (test_correctness_matrix.c compares with one    *)
(* control matrix).                                                          *)
EveryMethodMultiplies ==
    call = "none" /\ next_method > 1 =>
        \A i, j \in Position :
            heap["result"][At(i, j)] = Product(heap["a"], heap["b"], i, j)

(* The number of rows of each file is the number of memory accesses that the *)
(* analysis of the repository gives for its method (MatrixMultiplication.md, *)
(* "Total Memory Access").                                                   *)
AccessesAsAnalysed ==
    \A p \in DOMAIN Methods :
        p < next_method =>
            LET n == MatrixSize
                m == Methods[p]
            IN Len(csv[m.name])
                 = CASE m.opt = 0 -> 4 * n * n * n
                     [] m.opt # 0 /\ m.loops[3] = "k" -> 2 * n * n * n + n * n
                     [] m.opt # 0 /\ m.loops[3] # "k" -> 3 * n * n * n + n * n
=============================================================================
