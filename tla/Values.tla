-------------------------------- MODULE Values --------------------------------
(***************************************************************************)
(* What an expression is compiled to: the codegen methods of the literals,  *)
(* UnOpAst and BinOpAst in src/src/codegen.cpp, as the value the            *)
(* instructions compute.  An integer has BITS bits, two's complement; a     *)
(* comparison gives one bit.  "none" is a null llvm::Value, after which     *)
(* nothing of the expression is generated; "invalid" is an instruction on   *)
(* operands of two types; "undefined" is a result the language of LLVM or   *)
(* C++ leaves open.                                                         *)
(***************************************************************************)
EXTENDS Integers, Sequences, Grammar

CONSTANT BITS   \* the width of an integer; the code's is 32

ASSUME ValuesAssumption == BITS \in Nat /\ BITS > 1

Answer(type, n) == [type |-> type, n |-> n]
None == Answer("none", 0)
Invalid == Answer("invalid", 0)
Undefined == Answer("undefined", 0)
NoInteger == {"none", "invalid", "undefined", "double", "ptr"}

\* An integer of a type is kept as its residue; Signed reads it with a sign.
Modulus(type) == IF type = "i1" THEN 2 ELSE 2 ^ BITS
Residue(type, n) == Answer(type, n % Modulus(type))
\* slip: nothing has a sign
SignedNever(v) == v.n
Signed(v) == IF v.n < Modulus(v.type) \div 2 THEN v.n ELSE v.n - Modulus(v.type)
Bit(b) == Answer("i1", IF b THEN 1 ELSE 0)

\* SDiv: the quotient goes towards zero
Quotient(a, b) ==
    LET q == (IF a < 0 THEN - a ELSE a) \div (IF b < 0 THEN - b ELSE b)
    IN IF (a < 0) = (b < 0) THEN q ELSE - q

Divide(l, r) ==
    IF r.n = 0 \/ (Signed(r) = -1 /\ Signed(l) = - (Modulus(l.type) \div 2)) THEN Undefined
    ELSE Residue(l.type, Quotient(Signed(l), Signed(r)))

\* Shl and AShr: there must be as many bits as the distance
Shifted(l, r, shifted) == IF 2 ^ r.n >= Modulus(l.type) THEN Undefined ELSE Residue(l.type, shifted)

\* Or and Xor work on every bit
BitOf(n, k) == (n \div 2 ^ k) % 2
OnBits(op, a, b) == IF op = "||" /\ a + b > 0 THEN 1 ELSE (a + b) % 2
EachBit(op, l, r) ==
    LET from[k \in 0..BITS] ==
          IF k = BITS THEN 0 ELSE 2 ^ k * OnBits(op, BitOf(l.n, k), BitOf(r.n, k)) + from[k + 1]
    IN Residue(l.type, from[0])

\* BinOpAst::codegen on integers of one type.  < is the one comparison that
\* reads them without a sign; what the parser names && the generator knows only
\* as & (or as the Chinese word), and it knows neither % nor =.
OnIntegers(op, l, r) ==
    CASE op = "+" -> Residue(l.type, l.n + r.n)
      [] op = "-" -> Residue(l.type, l.n - r.n)
      [] op = "*" -> Residue(l.type, l.n * r.n)
      [] op = "/" -> Divide(l, r)
      [] op \in {"||", "^"} -> EachBit(op, l, r)
      [] op = "<<" -> Shifted(l, r, l.n * 2 ^ r.n)
      [] op = ">>" -> Shifted(l, r, Signed(l) \div 2 ^ r.n)
      [] op = "<" -> Bit(l.n < r.n)
      [] op = "<=" -> Bit(Signed(l) <= Signed(r))
      [] op = ">=" -> Bit(Signed(l) >= Signed(r))
      [] op = ">" -> Bit(Signed(l) > Signed(r))
      [] op = "==" -> Bit(l.n = r.n)
      [] op = "!=" -> Bit(l.n # r.n)

NoOperator(op) == op \in {"%", "&&", "="}

BinOp(op, l, r) ==
    IF None \in {l, r} \/ NoOperator(op) THEN None
    ELSE IF Invalid \in {l, r} THEN Invalid
    ELSE IF Undefined \in {l, r} THEN Undefined
    ELSE IF l.type # r.type THEN Invalid
    ELSE IF l.type \notin NoInteger THEN OnIntegers(op, l, r)
    ELSE IF l.type = "double" /\ op \in {"+", "-", "*", "/"} THEN l
    ELSE IF l.type = "ptr" /\ op \in {"<", "<=", ">=", ">", "==", "!="} THEN Undefined
    ELSE Invalid

\* UnOpAst::codegen: a minus subtracts from an integer zero, and what ! gives is
\* left open, the method ends without a return.
UnOp(op, e) ==
    IF e \in {None, Invalid, Undefined} THEN e
    ELSE CASE op = "+" -> e
           [] op = "-" -> IF e.type = "i32" THEN Residue("i32", 0 - e.n) ELSE Invalid
           [] OTHER -> Undefined

\* What an expression without names and calls is worth; a number is what atol
\* makes of its text, cut to the width.
RECURSIVE Worth(_, _)
Worth(e, atol) ==
    CASE e.kind = "int" -> Residue("i32", atol[e.text])
      [] e.kind = "float" -> Answer("double", 0)
      [] e.kind = "string" -> Answer("ptr", 0)
      [] e.kind = "un" -> UnOp(e.text, Worth(e.children[1], atol))
      [] e.kind = "bin" -> BinOp(e.text, Worth(e.children[1], atol), Worth(e.children[2], atol))
      [] OTHER -> None
=============================================================================
