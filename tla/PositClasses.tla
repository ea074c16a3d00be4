----------------------------- MODULE PositClasses -----------------------------
(***************************************************************************)
(* The arithmetic members of the classes posit8, posit16, posit32 and      *)
(* posit_2 of softposit_cpp.h, and of the C type posit_1_t, which has no   *)
(* class.  An object is a record of its type, its precision and its word.  *)
(***************************************************************************)
EXTENDS SoftPosit

Object(type, x, value) == [type |-> type, x |-> x, value |-> value]

Format(o) ==
    CASE o.type = "posit8"  -> P8
      [] o.type = "posit16" -> P16
      [] o.type = "posit32" -> P32
      [] o.type = "posit_1" -> PX1(o.x)
      [] o.type = "posit_2" -> PX2(o.x)

\* The words of a type: those of precision x end with zeros.
Values(F) == {u * Ulp(F) : u \in 0 .. 2^F.x - 1}

One(F) == 2^(F.n - 2)

posit8_arith(op, v, a) ==
    CASE op = "add" -> p8_add(v, a) [] op = "sub" -> p8_sub(v, a)
      [] op = "mul" -> p8_mul(v, a) [] op = "div" -> p8_div(v, a)
posit8_compare(v, a) ==
    [lt |-> p8_lt(v, a), le |-> p8_le(v, a), eq |-> p8_eq(v, a),
     ne |-> ~ p8_eq(v, a), gt |-> p8_lt(a, v), ge |-> p8_le(a, v)]
posit8_step(op, v) ==
    CASE op = "inc" -> p8_add(v, One(P8)) [] op = "dec" -> p8_sub(v, One(P8))
posit8_fma(v, a, b) == p8_mulAdd(a, b, v)

posit16_arith(op, v, a) ==
    CASE op = "add" -> p16_add(v, a) [] op = "sub" -> p16_sub(v, a)
      [] op = "mul" -> p16_mul(v, a) [] op = "div" -> p16_div(v, a)
posit16_compare(v, a) ==
    [lt |-> p16_lt(v, a), le |-> p16_le(v, a), eq |-> p16_eq(v, a),
     ne |-> ~ p16_eq(v, a), gt |-> p16_lt(a, v), ge |-> p16_le(a, v)]
posit16_step(op, v) ==
    CASE op = "inc" -> p16_add(v, One(P16)) [] op = "dec" -> p16_sub(v, One(P16))
posit16_fma(v, a, b) == p16_mulAdd(a, b, v)

posit32_arith(op, v, a) ==
    CASE op = "add" -> p32_add(v, a) [] op = "sub" -> p32_sub(v, a)
      [] op = "mul" -> p32_mul(v, a) [] op = "div" -> p32_div(v, a)
posit32_compare(v, a) ==
    [lt |-> p32_lt(v, a), le |-> p32_le(v, a), eq |-> p32_eq(v, a),
     ne |-> ~ p32_eq(v, a), gt |-> p32_lt(a, v), ge |-> p32_le(a, v)]
posit32_step(op, v) ==
    CASE op = "inc" -> p32_add(v, One(P32)) [] op = "dec" -> p32_sub(v, One(P32))
posit32_fma(v, a, b) == p32_mulAdd(a, b, v)

posit_1_arith(op, v, a, x) ==
    CASE op = "add" -> pX1_add(v, a, x) [] op = "sub" -> pX1_sub(v, a, x)
      [] op = "mul" -> pX1_mul(v, a, x) [] op = "div" -> pX1_div(v, a, x)

posit_2_arith(op, v, a, x) ==
    CASE op = "add" -> pX2_add(v, a, x) [] op = "sub" -> pX2_sub(v, a, x)
      [] op = "mul" -> pX2_mul(v, a, x) [] op = "div" -> pX2_div(v, a, x)
posit_2_compare(v, a) ==
    [lt |-> pX2_lt(v, a), le |-> pX2_le(v, a), eq |-> pX2_eq(v, a),
     ne |-> ~ pX2_eq(v, a), gt |-> pX2_lt(a, v), ge |-> pX2_le(a, v)]
posit_2_step(op, v, x) ==
    CASE op = "inc" -> pX2_add(v, One(P32), x) [] op = "dec" -> pX2_sub(v, One(P32), x)
posit_2_fma(v, a, b, x) == pX2_mulAdd(a, b, v, x)

Arith(op, o, a) ==
    CASE o.type = "posit8"  -> posit8_arith(op, o.value, a)
      [] o.type = "posit16" -> posit16_arith(op, o.value, a)
      [] o.type = "posit32" -> posit32_arith(op, o.value, a)
      [] o.type = "posit_1" -> posit_1_arith(op, o.value, a, o.x)
      [] o.type = "posit_2" -> posit_2_arith(op, o.value, a, o.x)

Comparison(o, a) ==
    CASE o.type = "posit8"  -> posit8_compare(o.value, a)
      [] o.type = "posit16" -> posit16_compare(o.value, a)
      [] o.type = "posit32" -> posit32_compare(o.value, a)
      [] o.type = "posit_2" -> posit_2_compare(o.value, a)

Step(op, o) ==
    CASE o.type = "posit8"  -> posit8_step(op, o.value)
      [] o.type = "posit16" -> posit16_step(op, o.value)
      [] o.type = "posit32" -> posit32_step(op, o.value)
      [] o.type = "posit_2" -> posit_2_step(op, o.value, o.x)

Fma(o, a, b) ==
    CASE o.type = "posit8"  -> posit8_fma(o.value, a, b)
      [] o.type = "posit16" -> posit16_fma(o.value, a, b)
      [] o.type = "posit32" -> posit32_fma(o.value, a, b)
      [] o.type = "posit_1" -> pX1_mulAdd(a, b, o.value, o.x)
      [] o.type = "posit_2" -> posit_2_fma(o.value, a, b, o.x)
===============================================================================
