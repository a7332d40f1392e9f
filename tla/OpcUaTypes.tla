----------------------------- MODULE OpcUaTypes -----------------------------
(***************************************************************************)
(* opcua_common: the values of variables and their JSON.  A JSON value is  *)
(* [k, x]: a number, a number with a fraction, a decimal string, another   *)
(* string or a boolean (x is 0 or 1).                                      *)
(***************************************************************************)
EXTENDS Integers

\* Widths of the integer types; the 32- and 64-bit ones are cut to what TLC
\* can count to, which keeps every range distinct.
Width == [int16 |-> 16, uint16 |-> 16, int32 |-> 20, uint32 |-> 20, int64 |-> 24, uint64 |-> 24]

Signed == {"int16", "int32", "int64"}
Unsigned == {"uint16", "uint32", "uint64"}
Long == {"int64", "uint64"}
Reals == {"float", "double"}
Texts == {"string", "bytestring", "datetime"}

\* resolveBuiltinDataType
BuiltinTypes == {"bool"} \cup Signed \cup Unsigned \cup Reals \cup Texts

RangeOf(t) == IF t \in Signed THEN -(2^(Width[t] - 1))..(2^(Width[t] - 1) - 1) ELSE 0..(2^Width[t] - 1)

Accepted(x) == <<x>>
Rejected == <<>>

\* A decimal string in range.
parseIntegerString(t, v) == IF v.k = "decimal" /\ v.x \in RangeOf(t) THEN Accepted(v.x) ELSE Rejected

parseIntegerValue(t, v, strict) ==
    IF v.k = "number" THEN (IF v.x \in RangeOf(t) THEN Accepted(v.x) ELSE Rejected)
    ELSE IF strict THEN Rejected ELSE parseIntegerString(t, v)

parseUnsignedValue(t, v, strict) == parseIntegerValue(t, v, strict)

parseBoolValue(v, strict) ==
    IF v.k = "boolean" \/ (~strict /\ v.k \in {"number", "decimal"} /\ v.x \in {0, 1})
    THEN Accepted(v.x) ELSE Rejected

\* Halves stand for fractions.
parseDoubleValue(v, strict) ==
    CASE v.k = "number" -> Accepted(2 * v.x)
      [] v.k = "fraction" -> Accepted(2 * v.x + 1)
      [] v.k = "decimal" /\ ~strict -> Accepted(2 * v.x)
      [] OTHER -> Rejected

\* 64-bit integers are strings in JSON; a number is printed first if the
\* types need not agree.
LongFromJson(t, v, strict) ==
    IF v.k = "number" /\ ~strict THEN parseIntegerString(t, [v EXCEPT !.k = "decimal"])
    ELSE parseIntegerString(t, v)

\* string, bytestring, datetime: a decimal is neither a date nor refused as
\* base64; other text stands for text valid as any of them.
TextFromJson(t, v) ==
    IF v.k = "text" \/ (v.k = "decimal" /\ t # "datetime") THEN Accepted(v.x) ELSE Rejected

\* The value a variable of type t gets, or none.
jsonToVariant(t, v, strict) ==
    CASE t = "bool" -> parseBoolValue(v, strict)
      [] t \in Long -> LongFromJson(t, v, strict)
      [] t \in Signed \ Long -> parseIntegerValue(t, v, strict)
      [] t \in Unsigned \ Long -> parseUnsignedValue(t, v, strict)
      [] t \in Reals -> parseDoubleValue(v, strict)
      [] t \in Texts -> TextFromJson(t, v)
      [] OTHER -> Rejected

\* scalarToJson
variantToJson(t, x) ==
    CASE t = "bool" -> [k |-> "boolean", x |-> x]
      [] t \in Long -> [k |-> "decimal", x |-> x]
      [] t \in (Signed \cup Unsigned) \ Long -> [k |-> "number", x |-> x]
      [] t \in Reals -> IF x % 2 = 0 THEN [k |-> "number", x |-> x \div 2] ELSE [k |-> "fraction", x |-> x \div 2]
      [] OTHER -> [k |-> "text", x |-> x]

-----------------------------------------------------------------------------
(* Nodes as the host describes them *)

Root == "i=85"

\* A NodeSpec; val is the initial value, if there is one.  Folders have neither
\* type nor access.
NodeSpec(id, parent, class, type, access, val) ==
    [id |-> id, parent |-> parent, class |-> class, type |-> type, access |-> access, val |-> val]
Folder(id, parent) == NodeSpec(id, parent, "folder", "none", "none", <<>>)

Number(x) == [k |-> "number", x |-> x]

\* Nodes that differ in all a command looks at: v may be a folder or a variable,
\* w is below a variable, 2^15 is no int16.
SampleSpecs ==
    {Folder("f", Root), Folder("v", Root)}
      \cup {NodeSpec("v", "f", "variable", "int16", x[1], x[2]) :
              x \in {<<"read_only", <<>>>>, <<"read_only", <<Number(2^15)>>>>,
                     <<"read_write", <<Number(1)>>>>, <<"read_write", <<Number(2^15)>>>>}}
      \cup {NodeSpec("v", "f", "variable", "uint64", "read_write", <<Number(1)>>),
            NodeSpec("w", "v", "variable", "int16", "read_write", <<Number(1)>>)}
=============================================================================
