------------------------------- MODULE Codec -------------------------------
(***************************************************************************)
(* altair-base32 and altair-temporal's workflow_id: Crockford texts of     *)
(* bytes, of words (u64) and of bytes with a check symbol, and the         *)
(* workflow ids built from them.                                           *)
(*                                                                         *)
(* The widths are parameters: the code has 5-bit symbols, 8-bit bytes,     *)
(* 64-bit words in 13 symbols and a check modulo 37.  A character is a     *)
(* member of Chars: a symbol of the alphabet, one of the letters read as 0 *)
(* or 1, the hyphen, a check-only symbol, or one outside all of these.     *)
(* The lower case of a letter is one more letter read as that symbol.      *)
(***************************************************************************)
EXTENDS Integers, SequencesExt

CONSTANTS
  SymbolBits, ByteBits, WordBits,
  Alphabet,       \* the symbols by value
  CheckOnly,      \* the symbols of the check alphabet after those, by value
  MaxWorkflowIdLen,
  MaxText, MaxData  \* bounds: length of the texts and of the byte strings

\* What digits write in a base, and its powers: what a 1 and n zeros write.
Number(digits, base) == FoldLeft(LAMBDA acc, d : acc * base + d, 0, digits)
Power(base, n) == Number([k \in 1 .. n + 1 |-> IF k = 1 THEN 1 ELSE 0], base)

Base      == Power(2, SymbolBits)
ByteBase  == Power(2, ByteBits)
WordLimit == Power(2, WordBits)
Bytes == 0 .. ByteBase - 1

Alias == [o |-> Alphabet[1], l |-> Alphabet[2]]  \* O and o, I, i, L and l
CheckAlphabet == Alphabet \o CheckOnly
Chars == ToSet(CheckAlphabet) \union DOMAIN Alias \union {"-", "?"}
CheckBase == Len(CheckAlphabet)

\* A byte has at least as many bits as a symbol, the check is modulo an odd
\* number, no smaller than the base, and each symbol is one of its own.
ASSUME CodecAssumption ==
  /\ SymbolBits \in Nat \ {0} /\ ByteBits \in Nat /\ WordBits \in Nat
  /\ SymbolBits <= ByteBits
  /\ Alphabet \in Seq(STRING) /\ Len(Alphabet) = Base
  /\ CheckOnly \in Seq(STRING) /\ CheckBase % 2 = 1
  /\ IsInjective(CheckAlphabet)
  /\ ToSet(CheckAlphabet) \intersect {"o", "l", "-"} = {}

CeilDiv(a, b) == (a + b - 1) \div b
WordLen == CeilDiv(WordBits, SymbolBits)

Invalid  == [error |-> "InvalidChar"]
Overflow == [error |-> "Overflow"]
IsOk(answer) == DOMAIN answer = {"ok"}
Ok(value) == [ok |-> value]

VARIABLES text, data  \* the string to decode, the bytes to encode

codecVars == <<text, data>>

-----------------------------------------------------------------------------
(* Symbols and numbers *)

SymbolValue(c) == (CHOOSE k \in 1 .. CheckBase : CheckAlphabet[k] = c) - 1

Digits(n, base, len) == [k \in 1 .. len |-> (n \div Power(base, len - k)) % base]

\* bytes::normalize: hyphens go, I, L and O are digits, the rest is checked.
Normalized(s) ==
  LET shown == FlattenSeq([k \in DOMAIN s |-> IF s[k] = "-" THEN <<>> ELSE <<s[k]>>])
  IN  IF \A k \in DOMAIN shown : shown[k] \in ToSet(Alphabet) \union DOMAIN Alias
      THEN Ok([k \in DOMAIN shown |->
                 SymbolValue(IF shown[k] \in DOMAIN Alias THEN Alias[shown[k]]
                             ELSE shown[k])])
      ELSE Invalid

-----------------------------------------------------------------------------
(* u64 *)

EncodeWord(n) == [k \in 1 .. WordLen |-> Alphabet[Digits(n, Base, WordLen)[k] + 1]]

\* Mutant of Accumulate: the addition is not checked.
Wrapping(acc, value) == Ok((acc.ok * Base + value) % WordLimit)

\* checked_mul, checked_add
Accumulate(acc, value) ==
  IF acc.ok * Base + value < WordLimit THEN Ok(acc.ok * Base + value) ELSE Overflow

\* Symbols to the left of the WordLen last have to be zeros.
DecodeWord(s) ==
  LET symbols == Normalized(s)
      n == Len(symbols.ok)
      Symbol(acc, k) ==
        IF ~IsOk(acc) THEN acc
        ELSE IF n - (k - 1) > WordLen
             THEN IF symbols.ok[k] # 0 THEN Overflow ELSE acc
             ELSE Accumulate(acc, symbols.ok[k])
  IN  IF IsOk(symbols) THEN FoldLeftDomain(Symbol, Ok(0), symbols.ok) ELSE symbols

-----------------------------------------------------------------------------
(* Bytes: the base32 crate pads the last symbol with zero bits, and drops  *)
(* the bits that fill no byte.                                             *)

Encode(bytes) ==
  LET n == CeilDiv(Len(bytes) * ByteBits, SymbolBits)
      padded == Number(bytes, ByteBase) * Power(2, n * SymbolBits - Len(bytes) * ByteBits)
  IN  [k \in 1 .. n |-> Alphabet[Digits(padded, Base, n)[k] + 1]]

DecodeSymbols(symbols) ==
  LET bits == Len(symbols) * SymbolBits
  IN  Digits(Number(symbols, Base) \div Power(2, bits % ByteBits), ByteBase, bits \div ByteBits)

Decode(s) ==
  IF IsOk(Normalized(s)) THEN Ok(DecodeSymbols(Normalized(s).ok)) ELSE Invalid

-----------------------------------------------------------------------------
(* The check symbol *)

\* Horner's method over the bytes.
Checksum(bytes) ==
  FoldLeft(LAMBDA acc, b : (acc * ByteBase + b) % CheckBase, 0, bytes)

EncodeWithCheck(bytes) == Append(Encode(bytes), CheckAlphabet[Checksum(bytes) + 1])

\* The last character is the check symbol, taken as it is written.
DecodeWithCheck(s) ==
  IF s = <<>> THEN [error |-> "Empty"]
  ELSE IF Last(s) \notin ToSet(CheckAlphabet) \/ ~IsOk(Decode(Front(s))) THEN Invalid
  ELSE IF Checksum(Decode(Front(s)).ok) = SymbolValue(Last(s)) THEN Decode(Front(s))
  ELSE [error |-> "CheckMismatch"]

-----------------------------------------------------------------------------
(* workflow_id: {prefix}-{base32} *)

EncodeId(prefix, bytes) ==
  LET id == prefix \o <<"-">> \o Encode(bytes)
  IN  IF Len(id) > MaxWorkflowIdLen THEN [error |-> "Configuration"] ELSE Ok(id)

\* rsplit_once('-')
DecodeId(id) ==
  LET k == SelectLastInSeq(id, LAMBDA c : c = "-")
      encoded == SubSeq(id, k + 1, Len(id))
  IN  IF k = 0 \/ encoded = <<>> \/ ~IsOk(Decode(encoded))
      THEN [error |-> "Configuration"]
      ELSE Ok(<<SubSeq(id, 1, k - 1), Decode(encoded).ok>>)

-----------------------------------------------------------------------------
(* Every text and every byte string up to the bounds *)

TypeChar == data = <<>> /\ Len(text) < MaxText /\ \E c \in Chars : text' = Append(text, c)
            /\ UNCHANGED data

AddByte == text = <<>> /\ Len(data) < MaxData /\ \E b \in Bytes : data' = Append(data, b)
           /\ UNCHANGED text

CodecStart == text = <<>> /\ data = <<>>

CodecNext == TypeChar \/ AddByte

-----------------------------------------------------------------------------
(* Properties *)

\* Words come back, in the order of their texts, and a text of any length
\* decodes exactly when the number it writes is a word.
WordsExact ==
  LET symbols == Normalized(text)
      value == Number(symbols.ok, Base)
      Below(s, t) == \E k \in 1 .. WordLen :
        /\ SymbolValue(s[k]) < SymbolValue(t[k])
        /\ \A j \in 1 .. k - 1 : s[j] = t[j]
  IN  /\ IsOk(DecodeWord(text)) <=> IsOk(symbols) /\ value < WordLimit
      /\ IsOk(DecodeWord(text)) => /\ DecodeWord(text).ok = value
                                   /\ DecodeWord(EncodeWord(value)) = Ok(value)
                                   /\ value > 0 => Below(EncodeWord(value - 1), EncodeWord(value))

\* Bytes come back from each of the three codecs, and a text with a check
\* symbol in which one symbol was mistyped as another one is refused, or still
\* means the same bytes.  This is less than "any single-character corruption
\* is detected" (README.md:52 of the crate): bits of the last symbol that fill
\* no byte are dropped unseen, so the text is accepted; a symbol mistyped as a
\* hyphen is dropped with all its bits, and other bytes may come out.
BytesExact ==
  LET checked == EncodeWithCheck(data)
  IN  /\ Decode(Encode(data)) = Ok(data)
      /\ DecodeWithCheck(checked) = Ok(data)
      /\ \A k \in 1 .. Len(checked), c \in ToSet(CheckAlphabet) :
           LET answer == DecodeWithCheck([checked EXCEPT ![k] = c])
           IN  IsOk(answer) => answer = Ok(data)
      /\ \A prefix \in {<<>>, <<"0">>, <<"1", "-">>} :
           LET id == EncodeId(prefix, data)
           IN  data # <<>> /\ IsOk(id) => DecodeId(id.ok) = Ok(<<prefix, data>>)

\* The codecs lose nothing and accept nothing that they would misread.
CodecExact == WordsExact /\ BytesExact
=============================================================================
