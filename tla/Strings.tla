-------------------------------- MODULE Strings -------------------------------
(* Strings: the String class of lib/libstd, the string functions of lib/libposix, and byte order. *)
EXTENDS Integers, SequencesExt, FiniteSetsExt, Sequences

(* lib/libstd/String.cpp and Character.h.  A text is a sequence of           *)
(* characters; the buffer is the text up to its terminating zero byte.       *)

CONSTANTS String_Text,     \* the texts that strings are made of
          DefaultSize,     \* STRING_DEFAULT_SIZE
          NumberSpace,     \* what << reserves for a number
          String_Numbers,  \* the numbers that are written and read back
          LongMax,         \* LONG_MAX, with LONG_MIN = -LongMax - 1
          MaxLength        \* bound: the length of a string

VARIABLE string

(* Character *)
isBlank(c) == c \in {" ", "\t"}
isWhitespace(c) == c \in {"\n", "\r", "\f"} \/ isBlank(c)
isWildcard(c) == c = "*"
Letters == {<<"A", "a">>, <<"B", "b">>}
lower(c) == IF \E l \in Letters : l[1] = c THEN (CHOOSE l \in Letters : l[1] = c)[2] ELSE c
upper(c) == IF \E l \in Letters : l[2] = c THEN (CHOOSE l \in Letters : l[2] = c)[1] ELSE c

(* String(const char *, copy): the buffer up to the zero byte, m_count,      *)
(* m_size and m_allocated.  text is the text the string stands for.          *)
New(t, copy) == [buffer |-> t, count |-> Len(t), size |-> IF Len(t) > 0 THEN Len(t) + 1 ELSE DefaultSize,
                 allocated |-> copy, text |-> t]
String_Init == \E t \in String_Text, copy \in BOOLEAN : string = New(t, copy)

(* MemoryBlock::copy(char *, char *, Size) copies at most size - 1           *)
(* characters and ends them with a zero byte.                                *)
copy(t, size) == SubSeq(t, 1, Min({Len(t), size - 1}))

(* Mutant: m_count keeps the length of the text that was cut off. *)
resize_keeps_count(s, size) ==
  [s EXCEPT !.buffer = copy(@, size), !.allocated = TRUE, !.size = size, !.text = copy(@, size)]

(* String::resize and reserve *)
resize(s, size) ==
  LET count == IF s.count >= size THEN size - 1 ELSE s.count
  IN [s EXCEPT !.buffer = copy(@, count + 1), !.count = count, !.allocated = TRUE, !.size = size,
               !.text = copy(@, size)]
reserve(s, count) == IF ~s.allocated \/ count > s.size - 1 THEN resize(s, count + 1) ELSE s

Resize(size) == string' = resize(string, size)

(* String::operator = *)
Assign(t) == string' = [reserve(string, Len(t)) EXCEPT !.buffer = t, !.count = Len(t), !.text = t]

(* String::operator << (const char) *)
Appended(s, t) == [s EXCEPT !.buffer = @ \o t, !.count = @ + Len(t), !.text = @ \o t]
Concat(t) == Appended(reserve(string, string.count + Len(t)), t)
Add(t) == string.count + Len(t) <= MaxLength /\ string' = Concat(t)

(* String::setUnsigned: the digits of a number, least significant first, and *)
(* then reversed.                                                            *)
DigitOf == <<"0", "1", "2", "3", "4", "5", "6", "7", "8", "9", "a", "b", "c", "d", "e", "f">>
Divisor(base) == IF base = "Hex" THEN 16 ELSE 10
RECURSIVE Remainders(_, _)
Remainders(ud, divisor) ==
  <<DigitOf[(ud % divisor) + 1]>> \o (IF ud \div divisor = 0 THEN <<>> ELSE Remainders(ud \div divisor, divisor))
set(number, base) ==
  (IF number < 0 THEN <<"-">> ELSE <<>>) \o (IF base = "Hex" THEN <<"0", "x">> ELSE <<>>)
     \o Reverse(Remainders(IF number < 0 THEN -number ELSE number, Divisor(base)))

(* String::operator << (int) *)
AddNumber(number) ==
  /\ string.count + Len(set(number, "Dec")) <= MaxLength
  /\ string' = Appended(reserve(string, string.count + NumberSpace), set(number, "Dec"))

(* String::toLong saturates at LONG_MIN and LONG_MAX.                        *)
ValueOf(c) == IF \E i \in DOMAIN DigitOf : DigitOf[i] = c THEN (CHOOSE i \in DOMAIN DigitOf : DigitOf[i] = c) - 1 ELSE 36
RECURSIVE Skipped(_)
Skipped(t) == IF t # <<>> /\ isWhitespace(Head(t)) THEN Skipped(Tail(t)) ELSE t
RECURSIVE Accumulate(_, _, _, _)
Accumulate(t, acc, negative, base) ==
  IF t = <<>> \/ ValueOf(Head(t)) >= base THEN acc
  ELSE LET c == ValueOf(Head(t))
           limit == IF negative THEN LongMax + 1 ELSE LongMax
           cutoff == limit \div base
       IN Accumulate(Tail(t), IF acc > cutoff \/ (acc = cutoff /\ c > limit % base) THEN limit ELSE acc * base + c,
                     negative, base)
toLong(t, base) ==
  LET skipped == Skipped(t)
      negative == skipped # <<>> /\ Head(skipped) = "-"
      digits == IF negative THEN Tail(skipped) ELSE skipped
      prefix == base = "Hex" /\ Len(digits) >= 2 /\ SubSeq(digits, 1, 2) = <<"0", "x">>
      acc == Accumulate(IF prefix THEN SubSeq(digits, 3, Len(digits)) ELSE digits, 0, negative, Divisor(base))
  IN IF negative THEN -acc ELSE acc

(* String::pad: the last line starts after its newline, and at the first     *)
(* character of a string without one.                                        *)
LastNewline(s) == LET nl == {i \in DOMAIN s.buffer : s.buffer[i] = "\n"} IN IF nl = {} THEN 0 ELSE Max(nl) - 1
pad(length) ==
  LET curlen == string.count - (LastNewline(string) + 1)
      more == length - curlen
  IN /\ string.count > 0 /\ more > 0 /\ string.count + more <= MaxLength
     /\ string' = Appended(reserve(string, string.count + more), [i \in 1 .. more |-> " "])

(* String::trim: nothing is done unless two characters are left.             *)
Leading(s) == {i \in 0 .. s.count - 2 : \A j \in 0 .. i : isWhitespace(s.buffer[j + 1])}
Trailing(s) == {i \in 1 .. s.count - 1 : \A j \in i .. s.count - 1 : isWhitespace(s.buffer[j + 1])}
trim ==
  LET s == reserve(string, string.count)
      from == Cardinality(Leading(s))
      to == s.count - 1 - Cardinality(Trailing(s))
      rest == copy(SubSeq(s.buffer, from + 1, s.count), to - from + 2)
  IN /\ string.count > 0
     /\ string' = IF from < to THEN [s EXCEPT !.buffer = rest, !.count = to - from + 1, !.text = rest] ELSE s

(* String::lower, upper *)
Mapped(s, Op(_)) ==
  [s EXCEPT !.buffer = [i \in DOMAIN @ |-> Op(@[i])], !.text = [i \in DOMAIN @ |-> Op(@[i])]]
Lowered == string' = Mapped(reserve(string, string.count), lower)
Uppered == string' = Mapped(reserve(string, string.count), upper)

(* String::substring, and the assignment of the part to the string           *)
substring(s, index, size) ==
  LET from == Min({index, s.count})
      part == SubSeq(s.buffer, from + 1, s.count)
  IN IF size > 0 /\ size < s.count - from THEN SubSeq(part, 1, size) ELSE part
Sub(index, size) == Assign(substring(string, index, size))

(* String::compareTo, startsWith, endsWith, contains *)
compareTo(s, t, caseSensitive) ==
  LET Fold(u) == IF caseSensitive THEN u ELSE [i \in DOMAIN u |-> lower(u[i])] IN Fold(s.buffer) = Fold(t)
startsWith(s, t) == t # <<>> /\ Len(t) <= s.count /\ SubSeq(s.buffer, 1, Len(t)) = t
endsWith(s, t) == t # <<>> /\ Len(t) <= s.count /\ SubSeq(s.buffer, s.count - Len(t) + 1, s.count) = t
contains(s, c) == \E i \in 1 .. s.count - 1 : s.buffer[i] = c

(* Mutant: empty parts are kept. *)
RECURSIVE SplitAt_empty(_, _, _, _)
SplitAt_empty(s, i, from, delimiter) ==
  IF i >= s.count THEN <<substring(s, from, 0)>>
  ELSE IF s.buffer[i + 1] = delimiter
       THEN <<substring(s, from, i - from)>> \o SplitAt_empty(s, i + 1, i + 1, delimiter)
       ELSE SplitAt_empty(s, i + 1, from, delimiter)

(* String::split: at i, from is the start of the part.                       *)
RECURSIVE SplitAt(_, _, _, _)
SplitAt(s, i, from, delimiter) ==
  IF i >= s.count THEN (IF from < s.count THEN <<substring(s, from, 0)>> ELSE <<>>)
  ELSE IF s.buffer[i + 1] = delimiter
       THEN (IF i > from THEN <<substring(s, from, i - from)>> ELSE <<>>) \o SplitAt(s, i + 1, i + 1, delimiter)
       ELSE SplitAt(s, i + 1, from, delimiter)
split(s, delimiter) == SplitAt(s, 0, 0, delimiter)

(* String::match, the rest of the string against the rest of the mask: behind *)
(* a wildcard, the string moves to where the mask up to the next wildcard    *)
(* first occurs, and to its end if it occurs nowhere.                        *)
RECURSIVE SkipWildcards(_)
SkipWildcards(mask) == IF mask # <<>> /\ isWildcard(Head(mask)) THEN SkipWildcards(Tail(mask)) ELSE mask
Piece(mask) == SubSeq(mask, 1, Cardinality({i \in DOMAIN mask : \A j \in 1 .. i : ~isWildcard(mask[j])}))
Forward(t, piece) ==
  LET at == {i \in DOMAIN t : IsPrefix(piece, SubSeq(t, i, Len(t)))}
  IN IF at = {} THEN <<>> ELSE SubSeq(t, Min(at), Len(t))
Rest(t) == IF t = <<>> THEN t ELSE Tail(t)
RECURSIVE match(_, _)
match(t, mask) ==
  IF t = <<>> \/ mask = <<>> THEN t = <<>> /\ SkipWildcards(mask) = <<>>
  ELSE IF isWildcard(Head(mask))
       THEN LET m == SkipWildcards(mask) IN m = <<>> \/ match(Rest(Forward(t, Piece(m))), Rest(m))
       ELSE Head(t) = Head(mask) /\ match(Tail(t), Tail(mask))

String_Next ==
  \/ \E size \in 1 .. MaxLength : Resize(size)
  \/ \E t \in String_Text : Assign(t) \/ Add(t)
  \/ \E n \in String_Numbers : AddNumber(n)
  \/ \E length \in 1 .. MaxLength : pad(length)
  \/ trim \/ Lowered \/ Uppered
  \/ \E index \in 0 .. MaxLength, size \in 0 .. 2 : Sub(index, size)

(* m_count is the length of the zero-terminated text, whose end lies inside  *)
(* the buffer, and the text is that of the operations (String.cpp:125-406).  *)
Terminated ==
  /\ string.buffer = string.text
  /\ string.count = Len(string.buffer)
  /\ string.count < string.size

(* split() gives the non-empty parts between the delimiters, in order, and   *)
(* nothing of the text but delimiters is lost (String.cpp:416-454).          *)
SplitParts ==
  \A d \in {" ", "\n"} :
    LET parts == split(string, d)
    IN /\ FlattenSeq(parts) = SelectSeq(string.text, LAMBDA c : c # d)
       /\ \A i \in DOMAIN parts : parts[i] # <<>> /\ d \notin Range(parts[i])
       /\ Len(parts) = Cardinality({i \in DOMAIN string.text : string.text[i] # d /\ (i = 1 \/ string.text[i - 1] = d)})

(* A number that is written is read back, in both bases, up to the ends of   *)
(* the range; a longer number reads as the end of the range.                 *)
NumberRead ==
  \A n \in -LongMax - 1 .. LongMax, base \in {"Dec", "Hex"} :
    /\ toLong(set(n, base), base) = n
    /\ toLong(Append(set(n, base), "0"), base) \in {n * Divisor(base), LongMax, -LongMax - 1}

(* What a mask stands for: a wildcard for any text. *)
RECURSIVE Glob(_, _)
Glob(t, mask) ==
  IF mask = <<>> THEN t = <<>>
  ELSE IF isWildcard(Head(mask)) THEN \E i \in 0 .. Len(t) : Glob(SubSeq(t, i + 1, Len(t)), Tail(mask))
  ELSE t # <<>> /\ Head(t) = Head(mask) /\ Glob(Tail(t), Tail(mask))

(* match() is the matching that its documentation names: "Matches the String *)
(* against a mask" (String.h:271).                                           *)
MatchesMask ==
  \A mask \in {<<"*", "a">>, <<"*", "b", "*">>, <<"a", "*", "b">>} : match(string.text, mask) <=> Glob(string.text, mask)

-------------------------------------------------------------------------------
(***************************************************************************)
(* libposix: the functions on C strings, vsnprintf, and the arithmetic of   *)
(* sqrt, abs and mktime.  A string is the sequence of its characters       *)
(* without the terminating 0; a destination is memory of Size bytes that    *)
(* hold Unwritten until something is stored in them.  Upper is a capital   *)
(* whose small letter is 1.                                                 *)
(***************************************************************************)

CONSTANTS Strings, Size, Counts, Formats, CString_Numbers, Dates
VARIABLE cstring

Unwritten == 9
Upper == 3
Space == 8
Percent == 7
At(s, i) == IF i < Len(s) THEN s[i + 1] ELSE 0
Memory == [i \in 0 .. Size - 1 |-> Unwritten]
Least(S) == CHOOSE x \in S : \A y \in S : x <= y
Minimum(x, y) == IF x < y THEN x ELSE y
CString_Text(mem, n) == [i \in 1..n |-> mem[i - 1]]

Comparisons == {"strcmp", "strncmp", "strcasecmp", "strncasecmp"}
Copies == {"strcpy", "strncpy", "strlcpy", "strcat", "strncat", "memcpy", "strdup", "strndup"}
Searches == {"strchr", "strrchr", "strlen"}
CString_Init ==
  \/ cstring \in [op : Comparisons, a : Strings, b : Strings, n : Counts, out : {<<>>}]
  \/ cstring \in [op : Copies, a : Strings, b : Strings, n : Counts, out : {<<>>}]
  \/ cstring \in [op : Searches, a : Strings, b : {<<>>}, n : 1..3, out : {<<>>}]
  \/ cstring \in [op : {"vsnprintf"}, a : Formats, b : {<<>>}, n : 1 .. Size - 1, out : {<<>>}]
  \/ cstring \in [op : {"sqrt", "abs"}, a : {<<>>}, b : {<<>>}, n : CString_Numbers, out : {<<>>}]
  \/ cstring \in [op : {"mktime"}, a : Dates, b : {<<>>}, n : {0}, out : {<<>>}]

tolower(ch) == IF ch = Upper THEN 1 ELSE ch
Lower(s) == [i \in 1..Len(s) |-> tolower(s[i])]

(* The first position where the loop of a comparison stops. *)
Differs(a, b) == Least({i \in 0 .. Len(a) : ~ (At(a, i) /= 0 /\ At(b, i) /= 0 /\ At(a, i) = At(b, i))})
strcmp(a, b) == LET i == Differs(a, b) IN At(a, i) - At(b, i)
strcasecmp(a, b) == strcmp(Lower(a), Lower(b))
(* The last of the count characters is not stepped over. *)
strncmp_counts(a, b, n) == LET i == Minimum(Differs(a, b), n) IN At(a, i) - At(b, i)
strncmp(a, b, n) == LET i == Minimum(Differs(a, b), IF n = 0 THEN 0 ELSE n - 1) IN At(a, i) - At(b, i)
strncasecmp(a, b, n) == strncmp(Lower(a), Lower(b), n)

Store(mem, at, s) == [i \in DOMAIN mem |-> IF i >= at /\ i < at + Len(s) THEN s[i - at + 1] ELSE mem[i]]
strcpy(mem, at, s) == [dst |-> Store(mem, at, Append(s, 0)), ret |-> Len(s)]
strncpy(mem, at, s, n) == strcpy(mem, at, SubSeq(s, 1, Minimum(Len(s), n)))
strlcpy(mem, s, n) ==
  LET copied == SubSeq(s, 1, Minimum(Len(s), n - 1))
  IN  [dst |-> IF n = 0 THEN mem ELSE Store(mem, 0, Append(copied, 0)), ret |-> Len(s)]
strlen(mem) == Least({i \in DOMAIN mem : mem[i] = 0})
strcat(mem, s) == strcpy(mem, strlen(mem), s)
strncat(mem, s, n) == strncpy(mem, strlen(mem), s, n)
memcpy(mem, s, n) == [dst |-> Store(mem, 0, SubSeq(Append(s, 0), 1, n)), ret |-> 0]
strdup(mem, s) == memcpy(mem, s, Len(s) + 1)
strndup(mem, s, n) ==
  LET bytes == Minimum(Len(s), n) IN [dst |-> [memcpy(mem, s, bytes + 1).dst EXCEPT ![bytes] = 0], ret |-> 0]
strchr(s, ch) == LET i == Least({i \in 0..Len(s) : At(s, i) = 0 \/ At(s, i) = ch}) IN IF At(s, i) = 0 THEN -1 ELSE i
strrchr(s, ch) == LET hits == {i \in 0 .. Len(s) - 1 : At(s, i) = ch}
                  IN  IF hits = {} THEN -1 ELSE CHOOSE i \in hits : \A j \in hits : j <= i

(* vsnprintf: one item of the format.  A conversion with a length puts out   *)
(* so many characters, spaces after the end of its text.  Its loop counts    *)
(* the character that does not fit any more.                                  *)
Converted(item) == IF item.length = -1 THEN item.text
                   ELSE [i \in 1..item.length |-> IF i <= Len(item.text) THEN item.text[i] ELSE Space]
Put(s, text, size) ==
  LET fits == Minimum(Len(text), size - s.written)
  IN  [dst |-> Store(s.dst, s.at, SubSeq(text, 1, fits)), at |-> s.at + fits,
       written |-> IF fits < Len(text) THEN size + 1 ELSE s.written + fits]
Item(s, item, size) ==
  CASE item.kind = "char" -> Put(s, item.text, size)
    [] item.kind = "conversion" -> Put(s, Converted(item), size)
    [] item.kind = "unsupported" -> Put(s, <<Percent>>, size)
vsnprintf(mem, fmt, size) ==
  LET run[k \in 0..Len(fmt)] ==
        IF k = 0 THEN [dst |-> mem, at |-> 0, written |-> 0]
        ELSE IF run[k - 1].written < size THEN Item(run[k - 1], fmt[k], size) ELSE run[k - 1]
      end == run[Len(fmt)]
  IN  [dst |-> IF end.written < size THEN [end.dst EXCEPT ![end.at] = 0] ELSE end.dst, ret |-> end.written]

(* The bits of the root, from the highest power of four down; the numbers are *)
(* below 2^30, as TLC does not have the integers of the step above it.         *)
sqrt(number) ==
  LET one[k \in 0..14] == 4 ^ k
      bit[k \in -1..14] ==
        IF k = 14 THEN [op |-> number, res |-> 0]
        ELSE LET s == bit[k + 1] IN
             IF s.op < s.res + one[k + 1] \/ one[k + 1] > number THEN [s EXCEPT !.res = @ \div 2]
             ELSE [op |-> s.op - (s.res + one[k + 1]), res |-> (s.res + 2 * one[k + 1]) \div 2]
  IN  bit[-1].res
abs(number) == LET mask == IF number < 0 THEN -1 ELSE 0
               IN  IF mask = 0 THEN number + mask ELSE -(number + mask) - 1
mktime(d) ==
  LET m    == IF d.month - 2 <= 0 THEN d.month + 10 ELSE d.month - 2
      y    == IF d.month - 2 <= 0 THEN d.year - 1 ELSE d.year
      days == ((y \div 4) - (y \div 100)) + (y \div 400) + ((367 * m) \div 12) + d.day + (y * 365) - 719499
  IN  (((((days * 24) + d.hour) * 60) + d.min) * 60) + d.sec

Call ==
  /\ cstring.out = <<>>
  /\ cstring' = [cstring EXCEPT !.out = <<
             CASE cstring.op = "strcmp" -> strcmp(cstring.a, cstring.b)
               [] cstring.op = "strncmp" -> strncmp(cstring.a, cstring.b, cstring.n)
               [] cstring.op = "strcasecmp" -> strcasecmp(cstring.a, cstring.b)
               [] cstring.op = "strncasecmp" -> strncasecmp(cstring.a, cstring.b, cstring.n)
               [] cstring.op = "strcpy" -> strcpy(Memory, 0, cstring.a)
               [] cstring.op = "strncpy" -> strncpy(Memory, 0, cstring.a, cstring.n)
               [] cstring.op = "strlcpy" -> strlcpy(Memory, cstring.a, cstring.n)
               [] cstring.op = "strcat" -> strcat(strcpy(Memory, 0, cstring.a).dst, cstring.b)
               [] cstring.op = "strncat" -> strncat(strcpy(Memory, 0, cstring.a).dst, cstring.b, cstring.n)
               [] cstring.op = "memcpy" -> memcpy(Memory, cstring.a, Minimum(cstring.n, Len(cstring.a) + 1))
               [] cstring.op = "strdup" -> strdup(Memory, cstring.a)
               [] cstring.op = "strndup" -> strndup(Memory, cstring.a, cstring.n)
               [] cstring.op = "strchr" -> strchr(cstring.a, cstring.n)
               [] cstring.op = "strrchr" -> strrchr(cstring.a, cstring.n)
               [] cstring.op = "strlen" -> strlen(strcpy(Memory, 0, cstring.a).dst)
               [] cstring.op = "vsnprintf" -> vsnprintf(Memory, cstring.a, cstring.n)
               [] cstring.op = "sqrt" -> sqrt(cstring.n)
               [] cstring.op = "abs" -> abs(-cstring.n)
               [] cstring.op = "mktime" -> mktime(cstring.a)>>]
CString_Next == Call

-----------------------------------------------------------------------------
Called(ops) == cstring.out /= <<>> /\ cstring.op \in ops
Prefix(s, n) == SubSeq(s, 1, Minimum(n, Len(s)))

(* The comparisons answer zero exactly for strings that are equal, in their   *)
(* first n characters and without regard to case where the name says so.      *)
Compared ==
  Called(Comparisons) =>
    LET fold(s) == IF cstring.op \in {"strcasecmp", "strncasecmp"} THEN Lower(s) ELSE s
        part(s) == IF cstring.op \in {"strncmp", "strncasecmp"} /\ cstring.n > 0 THEN Prefix(fold(s), cstring.n) ELSE fold(s)
    IN  cstring.n > 0 => ((cstring.out[1] = 0) <=> (part(cstring.a) = part(cstring.b)))

(* The copies store the characters they should and one 0 behind them, and     *)
(* strlcpy nothing outside the size it is given.                              *)
Copied ==
  Called(Copies \ {"memcpy"}) =>
    LET s == CASE cstring.op \in {"strcpy", "strdup"} -> cstring.a
               [] cstring.op \in {"strncpy", "strndup"} -> Prefix(cstring.a, cstring.n)
               [] cstring.op = "strlcpy" -> Prefix(cstring.a, cstring.n - 1)
               [] cstring.op = "strcat" -> cstring.a \o cstring.b
               [] cstring.op = "strncat" -> cstring.a \o Prefix(cstring.b, cstring.n)
        dst == cstring.out[1].dst
    IN  IF cstring.op = "strlcpy" /\ cstring.n = 0 THEN dst = Memory
        ELSE /\ CString_Text(dst, Len(s)) = s /\ dst[Len(s)] = 0
             /\ cstring.op = "strlcpy" => \A i \in DOMAIN dst : i >= cstring.n => dst[i] = Unwritten

(* strchr and strrchr find the first and the last occurrence. *)
Found ==
  /\ Called({"strchr"}) => \/ cstring.out[1] = -1 /\ \A i \in 1..Len(cstring.a) : cstring.a[i] /= cstring.n
                           \/ At(cstring.a, cstring.out[1]) = cstring.n /\ \A i \in 0 .. cstring.out[1] - 1 : At(cstring.a, i) /= cstring.n
  /\ Called({"strrchr"}) => \/ cstring.out[1] = -1 /\ \A i \in 1..Len(cstring.a) : cstring.a[i] /= cstring.n
                            \/ At(cstring.a, cstring.out[1]) = cstring.n /\ \A i \in cstring.out[1] + 1 .. Len(cstring.a) : At(cstring.a, i) /= cstring.n
  /\ Called({"strlen"}) => cstring.out[1] = Len(cstring.a)

RECURSIVE Expand(_)
Expand(fmt) == IF fmt = <<>> THEN <<>>
               ELSE (CASE Head(fmt).kind = "char" -> Head(fmt).text
                       [] Head(fmt).kind = "conversion" -> Converted(Head(fmt))
                       [] OTHER -> <<Percent>>) \o Expand(Tail(fmt))
(* vsnprintf stores what the format says, as far as it fits, and nothing       *)
(* behind the size of the buffer.                                              *)
Formatted ==
  Called({"vsnprintf"}) =>
    LET all == Expand(cstring.a)  dst == cstring.out[1].dst
    IN  /\ CString_Text(dst, Minimum(Len(all), cstring.n)) = Prefix(all, cstring.n)
        /\ Len(all) < cstring.n => dst[Len(all)] = 0
        /\ \A i \in DOMAIN dst : i >= cstring.n => dst[i] = Unwritten

Leap(y) == y % 4 = 0 /\ (y % 100 /= 0 \/ y % 400 = 0)
MonthDays(y) == <<31, IF Leap(y) THEN 29 ELSE 28, 31, 30, 31, 30, 31, 31, 30, 31, 30, 31>>
DaysBefore(d) ==
  LET year[y \in 1970 .. 2100] == IF y = 1970 THEN 0 ELSE year[y - 1] + (IF Leap(y - 1) THEN 366 ELSE 365)
      month[m \in 1..12] == IF m = 1 THEN 0 ELSE month[m - 1] + MonthDays(d.year)[m - 1]
  IN  year[d.year] + month[d.month] + d.day - 1
(* The root is the largest number whose square is not larger, abs drops the   *)
(* sign, and mktime counts the days of every month and leap year.             *)
Computed ==
  /\ Called({"sqrt"}) => cstring.out[1] * cstring.out[1] <= cstring.n /\ cstring.n - (cstring.out[1] * cstring.out[1]) <= 2 * cstring.out[1]
  /\ Called({"abs"}) => cstring.out[1] = cstring.n
  /\ Called({"mktime"}) => cstring.out[1] = (((((DaysBefore(cstring.a) * 24) + cstring.a.hour) * 60) + cstring.a.min) * 60) + cstring.a.sec

(* "@return Number of bytes written to the buffer" (stdio.h, vsnprintf): the   *)
(* result is never more than the size of the buffer.                           *)
ReturnsWritten == Called({"vsnprintf"}) => cstring.out[1].ret <= cstring.n

-------------------------------------------------------------------------------
(* lib/libstd/ByteOrder.h on a little-endian processor.  A byte has Radix    *)
(* values (256 in the code); a word of n bytes is a number below Radix^n,    *)
(* and its memory is the sequence of its bytes, lowest address first.        *)

CONSTANT Radix

VARIABLE data    \* what a driver or a protocol reads or writes: bytes in memory

Widths == {1, 2, 4, 8}

(* The memory of a word (MemoryBlock::copy of a variable), read8 .. read64   *)
(* and write8 .. write64.                                                    *)
Bytes(x, n) == [i \in 1 .. n |-> (x \div Radix^(i - 1)) % Radix]
read(s) == FoldLeft(LAMBDA x, i : x + s[i] * Radix^(i - 1), 0, [i \in DOMAIN s |-> i])
write(x, n) == Bytes(x, n)

(* SWAP16, SWAP32, SWAP64: the byte at position k, masked, is shifted to     *)
(* position n - 1 - k.                                                       *)
Mask(x, k) == ((x \div Radix^k) % Radix) * Radix^k
Shift(x, from, to) == IF to >= from THEN x * Radix^(to - from) ELSE x \div Radix^(from - to)

(* Mutant: the two bytes in the middle keep their places. *)
SWAP_outer(x, n) ==
  FoldSet(LAMBDA k, s : s + (IF k \in {n \div 2, n \div 2 - 1} THEN Mask(x, k) ELSE Shift(Mask(x, k), k, n - 1 - k)),
          0, 0 .. n - 1)

SWAP(x, n) == FoldSet(LAMBDA k, s : s + Shift(Mask(x, k), k, n - 1 - k), 0, 0 .. n - 1)

(* cpu_to_le.., le.._to_cpu, cpu_to_be.., be.._to_cpu *)
le(x, n) == x
be(x, n) == SWAP(x, n)

(* readLe.., readBe.., writeLe.., writeBe.. *)
readLe(s) == le(read(s), Len(s))
readBe(s) == be(read(s), Len(s))
writeLe(x, n) == write(le(x, n), n)
writeBe(x, n) == write(be(x, n), n)

ByteOrder_Init == data \in UNION {[1 .. n -> 0 .. Radix - 1] : n \in Widths}
ByteOrder_Next == UNCHANGED data

(* A field in network order has its most significant byte first, a field in  *)
(* little-endian order last, and what is written is read back (ByteOrder.h:  *)
(* 328-475).                                                                 *)
FieldsRead ==
  LET n == Len(data)
      x == readBe(data)
  IN /\ x = read(Reverse(data)) /\ writeBe(x, n) = data
     /\ writeLe(readLe(data), n) = data
     /\ writeLe(x, n) = Reverse(writeBe(x, n))
===============================================================================
