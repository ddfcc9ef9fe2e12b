------------------------------ MODULE Strings -------------------------------
(***************************************************************************)
(* The conversions and tests of utils.c.  A string is the sequence of its  *)
(* characters without the final NUL, a character is its ASCII code.        *)
(***************************************************************************)
EXTENDS Integers, Sequences, SequencesExt, FunctionCall

CONSTANTS MaxHex,     \* bound: characters of the hexadecimal strings checked
          MaxParts    \* bound: parts between dots of the addresses checked

ASSUME StringsAssumption == MaxHex \in Nat /\ MaxParts \in Nat

\* isdigit, isxdigit, tolower and toupper in the "C" locale.
Digits  == 48 .. 57
isxdigit(c) == c \in Digits \cup 65 .. 70 \cup 97 .. 102
tolower(c) == IF c \in 65 .. 90 THEN c + 32 ELSE c
toupper(c) == IF c \in 97 .. 122 THEN c - 32 ELSE c

-----------------------------------------------------------------------------
(* Hexadecimal                                                             *)

\* Mutant of HexValue: only lower case letters are converted.
HexValueLower(c) == IF c \in Digits THEN c - 48 ELSE (c - 97 + 10) % 256

HexValue(c) == IF c \in Digits THEN c - 48 ELSE (tolower(c) - 97 + 10) % 256

\* What is written to data.  A string of odd length, or one too long for
\* data_len, writes nothing; the number returned is the length.
str2bytes(str, data_len) ==
    IF Len(str) % 2 # 0 \/ data_len < Len(str) \div 2 THEN << >>
    ELSE [i \in 1 .. Len(str) \div 2 |->
             (16 * HexValue(str[2*i - 1]) + HexValue(str[2*i])) % 256]

\* "%02X"
HexDigit(v) == IF v < 10 THEN 48 + v ELSE 65 + v - 10
bytes2strH(data) ==
    [i \in 1 .. 2 * Len(data) |->
        LET byte == data[(i + 1) \div 2]
        IN  HexDigit(IF i % 2 = 1 THEN byte \div 16 ELSE byte % 16)]

isxdigitstr(str) == Len(str) % 2 = 0 /\ \A i \in DOMAIN str : isxdigit(str[i])

str2upper(str) == [i \in DOMAIN str |-> toupper(str[i])]

\* The strings differ at a place; behind the end of the shorter one it has
\* its NUL.  Not modelled: strings of which the longer has a space there,
\* for which the loop goes on behind that NUL.
CharAt(s, i) == IF i <= Len(s) THEN s[i] ELSE 0
SameButCase(a, b) == a - b \in {0, 32, -32}
equal_nocase(s1, s2) ==
    \A i \in 1 .. (IF Len(s1) < Len(s2) THEN Len(s2) ELSE Len(s1)) :
        SameButCase(CharAt(s1, i), CharAt(s2, i))

-----------------------------------------------------------------------------
(* is_str_ip                                                               *)

Dot == 46   \* '.'

\* Mutant of TooLong: four digits fit.
TooLongLate(part) == Len(part) >= 5

\* ip_i >= 4
TooLong(part) == Len(part) >= 4

\* One character: the parts of ip_tmp that were begun, the last one open.
ReadChar(r, c) ==
    IF ~r.ok THEN r
    ELSE IF c = Dot
    THEN [parts |-> Append(r.parts, << >>), ok |-> Len(r.parts) < 4]
    ELSE LET part == Append(Last(r.parts), c)
         IN  [parts |-> [r.parts EXCEPT ![Len(r.parts)] = part],
              ok    |-> c \in Digits /\ ~TooLong(part)]

atoi(part) ==
    LET value[k \in 0 .. Len(part)] ==
            IF k = 0 THEN 0 ELSE 10 * value[k - 1] + part[k] - 48
    IN  value[Len(part)]

\* What has been read before and after each character.
Scanned(IP) ==
    LET read[k \in 0 .. Len(IP)] ==
            IF k = 0 THEN [parts |-> <<<< >>>>, ok |-> TRUE]
                     ELSE ReadChar(read[k - 1], IP[k])
    IN  read

\* The four parts have a digit and a value of at most 255; a part that was
\* not begun has none.
is_str_ip(IP) ==
    LET r == Scanned(IP)[Len(IP)]
    IN  /\ r.ok /\ Len(r.parts) = 4
        /\ \A i \in 1 .. 4 : r.parts[i] # << >> /\ atoi(r.parts[i]) <= 255

-----------------------------------------------------------------------------
(* Inputs                                                                  *)

\* Both ends of the three ranges of hexadecimal digits, and the characters
\* next to them.
Chars == {47, 48, 57, 58, 64, 65, 70, 71, 96, 97, 102, 103}

SeqsUpTo(S, n) == UNION {[1 .. k -> S] : k \in 0 .. n}
HexStrings == {s \in SeqsUpTo(Chars, MaxHex) : isxdigitstr(s)}

\* Parts that are an octet, and parts that are not: empty, four digits, more
\* than a row of ip_tmp holds, too large, with a character next to the digits.
Octets    == {<<48>>, <<57, 57>>, <<50, 53, 53>>, <<48, 48, 48>>}
NonOctets == {<< >>, <<48, 48, 48, 48>>, <<49, 48, 48, 48, 48, 48>>, <<50, 53, 54>>, <<57, 58>>, <<47>>}
PartLists == SeqsUpTo(Octets \cup NonOctets, MaxParts) \ {<< >>}

Dotted(parts) ==
    LET upTo[k \in DOMAIN parts] ==
            IF k = 1 THEN parts[1] ELSE upTo[k - 1] \o <<Dot>> \o parts[k]
    IN  upTo[Len(parts)]

StringsInit ==
    \/ \E s, t \in HexStrings : given = <<"strings", s, t>>
    \/ \E a, b \in 0 .. 255 : given = <<"bytes", <<a, b>>>>
    \/ \E parts \in PartLists : given = <<"is_str_ip", parts>>

-----------------------------------------------------------------------------
(* Properties                                                              *)

Converted(s) == str2bytes(s, Len(s) \div 2)

\* A string that passes isxdigitstr is converted to bytes and back without
\* loss, into the upper case form of itself; two of them have the same bytes
\* exactly if strcmp_nocase calls them equal; and all bytes survive the way
\* through a string (utils.c:63-80, 97-101, 251-252).
HexRoundTrip ==
    /\ Given("strings") =>
          LET s == given[2]
              t == given[3]
          IN  /\ bytes2strH(Converted(s)) = str2upper(s)
              /\ equal_nocase(s, t) <=>
                    Len(s) = Len(t) /\ Converted(s) = Converted(t)
    /\ Given("bytes") =>
          LET str == bytes2strH(given[2])
          IN  isxdigitstr(str) /\ str2bytes(str, 2) = given[2]

\* The place of ip_tmp, a char[4][5], that a character or the 0 for a dot is
\* stored to after r was read.
StoresInside(r) == Len(r.parts) <= 4 /\ Len(Last(r.parts)) < 5

\* A string is taken for an address exactly if it is four octets of one to
\* three digits with a dot between each two; and whatever the string, the scan
\* has ended before a fifth part or a fifth digit is stored (utils.c:159-209).
AddressesRecognised ==
    Given("is_str_ip") =>
        LET parts == given[2]
            IP    == Dotted(parts)
        IN  /\ is_str_ip(IP) <=>
                  Len(parts) = 4 /\ \A i \in 1 .. 4 : parts[i] \in Octets
            /\ \A k \in 1 .. Len(IP) :
                  Scanned(IP)[k - 1].ok => StoresInside(Scanned(IP)[k - 1])
=============================================================================
