-------------------------------- MODULE Times --------------------------------
(***************************************************************************)
(* GeneralizedTime.c and UTCTime.c: times as text and as seconds.  A text  *)
(* is a sequence of octets.  What may fail returns a set: empty, or the    *)
(* result.                                                                 *)
(***************************************************************************)
EXTENDS Integers, Sequences

CONSTANT LocalOffset   \* seconds the local time is ahead of UTC

Zed == 90
Digits == 48..57
Digit(c) == c - 48

(* The number that the digits i..j of a text spell. *)
Decimal(b, i, j) ==
  LET N[k \in (i - 1)..j] == IF k < i THEN 0 ELSE 10 * N[k - 1] + Digit(b[k])
  IN  N[j]

(* How many digits follow from position i on. *)
Run(b, i) ==
  CHOOSE n \in 0..(Len(b) - i + 1) :
    /\ \A k \in i..(i + n - 1) : b[k] \in Digits
    /\ i + n <= Len(b) => b[i + n] \notin Digits

-----------------------------------------------------------------------------
(* The C library: a struct tm is normalised to a day and a second of it. *)
Leap(y) == y % 4 = 0 /\ (y % 100 # 0 \/ y % 400 = 0)
DaysBefore(y, m) ==
  <<0, 31, 59, 90, 120, 151, 181, 212, 243, 273, 304, 334>>[m] + (IF m > 2 /\ Leap(y) THEN 1 ELSE 0)
DayNumber(y, m, d) ==
  365 * y + ((y - 1) \div 4) - ((y - 1) \div 100) + ((y - 1) \div 400) + DaysBefore(y, m) + d

timegm(tm, offset) ==
  LET s == 3600 * tm.hour + 60 * tm.min + tm.sec - offset
  IN  [day |-> DayNumber(tm.year, tm.mon, tm.mday) + (s \div 86400), sec |-> s % 86400]

LastOf(S, n) == CHOOSE i \in S : i <= n /\ \A j \in S : j <= n => j <= i

gmtime(t, near) ==
  LET year == CHOOSE y \in (near - 1)..(near + 1) :
                /\ DayNumber(y, 1, 1) <= t.day
                /\ t.day < DayNumber(y + 1, 1, 1)
      mon == CHOOSE m \in 1..12 :
                /\ DayNumber(year, m, 1) <= t.day
                /\ m < 12 => t.day < DayNumber(year, m + 1, 1)
  IN  [year |-> year, mon |-> mon, mday |-> t.day - DayNumber(year, mon, 1) + 1,
       hour |-> t.sec \div 3600, min |-> (t.sec \div 60) % 60, sec |-> t.sec % 60]

MinusOne == [day |-> DayNumber(1969, 12, 31), sec |-> 86399]

-----------------------------------------------------------------------------
(* The zone at the end of a text: seconds ahead of UTC.  What follows a Z  *)
(* is not looked at.                                                       *)
Offset(b, i) ==
  LET n == Len(b) - i + 1
      sign == IF b[i] = 45 THEN -1 ELSE 1
  IN  IF n = 0 THEN {LocalOffset}
      ELSE IF b[i] = Zed THEN {0}
      ELSE IF /\ b[i] \in {43, 45}
              /\ n \in {3, 5} /\ Run(b, i + 1) = n - 1
      THEN {sign * (3600 * Decimal(b, i + 1, i + 2)
                    + 60 * (IF n = 5 THEN Decimal(b, i + 3, i + 4) ELSE 0))}
      ELSE {}

(* Minutes are not checked. *)
Plausible(tm) == tm.mon \in 1..12 /\ tm.mday \in 1..31 /\ tm.hour <= 23 /\ tm.sec <= 60

(* AAAAMMDDhh[mm[ss[.f*]]] and a zone. *)
asn_GT2time_frac(b) ==
  LET n == Run(b, 1)
      dot == n = 14 /\ n < Len(b) /\ b[15] \in {44, 46}
      fraction == IF dot THEN Run(b, 16) ELSE 0
      tm == [year |-> Decimal(b, 1, 4), mon |-> Decimal(b, 5, 6), mday |-> Decimal(b, 7, 8),
             hour |-> Decimal(b, 9, 10), min |-> IF n >= 12 THEN Decimal(b, 11, 12) ELSE 0,
             sec |-> IF n = 14 THEN Decimal(b, 13, 14) ELSE 0]
  IN  IF n \notin {10, 12, 14} \/ ~Plausible(tm) THEN {}
      ELSE {r \in {[time |-> timegm(tm, o), year |-> tm.year, frac |-> SubSeq(b, 16, 15 + fraction)] :
                     o \in Offset(b, IF dot THEN 16 + fraction ELSE n + 1)} :
              r.time # MinusOne}

(* The first nine digits of a fraction without the zeros at their end. *)
Fraction(f) ==
  LET nine == SubSeq(f, 1, IF Len(f) < 9 THEN Len(f) ELSE 9)
      last == LastOf({0} \cup {i \in DOMAIN nine : nine[i] # 48}, Len(nine))
  IN  IF last = 0 THEN <<>> ELSE <<46>> \o SubSeq(nine, 1, last)

Two(n) == <<48 + (n \div 10), 48 + (n % 10)>>

(* asn_time2GT_frac() of a time in UTC. *)
asn_time2GT_frac(r) ==
  LET tm == gmtime(r.time, r.year)
  IN  IF tm.year \notin 0..9999 THEN {}
      ELSE {Two(tm.year \div 100) \o Two(tm.year % 100) \o Two(tm.mon) \o Two(tm.mday)
              \o Two(tm.hour) \o Two(tm.min) \o Two(tm.sec) \o Fraction(r.frac) \o <<Zed>>}

(* What GeneralizedTime_encode_der() writes for a text. *)
Canonical(b) == UNION {asn_time2GT_frac(r) : r \in asn_GT2time_frac(b)}

(* asn_UT2time(): the first digit selects the century. *)
asn_UT2time(b) ==
  IF Len(b) \notin 11..21 THEN {}
  ELSE asn_GT2time_frac((IF b[1] > 53 THEN <<49, 57>> ELSE <<50, 48>>) \o b)
=============================================================================
