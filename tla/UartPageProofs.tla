--------------------------- MODULE UartPageProofs ---------------------------
(***************************************************************************)
(* Proof that a page the host is told is programmed holds what it sent     *)
(* (UartUpdate.tla), for every size of flash and of its pages, every       *)
(* address, odd ones and ones within a page included, and every host.      *)
(***************************************************************************)
EXTENDS UartUpdateProofs

-----------------------------------------------------------------------------
(* Quotient and remainder are the only ones.                               *)
LEMMA Division ==
  ASSUME NEW p \in Nat \ {0}, NEW q \in Int, NEW r \in 0..p - 1
  PROVE  (p * q + r) % p = r /\ (p * q + r) \div p = q
<1> DEFINE n == p * q + r
           d == n \div p
           s == n % p
<1>1. n \in Int
  OBVIOUS
<1>2. n = p * d + s /\ d \in Int /\ s \in 0..p - 1
  BY <1>1
<1> DEFINE k == d - q
<1>3. k \in Int /\ p * k = p * d - p * q
  BY <1>2
<1>4. r - s = p * k
  BY <1>2, <1>3
<1>5. r - s < p /\ r - s > -p
  BY <1>2
<1> HIDE DEF k, n, d, s
<1>6. k = 0
  <2>1. CASE k >= 1
    <3>1. p * k >= p
      BY <1>3, <2>1
    <3> QED BY <1>2, <1>4, <1>5, <3>1
  <2>2. CASE k <= -1
    <3>1. p * k <= -p
      BY <1>3, <2>2
    <3> QED BY <1>2, <1>4, <1>5, <3>1
  <2> QED BY <1>3, <2>1, <2>2
<1>7. r = s
  BY <1>2, <1>4, <1>6
<1>8. d = q
  BY <1>2, <1>6 DEF k
<1> QED BY <1>7, <1>8 DEF n, d, s

(* The words of a page.                                                    *)
Half == PageSize \div 2

(* The word of its page that the w-th word of the buffer is for, when       *)
(* address lies in word h: they go round the page.                         *)
Rotated(h, w) == IF h + w < Half THEN h + w ELSE h + w - Half

(* A page has an even number of bytes, and the flash a whole number of      *)
(* pages.                                                                  *)
LEMMA Pages ==
  /\ PageSize \in Nat \ {0} /\ FlashSize \in Nat \ {0}
  /\ Half \in Nat \ {0} /\ PageSize = 2 * Half
  /\ Word = 0..Half - 1
  /\ FlashSize \div PageSize \in Nat
  /\ FlashSize = PageSize * (FlashSize \div PageSize)
<1>1. /\ PageSize \in Nat /\ PageSize >= 2 /\ PageSize % 2 = 0
      /\ FlashSize \in Nat \ {0} /\ FlashSize % PageSize = 0
  BY SpmAssumption
<1>2. PageSize = 2 * Half /\ Half \in Nat \ {0}
  BY <1>1 DEF Half
<1>3. /\ FlashSize \div PageSize \in Nat
      /\ FlashSize = PageSize * (FlashSize \div PageSize)
  BY <1>1
<1> QED BY <1>1, <1>2, <1>3 DEF Word, Half

(* The low bits of an address do not depend on where the flash ends.       *)
LEMMA WithinFlash ==
  ASSUME NEW n \in Nat
  PROVE  (n % FlashSize) % PageSize = n % PageSize
<1> DEFINE f == FlashSize
           p == PageSize
           m == f \div p
           q == n \div f
           r == n % f
           q2 == r \div p
           r2 == r % p
<1>1. p \in Nat \ {0} /\ f \in Nat \ {0} /\ m \in Nat /\ f = p * m
  BY Pages
<1> HIDE DEF f, p, m
<1>2. n = f * q + r /\ q \in Nat /\ r \in Nat
  BY <1>1
<1> HIDE DEF q, r
<1>3. r = p * q2 + r2 /\ q2 \in Int /\ r2 \in 0..p - 1
  BY <1>1, <1>2
<1> HIDE DEF q2, r2
<1>4. f * q = p * (m * q) /\ m * q \in Int
  BY <1>1, <1>2
<1> DEFINE t == m * q
<1> HIDE DEF t
<1>5. p * t + p * q2 = p * (t + q2) /\ t \in Int /\ t + q2 \in Int
  BY <1>1, <1>3, <1>4 DEF t
<1>6. n = p * (t + q2) + r2
  BY <1>1, <1>2, <1>3, <1>4, <1>5 DEF t
<1>7. n % p = r2
  BY <1>1, <1>3, <1>5, <1>6, Division
<1> QED BY <1>7 DEF f, p, r, r2

(* The word a page fill goes to.                                           *)
LEMMA FillGoesTo ==
  ASSUME NEW a \in Address, NEW w \in Word
  PROVE  WordOf((a + 2 * w) % FlashSize) = Rotated(WordOf(a), w)
<1> DEFINE p == PageSize
           q == a \div p
           s == a % p
           h == s \div 2
           o == s % 2
<1>1. p \in Nat \ {0} /\ Half \in Nat \ {0} /\ p = 2 * Half
      /\ a \in Nat /\ w \in 0..Half - 1
  BY Pages, Addresses
<1> HIDE DEF p
<1>2. a = p * q + s /\ q \in Int /\ s \in 0..p - 1
  BY <1>1
<1> HIDE DEF q, s
<1>3. s = 2 * h + o /\ h \in Int /\ o \in 0..1 /\ h \in 0..Half - 1
  BY <1>1, <1>2
<1>4. WordOf(a) = h
  BY DEF WordOf, h, s, p
<1> HIDE DEF h, o
<1> DEFINE n == a + 2 * w
           v == Rotated(h, w)
<1>5. v \in 0..Half - 1
  BY <1>1, <1>3 DEF Rotated
<1>6. n % p = 2 * v + o
  <2>1. CASE h + w < Half
    <3>1. v = h + w
      BY <2>1 DEF Rotated
    <3> HIDE DEF v
    <3>2. n = p * q + (2 * v + o)
      BY <1>1, <1>2, <1>3, <3>1
    <3>3. 2 * v + o \in 0..p - 1
      BY <1>1, <1>3, <1>5
    <3> DEFINE x == 2 * v + o
    <3> HIDE DEF x
    <3>4. (p * q + x) % p = x
      BY <1>1, <1>2, <3>3, Division DEF x
    <3> QED BY <3>2, <3>4 DEF x
  <2>2. CASE ~(h + w < Half)
    <3>1. v = h + w - Half
      BY <2>2 DEF Rotated
    <3> HIDE DEF v
    <3>2. p * (q + 1) = p * q + p /\ q + 1 \in Int
      BY <1>1, <1>2
    <3>3. n = p * (q + 1) + (2 * v + o)
      BY <1>1, <1>2, <1>3, <3>1, <3>2
    <3>4. 2 * v + o \in 0..p - 1
      BY <1>1, <1>3, <1>5
    <3> DEFINE x == 2 * v + o
               q1 == q + 1
    <3> HIDE DEF x, q1
    <3>5. (p * q1 + x) % p = x
      BY <1>1, <3>2, <3>4, Division DEF x, q1
    <3> QED BY <3>3, <3>5 DEF x, q1
  <2> QED BY <2>1, <2>2
<1>7. n \in Nat
  BY <1>1
<1>8. (n % FlashSize) % p = 2 * v + o
  BY <1>6, <1>7, WithinFlash DEF p
<1> HIDE DEF v
<1>9. (2 * v + o) \div 2 = v
  BY <1>3, <1>5
<1> QED BY <1>4, <1>8, <1>9 DEF WordOf, p, v

(* The bytes of that word, as offsets in the page.                         *)
LEMMA ByteGoesTo ==
  ASSUME NEW h \in Word, NEW w \in Word, NEW j \in 0..1
  PROVE  (2 * h + (2 * w + j)) % PageSize = 2 * Rotated(h, w) + j
<1> DEFINE p == PageSize
<1>1. p \in Nat \ {0} /\ Half \in Nat \ {0} /\ p = 2 * Half
      /\ h \in 0..Half - 1 /\ w \in 0..Half - 1
  BY Pages
<1> HIDE DEF p
<1>2. CASE h + w < Half
  <2>1. Rotated(h, w) = h + w
    BY <1>2 DEF Rotated
  <2>2. 2 * h + (2 * w + j) = p * 0 + (2 * (h + w) + j)
    BY <1>1
  <2>3. 2 * (h + w) + j \in 0..p - 1
    BY <1>1, <1>2
  <2> DEFINE x == 2 * (h + w) + j
             k == 0
  <2>4. x \in 0..p - 1 /\ k \in Int
    BY <2>3
  <2> HIDE DEF x, k
  <2>5. (p * k + x) % p = x
    BY <1>1, <2>4, Division
  <2> QED BY <2>1, <2>2, <2>5 DEF p, x, k
<1>3. CASE ~(h + w < Half)
  <2>1. Rotated(h, w) = h + w - Half
    BY <1>3 DEF Rotated
  <2>2. 2 * h + (2 * w + j) = p * 1 + (2 * (h + w - Half) + j)
    BY <1>1
  <2>3. 2 * (h + w - Half) + j \in 0..p - 1
    BY <1>1, <1>3
  <2> DEFINE x == 2 * (h + w - Half) + j
             k == 1
  <2>4. x \in 0..p - 1 /\ k \in Int
    BY <2>3
  <2> HIDE DEF x, k
  <2>5. (p * k + x) % p = x
    BY <1>1, <2>4, Division
  <2> QED BY <2>1, <2>2, <2>5 DEF p, x, k
<1> QED BY <1>2, <1>3

(* No two words of the buffer go to the same word of the page.             *)
LEMMA RotatedOnce ==
  ASSUME NEW h \in Word
  PROVE  /\ \A w \in Word : Rotated(h, w) \in Word
         /\ \A w, v \in Word : Rotated(h, w) = Rotated(h, v) => w = v
BY Pages DEF Rotated

(* An offset in the page of an address is an address of that page.         *)
LEMMA OffsetInPage ==
  ASSUME NEW a \in Address, NEW off \in 0..PageSize - 1
  PROVE  /\ PageOf(a) * PageSize + off \in Address
         /\ PageOf(PageOf(a) * PageSize + off) = PageOf(a)
         /\ (PageOf(a) * PageSize + off) % PageSize = off
<1> DEFINE p == PageSize
           m == FlashSize \div PageSize
           q == a \div p
           r == a % p
<1>1. p \in Nat \ {0} /\ m \in Nat /\ FlashSize = p * m /\ a \in Nat /\ a < FlashSize
  BY Pages, Addresses DEF Address
<1> HIDE DEF p, m
<1>2. a = p * q + r /\ q \in Nat /\ r \in 0..p - 1
  BY <1>1
<1>3. PageOf(a) = q
  BY DEF PageOf, p
<1> HIDE DEF q, r
<1>4. q < m
  <2>1. p * q < p * m
    BY <1>1, <1>2
  <2> QED BY <1>1, <1>2, <2>1
<1>5. p * q + p <= FlashSize
  <2>1. p * (q + 1) <= p * m
    BY <1>1, <1>2, <1>4
  <2> QED BY <1>1, <1>2, <2>1
<1>6. off \in 0..p - 1
  BY DEF p
<1>7. q * p = p * q /\ p * q \in Nat
  BY <1>1, <1>2
<1>8. (p * q + off) % p = off /\ (p * q + off) \div p = q
  BY <1>1, <1>2, <1>6, Division
<1>9. p * q + off \in Address
  BY <1>1, <1>5, <1>6, <1>7 DEF Address
<1> QED BY <1>3, <1>7, <1>8, <1>9 DEF PageOf, p

-----------------------------------------------------------------------------
(* The page in hand, as far as it has come.                                *)
Ready == \A b \in Address : PageOf(b) = PageOf(address) => flash[b] = Blank

BuffHolds == \A i \in 0..PageSize - 1 : i < message[2] => buff[i] = message[1][i]

Target(w) == Rotated(WordOf(address), w)

WordPlaced(w) == /\ page_buff[2 * Target(w)] = buff[2 * w]
                 /\ page_buff[2 * Target(w) + 1] = buff[2 * w + 1]

(* The inductive invariant: the page is blank from the erase on, the bytes  *)
(* of the host are in buff, the words before `word' are in the page buffer, *)
(* each in its place and none other, unless a command was not taken.       *)
PageInv ==
  /\ pc = "data" => filled = {} /\ (~Rww(address) => ~spm_busy)
  /\ pc = "data" /\ ~blocked /\ Rww(address) => Ready
  /\ pc = "wait" => filled = {}
  /\ pc \in {"fill", "write"} => ~spm_busy
  /\ pc \in {"wait", "fill", "write"} /\ ~blocked => Ready /\ BuffHolds
  /\ pc = "fill" /\ ~blocked =>
       /\ \A v \in filled : \E w \in 0..word - 1 : v = Target(w)
       /\ \A w \in 0..word - 1 : WordPlaced(w)
  /\ pc = "write" /\ ~blocked => \A w \in Word : WordPlaced(w)
  /\ pc = "written" /\ ~blocked => HoldsMessage

(* An erase that is taken makes the page ready.                            *)
LEMMA ErasedReady ==
  ASSUME Taken, PageErase(address), UNCHANGED address
  PROVE  Ready' /\ UNCHANGED <<page_buff, filled>>
BY DEF PageErase, Ready

(* A page fill puts one word in its place and leaves the others in theirs. *)
LEMMA FillPlaces ==
  ASSUME TypeOK, PageInv, FillsWord, ~blocked'
  PROVE  /\ UNCHANGED <<flash, spm_busy, address, buff, message>>
         /\ ~blocked
         /\ filled' = filled \cup {Target(word)}
         /\ \A w \in 0..word : WordPlaced(w)'
<1>1. /\ pc = "fill" /\ ~blocked /\ ~eeprom_busy /\ ~spm_busy
      /\ PageFill((address + 2 * word) % FlashSize, buff[2 * word], buff[2 * word + 1])
      /\ UNCHANGED <<address, buff, message>>
  BY DEF FillsWord, Noted, PageInv
<1>2. address \in Address /\ word \in Word /\ WordOf(address) \in Word
      /\ page_buff \in [0..PageSize - 1 -> Byte]
  BY TypeParts, Addresses DEF ProgTyped, SpmTyped
<1>3. WordOf((address + 2 * word) % FlashSize) = Target(word)
  BY <1>2, FillGoesTo DEF Target
<1>4. /\ \A w \in Word : Target(w) \in Word
      /\ \A w, v \in Word : Target(w) = Target(v) => w = v
  BY <1>2, RotatedOnce DEF Target
<1>5. \A w \in 0..word - 1 : w \in Word /\ w # word
  BY <1>2, Pages
<1>6. Target(word) \notin filled
  BY <1>1, <1>2, <1>4, <1>5 DEF PageInv
<1>7. /\ page_buff' = [i \in 0..PageSize - 1 |->
                          IF i = 2 * Target(word) THEN buff[2 * word]
                          ELSE IF i = 2 * Target(word) + 1 THEN buff[2 * word + 1]
                          ELSE page_buff[i]]
      /\ filled' = filled \cup {Target(word)}
      /\ UNCHANGED <<flash, spm_busy>>
  BY <1>1, <1>3, <1>6 DEF PageFill, Taken
<1>8. \A w \in Word : Target(w)' = Target(w)
  BY <1>1 DEF Target
<1>9. \A v \in Word : v \in Int /\ 2 * v \in 0..PageSize - 1 /\ 2 * v + 1 \in 0..PageSize - 1
  BY Addresses
<1>10. ASSUME NEW w \in Word, w = word
       PROVE  WordPlaced(w)'
  <2>1. /\ page_buff'[2 * Target(w)] = buff[2 * w]
        /\ page_buff'[2 * Target(w) + 1] = buff[2 * w + 1]
    BY <1>2, <1>4, <1>7, <1>9, <1>10
  <2> QED BY <1>1, <1>8, <2>1 DEF WordPlaced
<1>11. ASSUME NEW w \in 0..word - 1
       PROVE  WordPlaced(w)'
  <2>1. w \in Word /\ Target(w) # Target(word)
    BY <1>2, <1>4, <1>5
  <2> DEFINE t == Target(w)
             u == Target(word)
  <2>2. t \in Int /\ u \in Int /\ t # u
        /\ 2 * t \in 0..PageSize - 1 /\ 2 * t + 1 \in 0..PageSize - 1
    BY <1>2, <1>4, <1>9, <2>1
  <2> HIDE DEF t, u
  <2>3. 2 * t # 2 * u /\ 2 * t # 2 * u + 1 /\ 2 * t + 1 # 2 * u /\ 2 * t + 1 # 2 * u + 1
    BY <2>2
  <2>4. page_buff'[2 * t] = page_buff[2 * t] /\ page_buff'[2 * t + 1] = page_buff[2 * t + 1]
    BY <1>7, <2>2, <2>3 DEF u
  <2>5. WordPlaced(w)
    BY <1>1 DEF PageInv
  <2>6. page_buff'[2 * t] = buff[2 * w] /\ page_buff'[2 * t + 1] = buff[2 * w + 1]
    BY <2>4, <2>5 DEF WordPlaced, t
  <2> QED BY <1>1, <1>8, <2>1, <2>6 DEF WordPlaced, t
<1>12. \A w \in 0..word : (w \in Word /\ w = word) \/ w \in 0..word - 1
  BY <1>2, Pages
<1>13. \A w \in 0..word : WordPlaced(w)'
  BY <1>10, <1>11, <1>12
<1> QED BY <1>1, <1>7, <1>13

(* The write of a full page buffer to a blank page leaves what the host     *)
(* sent.                                                                   *)
LEMMA WrittenHolds ==
  ASSUME TypeOK, PageInv, WritesPage, ~blocked'
  PROVE  HoldsMessage'
<1>1. /\ pc = "write" /\ ~blocked /\ ~eeprom_busy /\ ~spm_busy
      /\ PageWrite(address)
      /\ UNCHANGED <<address, buff, message>>
  BY DEF WritesPage, Noted, PageInv
<1>2. /\ address \in Address /\ WordOf(address) \in Word
      /\ \A w \in Word : WordPlaced(w)
      /\ Ready /\ BuffHolds
  BY <1>1, TypeParts, Addresses DEF ProgTyped, PageInv
<1>3. \A b \in Address : PageOf(b) = PageOf(address) =>
        flash'[b] = page_buff[b % PageSize]
  BY <1>1, <1>2 DEF PageWrite, Taken, Ready, Spoilt
<1>4. ASSUME NEW i \in 0..PageSize - 1, i < message[2]
      PROVE  flash'[PageOf(address) * PageSize + ((2 * WordOf(address) + i) % PageSize)]
               = message[1][i]
  <2>1. PICK w \in Word, j \in 0..1 : i = 2 * w + j
    <3> DEFINE v == i \div 2
               e == i % 2
    <3>1. i = 2 * v + e /\ v \in 0..Half - 1 /\ e \in 0..1
      BY Pages
    <3> QED BY <3>1, Pages
  <2> DEFINE t == Target(w)
             off == 2 * t + j
  <2>2. (2 * WordOf(address) + i) % PageSize = off
    BY <1>2, <2>1, ByteGoesTo DEF Target
  <2>3. t \in Word
    BY <1>2, RotatedOnce DEF Target
  <2> HIDE DEF t
  <2>4. off \in 0..PageSize - 1
    BY <2>3, Pages
  <2>5. page_buff[off] = buff[i]
    <3>1. page_buff[2 * t] = buff[2 * w] /\ page_buff[2 * t + 1] = buff[2 * w + 1]
      BY <1>2 DEF WordPlaced, t
    <3>2. 2 * t \in Int /\ 2 * w \in Int
      BY <2>3, Pages
    <3>3. CASE j = 0
      BY <2>1, <3>1, <3>2, <3>3
    <3>4. CASE j = 1
      BY <2>1, <3>1, <3>2, <3>4
    <3>5. j = 0 \/ j = 1
      OBVIOUS
    <3> QED BY <3>3, <3>4, <3>5
  <2> HIDE DEF off
  <2> DEFINE b == PageOf(address) * PageSize + off
  <2>6. b \in Address /\ PageOf(b) = PageOf(address) /\ b % PageSize = off
    BY <1>2, <2>4, OffsetInPage
  <2> HIDE DEF b
  <2>7. flash'[b] = page_buff[off]
    BY <1>3, <2>6
  <2>8. buff[i] = message[1][i]
    BY <1>2, <1>4 DEF BuffHolds
  <2> QED BY <2>2, <2>5, <2>7, <2>8 DEF b
<1> QED BY <1>1, <1>4 DEF HoldsMessage

(* A step keeps the invariant of the page.                                 *)
LEMMA PageStep ==
  ASSUME TypeOK, FlashInv, PageInv, [Next]_vars
  PROVE  PageInv'
<1>0. /\ address \in Address /\ word \in Word
      /\ eeprom_busy \in BOOLEAN /\ spm_busy \in BOOLEAN
  BY TypeParts DEF ProgTyped, FlagTyped, SpmTyped
<1>1. CASE \/ Watchdog \/ PowerCycle \/ AppResets
           \/ JumpCheck \/ MainStarts \/ ReadsUdr \/ BlePolled \/ DfuBegins
           \/ Enters \/ Constant \/ LoadAddress \/ ReadPage \/ Unknown \/ LeaveProgmode
           \/ PageDone
  <2>1. pc' \notin {"data", "wait", "fill", "write", "written"}
    BY <1>1 DEF Watchdog, PowerCycle, AppResets, Restarted, JumpCheck, MainStarts,
       ReadsUdr, BlePolled, DfuBegins, Enters, Constant, LoadAddress, ReadPage, Unknown,
       LeaveProgmode, verifySpace, PageDone
  <2> QED BY <2>1 DEF PageInv
<1>2. CASE ProgPage
  <2>1. pc = "get" /\ pc' = "data" /\ Idle /\ UNCHANGED address
    BY <1>2 DEF ProgPage, Receives, FlashInv
  <2>2. CASE Rww(address)
    <3>1. PageErase(address) /\ blocked' = eeprom_busy
      BY <1>2, <2>2 DEF ProgPage
    <3>2. filled' = {}
      BY <2>1, <3>1 DEF PageErase, Idle, spmVars
    <3>3. ~blocked' => Ready'
      BY <2>1, <3>1, ErasedReady DEF Taken, Idle
    <3>4. Rww(address)'
      BY <2>1, <2>2 DEF Rww
    <3> QED BY <2>1, <3>2, <3>3, <3>4 DEF PageInv
  <2>3. CASE ~Rww(address)
    <3>1. UNCHANGED spmVars
      BY <1>2, <2>3 DEF ProgPage, NoFlash
    <3>2. ~Rww(address)' /\ filled' = {} /\ ~spm_busy'
      BY <2>1, <2>3, <3>1 DEF Rww, Idle, spmVars
    <3> QED BY <2>1, <3>2 DEF PageInv
  <2> QED BY <2>2, <2>3
<1>3. CASE PageArrives
  <2>1. /\ pc = "data" /\ pc' \in {"wait", "spin"}
        /\ UNCHANGED <<address, message>>
        /\ buff' = [i \in 0..PageSize - 1 |->
                       IF i < message[2] THEN message[1][i] ELSE buff[i]]
        /\ filled = {}
    BY <1>3 DEF PageArrives, verifySpace, PageInv
  <2>2. BuffHolds'
    BY <2>1 DEF BuffHolds
  <2>3. filled' = {}
    BY <1>3, <2>1 DEF PageArrives, NoFlash, PageErase, spmVars
  <2>4. ~blocked' => Ready'
    <3>1. CASE Rww(address)
      BY <1>3, <2>1, <3>1 DEF PageArrives, NoFlash, spmVars, PageInv, Ready
    <3>2. CASE ~Rww(address)
      <4>1. PageErase(address) /\ (~blocked' => ~eeprom_busy) /\ ~spm_busy
        BY <1>3, <2>1, <3>2 DEF PageArrives, Noted, PageInv
      <4> QED BY <2>1, <4>1, ErasedReady DEF Taken
    <3> QED BY <3>1, <3>2
  <2> QED BY <2>1, <2>2, <2>3, <2>4 DEF PageInv
<1>4. CASE BusyWaited
  <2>1. /\ pc = "wait" /\ pc' = "fill" /\ ~spm_busy /\ word' = 0
        /\ UNCHANGED <<spmVars, address, buff, message, blocked>>
    BY <1>4 DEF BusyWaited, MayFill, SpmIdle, NoFlash
  <2>2. ~blocked' => Ready' /\ BuffHolds'
    BY <2>1 DEF PageInv, Ready, BuffHolds, spmVars
  <2>3. filled' = {} /\ ~spm_busy'
    BY <2>1 DEF PageInv, spmVars
  <2>4. 0..word' - 1 = {}
    BY <2>1
  <2> QED BY <2>1, <2>2, <2>3, <2>4 DEF PageInv
<1>5. CASE FillsWord
  <2>1. /\ pc = "fill"
        /\ word' = IF More(word) THEN word + 1 ELSE 0
        /\ pc' = IF More(word) THEN "fill" ELSE "write"
    BY <1>5 DEF FillsWord
  <2>2. ~spm_busy'
    BY <1>5, <2>1 DEF FillsWord, PageFill, spmVars, PageInv
  <2>3. CASE blocked'
    BY <2>1, <2>2, <2>3 DEF PageInv
  <2>4. CASE ~blocked'
    <3>1. /\ UNCHANGED <<flash, address, buff, message>>
          /\ ~blocked
          /\ filled' = filled \cup {Target(word)}
          /\ \A w \in 0..word : WordPlaced(w)'
      BY <1>5, <2>4, FillPlaces
    <3>2. Ready' /\ BuffHolds'
      BY <2>1, <3>1 DEF PageInv, Ready, BuffHolds
    <3>3. CASE More(word)
      <4>1. word' = word + 1 /\ pc' = "fill" /\ word' - 1 = word
        BY <1>0, <2>1, <3>3, Addresses
      <4>2. \A w : Target(w)' = Target(w)
        BY <3>1 DEF Target
      <4>3. \A v \in filled' : \E w \in 0..word : v = Target(w)
        <5>1. word \in 0..word /\ 0..word - 1 \subseteq 0..word
          BY <1>0, Pages
        <5> QED BY <2>1, <3>1, <5>1 DEF PageInv
      <4>4. \A v \in filled' : \E w \in 0..word' - 1 : v = Target(w)'
        BY <4>1, <4>2, <4>3
      <4> QED BY <2>2, <3>1, <3>2, <4>1, <4>4 DEF PageInv
    <3>4. CASE ~More(word)
      <4>1. pc' = "write" /\ \A w \in Word : w \in 0..word
        BY <1>0, <2>1, <3>4, Pages DEF More
      <4> QED BY <2>2, <3>1, <3>2, <4>1 DEF PageInv
    <3> QED BY <3>3, <3>4
  <2> QED BY <2>3, <2>4
<1>6. CASE WritesPage
  <2>1. pc' = "written" /\ (~blocked' => HoldsMessage')
    BY <1>6, WrittenHolds DEF WritesPage
  <2> QED BY <2>1 DEF PageInv
<1>7. CASE SpmEnds \/ EepromEnds \/ UNCHANGED vars
  <2>1. /\ UNCHANGED <<pc, flash, page_buff, filled, address, word, buff, message, blocked>>
        /\ spm_busy' = FALSE \/ spm_busy' = spm_busy
    BY <1>7 DEF SpmEnds, SpmDone, EepromEnds, spmVars, progVars, vars
  <2>2. /\ Rww(address)' = Rww(address) /\ Ready' = Ready /\ BuffHolds' = BuffHolds
        /\ HoldsMessage' = HoldsMessage
        /\ \A w : Target(w)' = Target(w) /\ WordPlaced(w)' = WordPlaced(w)
    BY <2>1 DEF Rww, Ready, BuffHolds, HoldsMessage, Target, WordPlaced
  <2> QED BY <2>1, <2>2 DEF PageInv
<1> QED
  BY <1>1, <1>2, <1>3, <1>4, <1>5, <1>6, <1>7 DEF Next, Receiving, Computing

(* A page the host is told is programmed holds what it sent, round the page *)
(* from the word of any address, for every size of page and flash and       *)
(* whatever came before, unless a write to EEPROM was in the way            *)
(* (uart_update, boot.h).                                                  *)
THEOREM PageHolds == Spec => AcknowledgedPageHolds
<1>1. Init => PageInv /\ FlashInv
  BY DEF Init, SpmInit, PageInv, Idle, FlashInv
<1>2. TypeOK /\ FlashInv /\ [Next]_vars => FlashInv'
  BY FlashStep
<1>3. TypeOK /\ FlashInv /\ PageInv /\ [Next]_vars => PageInv'
  BY PageStep
<1>4. PageInv /\ [Next]_vars =>
        [pc = "written" /\ pc' = "get" /\ ~blocked /\ ~eeprom_busy => HoldsMessage]_vars
  BY DEF PageInv
<1> QED BY <1>1, <1>2, <1>3, <1>4, UartTypeCorrect, PTL DEF Spec, AcknowledgedPageHolds
=============================================================================
