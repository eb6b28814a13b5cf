--------------------------- MODULE StartupProofs ---------------------------
(***************************************************************************)
(* Proofs about Renewal and Startup, for all leases and times of the code  *)
(* that the assumptions admit, all configurations and all tokens.          *)
(*                                                                         *)
(* Late bounds what is left of the token from above: when the time for     *)
(* trying is over no more than the reserve is left, which is less than the *)
(* minute that follows.  Early bounds what is left of either lease from    *)
(* below: the answer of the next call comes in time, or Vault has been up  *)
(* for so short a time that the last sleep can be blamed.                  *)
(*                                                                         *)
(* A process does nothing to its leases that Renewal does not describe, so *)
(* what is proved of Renewal holds of it.  Checked says what each stage    *)
(* has found to be true before Run goes on.                                *)
(***************************************************************************)
EXTENDS Startup, TLAPS

\* What holds of the goroutines, of Vault and of the token before all else.
Shape ==
  /\ \A k \in Kinds :
       /\ answer[k] # 0 => pc[k] = "call"
       /\ pc[k] = "wait" => elapsed[k] = 0
       /\ pc[k] = "call" => due[k] <= Delay
       /\ pc[k] = "off" => ~gaveUp[k]
  /\ ~up => stable = 0
  /\ pc["token"] = "off" => pc["cert"] = "off" /\ left["token"] = 0

\* A goroutine that has a call before it whose answer will tell.
Asking(k) == pc[k] = "try" \/ (pc[k] = "call" /\ answer[k] = 0)

\* How much of the token can be left, if its goroutine knows the lease.
LateToken ==
  /\ pc["token"] = "wait" =>
       IF gaveUp["token"]
       THEN left["token"] <= due["token"]
       ELSE left["token"] <= due["token"] + span["token"] + Reserve + 1
  /\ Asking("token") =>
       IF gaveUp["token"]
       THEN left["token"] = 0
       ELSE left["token"] + elapsed["token"] <= span["token"] + Reserve + 1
  /\ answer["token"] # 0 => left["token"] <= answer["token"]

Late == ~unheard => LateToken

\* The time to the answer of the current or next call, from a Vault that is up.
Need(k) == IF pc[k] = "call" THEN due[k] ELSE due[k] + Delay

\* There is nothing to renew, or nothing to renew it with.
Excused(k) == IF k = "token" THEN capped ELSE ~TokenLives

\* The lease of k lasts so long, or Vault has been up for less than that, a
\* sleep before it included.
InTime(k) == Need(k) < left[k] \/ stable + Need(k) < Long

Early ==
  \A k \in Kinds :
    Renewing(k) /\ left[k] > 0 /\ ~gaveUp[k] /\ ~tight[k] /\ ~Excused(k) => InTime(k)

IInv == TypeOK /\ Shape /\ Late /\ Early

-----------------------------------------------------------------------------
\* Half of a lease, the time for trying and the reserve make up the lease.
LEMMA Halves ==
  ASSUME NEW ttl \in Nat
  PROVE  /\ ttl \div 2 \in Nat
         /\ MaxElapsedTime(ttl \div 2) \in Nat
         /\ ttl <= ttl \div 2 + MaxElapsedTime(ttl \div 2) + Reserve + 1
<1> USE RenewalAssumption
<1> DEFINE half == ttl \div 2
<1>1. half \in Nat /\ ttl <= 2 * half + 1
  OBVIOUS
<1> HIDE DEF half
<1>2. MaxElapsedTime(half) \in Nat /\ half <= MaxElapsedTime(half) + Reserve
  BY <1>1 DEF MaxElapsedTime
<1>3. ttl <= half + MaxElapsedTime(half) + Reserve + 1
  BY <1>1, <1>2
<1>4. QED BY <1>1, <1>2, <1>3 DEF half

\* A minute is more than the reserve.
LEMMA MinuteIsEnough == Minute \in Nat /\ MaxElapsedTime(Minute) \in Nat
  BY RenewalAssumption DEF MaxElapsedTime

\* The numbers of TypeOK, one by one.
LEMMA Numbers ==
  ASSUME TypeOK, NEW k \in Kinds
  PROVE  /\ pc[k] \in States
         /\ due[k] \in Nat /\ span[k] \in Nat /\ elapsed[k] \in Nat
         /\ left[k] \in Nat /\ answer[k] \in Nat /\ stable \in Nat /\ strays \in Nat
         /\ gaveUp[k] \in BOOLEAN /\ tight[k] \in BOOLEAN
         /\ up \in BOOLEAN /\ capped \in BOOLEAN /\ unheard \in BOOLEAN
         /\ left["token"] \in Nat
  BY RenewalAssumption DEF TypeOK, Kinds, Long

\* Init establishes the invariant.
LEMMA InitIInv == Init => IInv
<1> SUFFICES ASSUME Init PROVE IInv
  OBVIOUS
<1> USE RenewalAssumption
<1>1. TypeOK
  <2>1. 0 \in Nat /\ 0 \in 0..MaxStrays /\ Long \in 0..Long
    BY DEF Long
  <2> QED BY <2>1 DEF Init, TypeOK, States
<1>2. Shape
  BY DEF Init, Shape, Kinds
<1>3. Late
  BY DEF Init, Late, LateToken, Asking, Kinds
<1>4. Early
  BY DEF Init, Early, Renewing
<1> QED BY <1>1, <1>2, <1>3, <1>4 DEF IInv

-----------------------------------------------------------------------------
\* Time passes.
LEMMA TickKeeps == IInv /\ Tick => IInv'
<1> SUFFICES ASSUME IInv, Tick PROVE IInv'
  OBVIOUS
<1> USE RenewalAssumption DEF IInv
<1>1. ASSUME NEW k \in Kinds
      PROVE  /\ Renewing(k) => due[k] > 0 \/ Hangs(k)
             /\ due'[k] = IF Hangs(k) THEN due[k] ELSE Pred(due[k])
             /\ left'[k] = Pred(left[k])
             /\ elapsed'[k] = IF pc[k] \in {"try", "call"} /\ elapsed[k] <= span[k]
                              THEN elapsed[k] + 1 ELSE elapsed[k]
             /\ answer'[k] = IF k = "cert" THEN Pred(answer[k]) ELSE answer[k]
             /\ pc'[k] = pc[k] /\ span'[k] = span[k]
             /\ gaveUp'[k] = gaveUp[k] /\ tight'[k] = tight[k]
  BY <1>1 DEF Tick, TypeOK
<1>2. /\ stable' = IF up /\ stable < Long THEN stable + 1 ELSE stable
      /\ UNCHANGED <<up, capped, unheard>>
  BY DEF Tick
<1>3. TypeOK'
  <2>1. \A n \in Nat : Pred(n) \in Nat
    BY DEF Pred
  <2>2. due' \in [Kinds -> Nat] /\ left' \in [Kinds -> Nat] /\ answer' \in [Kinds -> Nat]
    BY <2>1 DEF Tick, TypeOK, Kinds
  <2>3. elapsed' \in [Kinds -> Nat]
    BY DEF Tick, TypeOK
  <2>4. stable' \in 0..Long
    BY <1>2 DEF TypeOK, Long
  <2> QED BY <2>2, <2>3, <2>4 DEF Tick, TypeOK
<1>4. Shape'
  <2>1. ASSUME NEW k \in Kinds
        PROVE  /\ answer'[k] # 0 => pc'[k] = "call"
               /\ pc'[k] = "wait" => elapsed'[k] = 0
               /\ pc'[k] = "call" => due'[k] <= Delay
               /\ pc'[k] = "off" => ~gaveUp'[k]
    BY <1>1, <2>1, Numbers DEF Shape, Pred
  <2>2. pc'["token"] = "off" => pc'["cert"] = "off" /\ left'["token"] = 0
    BY <1>1 DEF Shape, Pred, Kinds
  <2> QED BY <1>2, <2>1, <2>2 DEF Shape
<1>5. Late'
  <2> SUFFICES ASSUME ~unheard PROVE LateToken'
    BY <1>2 DEF Late
  <2> DEFINE t == "token"
  <2>1. LateToken /\ t \in Kinds
    BY DEF Late, Kinds
  <2>2. /\ pc[t] = "wait" => due[t] > 0 /\ due'[t] = due[t] - 1
        /\ pc'[t] = pc[t] /\ span'[t] = span[t] /\ gaveUp'[t] = gaveUp[t] /\ answer'[t] = answer[t]
        /\ left'[t] = Pred(left[t])
        /\ pc[t] \in {"try", "call"} =>
             elapsed'[t] = IF elapsed[t] <= span[t] THEN elapsed[t] + 1 ELSE elapsed[t]
    BY <1>1, <2>1, Numbers DEF Pred, Renewing, Hangs
  <2>3. due[t] \in Nat /\ span[t] \in Nat /\ elapsed[t] \in Nat /\ left[t] \in Nat /\ answer[t] \in Nat
    BY <2>1, Numbers
  <2> QED BY <2>1, <2>2, <2>3 DEF LateToken, Asking, Pred
<1>6. Early'
  <2> SUFFICES ASSUME NEW k \in Kinds, Renewing(k)', left'[k] > 0, ~gaveUp'[k], ~tight'[k],
                      ~Excused(k)'
               PROVE  InTime(k)'
    BY DEF Early
  <2>1. left[k] > 0 /\ left'[k] = left[k] - 1
    BY <1>1, Numbers DEF Pred
  <2>2. ~Excused(k)
    BY <1>1, <1>2, Numbers DEF Excused, TokenLives, Pred, Kinds
  <2>3. InTime(k)
    BY <1>1, <2>1, <2>2 DEF Early, Renewing
  <2>4. CASE Hangs(k)
    BY <1>1, <1>2, <2>4, Numbers DEF InTime, Need, Hangs, Shape, Long
  <2>5. CASE ~Hangs(k)
    <3>1. due[k] > 0 /\ due'[k] = due[k] - 1
      BY <1>1, <2>5, Numbers DEF Pred, Renewing
    <3> QED BY <1>1, <1>2, <2>1, <2>3, <3>1, Numbers DEF InTime, Need, Long
  <2> QED BY <2>4, <2>5
<1> QED BY <1>3, <1>4, <1>5, <1>6

\* The environment's other steps.
LEMMA VaultKeeps ==
  ASSUME IInv, Vault
  PROVE  IInv'
<1> USE RenewalAssumption DEF IInv
<1>1. CASE Switch
  <2>1. /\ up' = ~up /\ stable' = 0
        /\ due' = [k \in Kinds |-> IF pc[k] = "call" THEN Delay ELSE due[k]]
        /\ UNCHANGED <<pc, span, elapsed, left, answer, strays, capped, gaveUp, tight, unheard,
                       delivered, shutdown>>
    BY <1>1 DEF Switch
  <2>2. 0 \in 0..Long /\ up' \in BOOLEAN
    BY <2>1 DEF Long
  <2>3. TypeOK'
    BY <2>1, <2>2 DEF TypeOK
  <2>4. Shape'
    BY <2>1 DEF Shape
  <2>5. Late'
    BY <2>1 DEF Late, LateToken, Asking, Kinds
  <2>6. Early'
    <3> SUFFICES ASSUME NEW k \in Kinds, Renewing(k)', left'[k] > 0, ~gaveUp'[k], ~tight'[k],
                        ~Excused(k)'
                 PROVE  InTime(k)'
      BY DEF Early
    <3>1. InTime(k)
      BY <2>1 DEF Early, Renewing, Excused, TokenLives
    <3> QED BY <2>1, <3>1, Numbers DEF InTime, Need, Long
  <2> QED BY <2>3, <2>4, <2>5, <2>6
<1>2. CASE Cap
  <2>1. /\ capped' = TRUE
        /\ left' \in {left, [left EXCEPT !["token"] = 0]}
        /\ left["token"] > 0
        /\ UNCHANGED <<pc, due, span, elapsed, answer, strays, up, gaveUp, tight, unheard, stable,
                       delivered, shutdown>>
    BY <1>2 DEF Cap, TokenLives, timerVars, historyVars
  <2>2. \/ left' = left
        \/ left'["token"] = 0 /\ left'["cert"] = left["cert"]
    BY <2>1 DEF TypeOK, Kinds
  <2>3. TypeOK'
    BY <2>1 DEF TypeOK
  <2>4. Shape'
    BY <2>1, <2>2, Numbers DEF Shape, Kinds
  <2>5. Late'
    BY <2>1, <2>2, Numbers DEF Late, LateToken, Asking, Kinds
  <2>6. Early'
    BY <2>1, <2>2 DEF Early, Renewing, Excused, TokenLives, InTime, Need, Kinds
  <2> QED BY <2>3, <2>4, <2>5, <2>6
<1>3. ASSUME NEW ttl \in TTLs, PerformStray(ttl)
      PROVE  IInv'
  <2>1. /\ left["token"] > 0 /\ ~capped /\ strays > 0
        /\ strays' = strays - 1
        /\ left' = [left EXCEPT !["token"] = ttl]
        /\ tight' = [tight EXCEPT !["token"] = @ \/ ttl < left["token"]]
        /\ unheard' = TRUE
        /\ UNCHANGED <<pc, due, span, elapsed, answer, up, capped, gaveUp, stable, delivered,
                       shutdown>>
    BY <1>3 DEF PerformStray, TokenLives, timerVars
  <2>2. ttl \in Nat /\ ttl > 0
    BY <1>3
  <2>3. left'["token"] = ttl /\ left'["cert"] = left["cert"]
    BY <2>1 DEF TypeOK, Kinds
  <2>4. tight'["cert"] = tight["cert"] /\ (~tight'["token"] => ~tight["token"] /\ left["token"] <= ttl)
    <3>1. tight'["cert"] = tight["cert"] /\ tight'["token"] = (tight["token"] \/ ttl < left["token"])
      BY <2>1 DEF TypeOK, Kinds
    <3>2. left["token"] \in Nat
      BY DEF TypeOK, Kinds
    <3>3. ~tight'["token"] => ~tight["token"] /\ ~(ttl < left["token"])
      BY ONLY <3>1, Zenon
    <3> QED BY <2>2, <3>1, <3>2, <3>3
  <2>5. TypeOK'
    <3>1. strays' \in 0..MaxStrays
      BY <2>1 DEF TypeOK
    <3>2. (tight["token"] \/ ttl < left["token"]) \in BOOLEAN
      OBVIOUS
    <3> QED BY <2>1, <2>2, <3>1, <3>2 DEF TypeOK
  <2>6. Shape'
    BY <2>1, <2>3, Numbers DEF Shape, Kinds
  <2>7. Late'
    BY <2>1 DEF Late
  <2>8. Early'
    <3> SUFFICES ASSUME NEW k \in Kinds, Renewing(k)', left'[k] > 0, ~gaveUp'[k], ~tight'[k],
                        ~Excused(k)'
                 PROVE  InTime(k)'
      BY DEF Early
    <3>1. InTime(k) /\ left[k] <= left'[k]
      BY <2>1, <2>2, <2>3, <2>4, Numbers DEF Early, Renewing, Excused, TokenLives, Kinds
    <3> QED BY <2>1, <2>2, <2>3, <3>1, Numbers DEF InTime, Need, Kinds
  <2> QED BY <2>5, <2>6, <2>7, <2>8
<1> QED BY <1>1, <1>2, <1>3 DEF Vault

\* The process ends, or a goroutine.
LEMMA EndKeeps ==
  ASSUME IInv, Exit \/ \E k \in Kinds : Stop(k)
  PROVE  IInv'
<1> USE DEF IInv
<1>1. CASE Exit
  <2>1. /\ pc' = [k \in Kinds |-> "stopped"]
        /\ answer' = [k \in Kinds |-> 0]
        /\ UNCHANGED <<left, strays, up, capped, gaveUp, tight, unheard, stable, delivered, shutdown>>
    BY <1>1 DEF Exit, historyVars
  <2>2. TypeOK'
    BY <1>1, <2>1 DEF Exit, TypeOK, States
  <2>3. Shape'
    BY <2>1 DEF Shape, Kinds
  <2>4. Late'
    BY <2>1 DEF Late, LateToken, Asking, Kinds
  <2>5. Early'
    BY <2>1 DEF Early, Renewing
  <2> QED BY <2>2, <2>3, <2>4, <2>5
<1>2. ASSUME NEW k \in Kinds, Stop(k)
      PROVE  IInv'
  <2>1. /\ pc[k] = "wait"
        /\ pc' = [pc EXCEPT ![k] = "stopped"]
        /\ UNCHANGED <<due, span, elapsed, left, answer, strays, up, capped, gaveUp, tight, unheard,
                       stable, delivered, shutdown>>
    BY <1>2 DEF Stop, vaultVars, historyVars
  <2>2. \A j \in Kinds : pc'[j] = IF j = k THEN "stopped" ELSE pc[j]
    BY <2>1 DEF TypeOK
  <2>3. TypeOK'
    BY <2>1 DEF TypeOK, States
  <2>4. Shape'
    BY <2>1, <2>2 DEF Shape, Kinds
  <2>5. Late'
    BY <2>1, <2>2 DEF Late, LateToken, Asking, Kinds
  <2>6. Early'
    BY <2>1, <2>2 DEF Early, Renewing, Excused, TokenLives, InTime, Need
  <2> QED BY <2>3, <2>4, <2>5, <2>6
<1> QED BY <1>1, <1>2

\* A goroutine begins.
LEMMA BeginKeeps ==
  ASSUME IInv, NEW k \in Kinds, NEW ttl \in TTLs, NEW rest \in 0..ttl, Begin(k, ttl, rest)
  PROVE  IInv'
<1> USE RenewalAssumption DEF IInv
<1> DEFINE known == IF k = "cert" THEN rest ELSE ttl
           half == known \div 2
           max == MaxElapsedTime(known \div 2)
<1>1. /\ pc[k] = "off"
      /\ k = "cert" => TokenLives
      /\ pc' = [pc EXCEPT ![k] = "wait"]
      /\ due' = [due EXCEPT ![k] = half]
      /\ span' = [span EXCEPT ![k] = max]
      /\ elapsed' = [elapsed EXCEPT ![k] = 0]
      /\ left' = [left EXCEPT ![k] = rest]
      /\ tight' = [tight EXCEPT ![k] = rest <= half + Delay]
      /\ delivered' = (delivered /\ k # "cert")
      /\ UNCHANGED <<answer, strays, up, capped, gaveUp, unheard, stable, shutdown>>
  BY DEF Begin, Schedule, Learn
<1>2. /\ known \in Nat /\ rest \in Nat /\ rest <= known
      /\ half \in Nat /\ max \in Nat
      /\ known <= half + max + Reserve + 1
  <2>1. known \in Nat /\ rest \in Nat /\ rest <= known
    OBVIOUS
  <2> HIDE DEF known
  <2> QED BY <2>1, Halves
<1>3. /\ (rest <= half + Delay) \in BOOLEAN
      /\ (delivered /\ k # "cert") \in BOOLEAN
  OBVIOUS
<1> HIDE DEF known, half, max
<1>4. \A j \in Kinds :
        IF j = k
        THEN /\ pc'[j] = "wait" /\ due'[j] = half /\ span'[j] = max /\ elapsed'[j] = 0
             /\ left'[j] = rest /\ tight'[j] = (rest <= half + Delay)
        ELSE /\ pc'[j] = pc[j] /\ due'[j] = due[j] /\ span'[j] = span[j]
             /\ elapsed'[j] = elapsed[j] /\ left'[j] = left[j] /\ tight'[j] = tight[j]
  BY <1>1 DEF TypeOK
<1>5. answer[k] = 0 /\ ~gaveUp[k]
  BY <1>1 DEF Shape
<1>6. TypeOK'
  BY <1>1, <1>2, <1>3 DEF TypeOK, States
<1>7. Shape'
  <2>1. ASSUME NEW j \in Kinds
        PROVE  /\ answer'[j] # 0 => pc'[j] = "call"
               /\ pc'[j] = "wait" => elapsed'[j] = 0
               /\ pc'[j] = "call" => due'[j] <= Delay
               /\ pc'[j] = "off" => ~gaveUp'[j]
    BY <1>1, <1>4, <1>5 DEF Shape
  <2>2. pc'["token"] = "off" => pc'["cert"] = "off" /\ left'["token"] = 0
    BY <1>1, <1>4, Numbers DEF Shape, Kinds, TokenLives
  <2> QED BY <1>1, <2>1, <2>2 DEF Shape
<1>8. Late'
  <2>1. CASE k = "token"
    BY <1>1, <1>2, <1>4, <1>5, <2>1 DEF Late, LateToken, Asking
  <2>2. CASE k # "token"
    BY <1>1, <1>4, <2>2 DEF Late, LateToken, Asking, Kinds
  <2> QED BY <2>1, <2>2
<1>9. Early'
  <2> SUFFICES ASSUME NEW j \in Kinds, Renewing(j)', left'[j] > 0, ~gaveUp'[j], ~tight'[j],
                      ~Excused(j)'
               PROVE  InTime(j)'
    BY DEF Early
  <2>1. CASE j = k
    <3>1. tight'[j] = (rest <= half + Delay)
      BY <1>4, <2>1
    <3>2. ~(rest <= half + Delay)
      BY <3>1, Zenon
    <3> QED BY <1>1, <1>2, <1>4, <2>1, <3>2 DEF InTime, Need
  <2>2. CASE j # k
    <3>1. Renewing(j) /\ left[j] > 0 /\ ~gaveUp[j] /\ ~tight[j]
      BY <1>1, <1>4, <2>2 DEF Renewing
    <3>2. ~Excused(j)
      BY <1>1, <1>4, <2>2, <3>1 DEF Excused, TokenLives, Shape, Renewing, Kinds
    <3> QED BY <1>1, <1>4, <2>2, <3>1, <3>2 DEF Early, InTime, Need
  <2> QED BY <2>1, <2>2
<1> QED BY <1>6, <1>7, <1>8, <1>9

\* The timer fires, and a call is made.
LEMMA CallKeeps ==
  ASSUME IInv, NEW k \in Kinds, Fire(k) \/ Call(k)
  PROVE  IInv'
<1> USE RenewalAssumption DEF IInv
<1>1. /\ due[k] = 0
      /\ UNCHANGED <<span, elapsed, left, answer, strays, up, capped, gaveUp, tight, unheard,
                     stable, delivered, shutdown>>
      /\ \/ /\ pc[k] = "wait"
            /\ pc' = [pc EXCEPT ![k] = "try"]
            /\ due' = due
         \/ /\ pc[k] = "try"
            /\ pc' = [pc EXCEPT ![k] = "call"]
            /\ due' = [due EXCEPT ![k] = Delay]
  BY DEF Fire, Call, vaultVars, historyVars
<1>2. \A j \in Kinds \ {k} : pc'[j] = pc[j] /\ due'[j] = due[j]
  BY <1>1 DEF TypeOK
<1>3. \/ pc[k] = "wait" /\ pc'[k] = "try" /\ due'[k] = 0
      \/ pc[k] = "try" /\ pc'[k] = "call" /\ due'[k] = Delay
  BY <1>1 DEF TypeOK
<1>4. answer[k] = 0
  BY <1>3 DEF Shape
<1>5. TypeOK'
  BY <1>1 DEF TypeOK, States
<1>6. Shape'
  BY <1>1, <1>2, <1>3, <1>4 DEF Shape, Kinds
<1>7. Late'
  <2>1. CASE k = "token"
    BY <1>1, <1>3, <1>4, <2>1, Numbers DEF Late, LateToken, Asking, Shape
  <2>2. CASE k # "token"
    BY <1>1, <1>2, <2>2 DEF Late, LateToken, Asking, Kinds
  <2> QED BY <2>1, <2>2
<1>8. Early'
  BY <1>1, <1>2, <1>3 DEF Early, Renewing, Excused, TokenLives, InTime, Need
<1> QED BY <1>5, <1>6, <1>7, <1>8

\* Vault performs the request of a call.
LEMMA PerformKeeps ==
  ASSUME IInv, NEW k \in Kinds, NEW ttl \in TTLs, Perform(k, ttl)
  PROVE  IInv'
<1> USE RenewalAssumption DEF IInv
<1>1. /\ pc[k] = "call" /\ answer[k] = 0 /\ left["token"] > 0
      /\ unheard' = (unheard /\ k # "token")
      /\ UNCHANGED <<pc, due, span, elapsed, strays, up, capped, gaveUp, tight, stable, delivered,
                     shutdown>>
      /\ IF k = "token" /\ capped
         THEN /\ answer' = [answer EXCEPT ![k] = left[k]]
              /\ UNCHANGED left
         ELSE /\ answer' = [answer EXCEPT ![k] = ttl]
              /\ left' = IF k = "token" THEN [left EXCEPT ![k] = ttl] ELSE left
  BY DEF Perform, TokenLives, timerVars
<1>2. /\ ttl \in Nat /\ ttl > Delay
      /\ left'["token"] \in Nat /\ left'["token"] > 0
      /\ left'["cert"] = left["cert"]
      /\ \A j \in Kinds \ {k} : answer'[j] = answer[j] /\ left'[j] = left[j]
      /\ k = "token" => /\ left'[k] = IF capped THEN left[k] ELSE ttl
                        /\ answer'[k] = left'[k]
  BY <1>1 DEF TypeOK, Kinds
<1>3. TypeOK'
  <2>1. (unheard /\ k # "token") \in BOOLEAN
    OBVIOUS
  <2> QED BY <1>1, <1>2, <2>1 DEF TypeOK
<1>4. Shape'
  BY <1>1, <1>2 DEF Shape, Kinds
<1>5. Late'
  <2>1. CASE k = "token"
    BY <1>1, <1>2, <2>1 DEF Late, LateToken, Asking
  <2>2. CASE k # "token"
    BY <1>1, <1>2, <2>2 DEF Late, LateToken, Asking, Kinds
  <2> QED BY <2>1, <2>2
<1>6. Early'
  <2> SUFFICES ASSUME NEW j \in Kinds, Renewing(j)', left'[j] > 0, ~gaveUp'[j], ~tight'[j],
                      ~Excused(j)'
               PROVE  InTime(j)'
    BY DEF Early
  <2>1. CASE j = k /\ k = "token"
    BY <1>1, <1>2, <2>1, Numbers DEF Excused, InTime, Need, Shape
  <2>2. CASE j # k \/ k # "token"
    BY <1>1, <1>2, <2>2 DEF Early, Renewing, Excused, TokenLives, InTime, Need, Kinds
  <2> QED BY <2>1, <2>2
<1> QED BY <1>3, <1>4, <1>5, <1>6

\* An answer.
LEMMA SucceedKeeps ==
  ASSUME IInv, NEW k \in Kinds, Succeed(k)
  PROVE  IInv'
<1> USE RenewalAssumption DEF IInv
<1> DEFINE half == answer[k] \div 2
           max == MaxElapsedTime(answer[k] \div 2)
<1>1. /\ pc[k] = "call" /\ answer[k] > 0
      /\ pc' = [pc EXCEPT ![k] = "wait"]
      /\ due' = [due EXCEPT ![k] = half]
      /\ span' = [span EXCEPT ![k] = max]
      /\ elapsed' = [elapsed EXCEPT ![k] = 0]
      /\ left' = [left EXCEPT ![k] = Rest(k)]
      /\ tight' = [tight EXCEPT ![k] = Rest(k) <= half + Delay]
      /\ delivered' = (delivered /\ k # "cert")
      /\ answer' = [answer EXCEPT ![k] = 0]
      /\ gaveUp' = [gaveUp EXCEPT ![k] = FALSE]
      /\ UNCHANGED <<strays, up, capped, unheard, stable, shutdown>>
  BY DEF Succeed, Schedule, Learn
<1>2. /\ answer[k] \in Nat /\ half \in Nat /\ max \in Nat
      /\ answer[k] <= half + max + Reserve + 1
  BY Numbers, Halves
<1>3. /\ Rest(k) \in Nat
      /\ k = "token" => Rest(k) = left[k]
  BY <1>2, Numbers DEF Rest, Kinds
<1>4. /\ (Rest(k) <= half + Delay) \in BOOLEAN
      /\ (delivered /\ k # "cert") \in BOOLEAN
  OBVIOUS
<1> HIDE DEF half, max
<1>5. \A j \in Kinds :
        IF j = k
        THEN /\ pc'[j] = "wait" /\ due'[j] = half /\ span'[j] = max /\ elapsed'[j] = 0
             /\ left'[j] = Rest(k) /\ answer'[j] = 0
             /\ tight'[j] = (Rest(k) <= half + Delay) /\ gaveUp'[j] = FALSE
        ELSE /\ pc'[j] = pc[j] /\ due'[j] = due[j] /\ span'[j] = span[j]
             /\ elapsed'[j] = elapsed[j] /\ left'[j] = left[j] /\ answer'[j] = answer[j]
             /\ tight'[j] = tight[j] /\ gaveUp'[j] = gaveUp[j]
  BY <1>1 DEF TypeOK
<1>6. left'["token"] = left["token"]
  BY <1>3, <1>5 DEF Kinds
<1>7. TypeOK'
  BY <1>1, <1>2, <1>3, <1>4 DEF TypeOK, States
<1>8. Shape'
  <2>1. ASSUME NEW j \in Kinds
        PROVE  /\ answer'[j] # 0 => pc'[j] = "call"
               /\ pc'[j] = "wait" => elapsed'[j] = 0
               /\ pc'[j] = "call" => due'[j] <= Delay
               /\ pc'[j] = "off" => ~gaveUp'[j]
    BY <1>5 DEF Shape
  <2>2. pc'["token"] = "off" => pc'["cert"] = "off" /\ left'["token"] = 0
    BY <1>1, <1>5, <1>6 DEF Shape, Kinds
  <2> QED BY <1>1, <2>1, <2>2 DEF Shape
<1>9. Late'
  <2>1. CASE k = "token"
    BY <1>1, <1>2, <1>3, <1>5, <2>1, Numbers DEF Late, LateToken, Asking
  <2>2. CASE k # "token"
    BY <1>1, <1>5, <2>2 DEF Late, LateToken, Asking, Kinds
  <2> QED BY <2>1, <2>2
<1>10. Early'
  <2> SUFFICES ASSUME NEW j \in Kinds, Renewing(j)', left'[j] > 0, ~gaveUp'[j], ~tight'[j],
                      ~Excused(j)'
               PROVE  InTime(j)'
    BY DEF Early
  <2>1. CASE j = k
    <3>1. tight'[j] = (Rest(k) <= half + Delay)
      BY <1>5, <2>1
    <3>2. ~(Rest(k) <= half + Delay)
      BY <3>1, Zenon
    <3> QED BY <1>2, <1>3, <1>5, <2>1, <3>2 DEF InTime, Need
  <2>2. CASE j # k
    BY <1>1, <1>5, <1>6, <2>2 DEF Early, Renewing, Excused, TokenLives, InTime, Need
  <2> QED BY <2>1, <2>2
<1> QED BY <1>7, <1>8, <1>9, <1>10

\* A call that fails touches no lease, and does so for no goroutine that has
\* something to lose while Vault is up.
LEMMA FailFacts ==
  ASSUME IInv, NEW k \in Kinds, Fail(k)
  PROVE  /\ pc[k] = "call"
         /\ ~up \/ left["token"] = 0 \/ (k = "token" /\ capped)
         /\ answer' \in [Kinds -> Nat] /\ answer'[k] = 0
         /\ \A j \in Kinds \ {k} : answer'[j] = answer[j]
         /\ unheard' \in BOOLEAN /\ strays' \in 0..MaxStrays
         /\ k = "token" /\ ~unheard' => ~unheard /\ answer[k] = 0
         /\ k # "token" => unheard' = unheard
         /\ UNCHANGED <<left, up, capped, tight, stable, delivered, shutdown>>
<1> USE RenewalAssumption DEF IInv
<1>1. /\ pc[k] = "call"
      /\ ~up \/ (answer[k] = 0 /\ (~TokenLives \/ (k = "token" /\ capped)))
      /\ answer' = [answer EXCEPT ![k] = 0]
      /\ unheard' = (unheard \/ (k = "token" /\ answer[k] > 0))
      /\ strays' = IF k = "token" /\ answer[k] = 0 /\ strays < MaxStrays THEN strays + 1 ELSE strays
      /\ UNCHANGED <<left, up, capped, tight, stable, delivered, shutdown>>
  BY DEF Fail
<1>2. answer[k] \in Nat /\ left["token"] \in Nat /\ unheard \in BOOLEAN
  BY Numbers
<1>3. strays' \in 0..MaxStrays
  BY <1>1 DEF TypeOK
<1>4. /\ unheard' \in BOOLEAN
      /\ k = "token" /\ ~unheard' => ~unheard /\ ~(answer[k] > 0)
      /\ k # "token" => unheard' = unheard
  BY <1>1, <1>2, Zenon
<1>5. /\ answer' \in [Kinds -> Nat] /\ answer'[k] = 0
      /\ \A j \in Kinds \ {k} : answer'[j] = answer[j]
  BY <1>1 DEF TypeOK
<1>6. ~up \/ left["token"] = 0 \/ (k = "token" /\ capped)
  BY <1>1, <1>2 DEF TokenLives
<1>7. ~(answer[k] > 0) => answer[k] = 0
  BY <1>2
<1> QED BY <1>1, <1>3, <1>4, <1>5, <1>6, <1>7

\* The backoff sleeps.
LEMMA SleepKeeps ==
  ASSUME IInv, NEW k \in Kinds, NEW d \in 1..MaxSleep, Sleep(k, d)
  PROVE  IInv'
<1> USE RenewalAssumption DEF IInv
<1>1. /\ Fail(k)
      /\ pc' = [pc EXCEPT ![k] = "try"]
      /\ due' = [due EXCEPT ![k] = d]
      /\ UNCHANGED <<span, elapsed, gaveUp>>
      /\ d \in Nat /\ d <= MaxSleep
  BY DEF Sleep
<1>2. \A j \in Kinds :
        IF j = k THEN pc'[j] = "try" /\ due'[j] = d ELSE pc'[j] = pc[j] /\ due'[j] = due[j]
  BY <1>1 DEF TypeOK
<1>3. TypeOK'
  BY <1>1, FailFacts DEF TypeOK, States
<1>4. Shape'
  BY <1>1, <1>2, FailFacts DEF Shape, Kinds
<1>5. Late'
  <2>1. CASE k = "token"
    BY <1>1, <1>2, <2>1, FailFacts DEF Late, LateToken, Asking
  <2>2. CASE k # "token"
    BY <1>1, <1>2, <2>2, FailFacts DEF Late, LateToken, Asking, Kinds
  <2> QED BY <2>1, <2>2
<1>6. Early'
  <2> SUFFICES ASSUME NEW j \in Kinds, Renewing(j)', left'[j] > 0, ~gaveUp'[j], ~tight'[j],
                      ~Excused(j)'
               PROVE  InTime(j)'
    BY DEF Early
  <2>1. CASE j = k
    <3>1. ~up /\ stable = 0
      BY <1>1, <2>1, FailFacts, Numbers DEF Excused, TokenLives, Shape, Kinds
    <3> QED BY <1>1, <1>2, <2>1, <3>1, FailFacts DEF InTime, Need, Long
  <2>2. CASE j # k
    BY <1>1, <1>2, <2>2, FailFacts DEF Early, Renewing, Excused, TokenLives, InTime, Need
  <2> QED BY <2>1, <2>2
<1> QED BY <1>3, <1>4, <1>5, <1>6

\* The time is over.
LEMMA GiveUpKeeps ==
  ASSUME IInv, NEW k \in Kinds, GiveUp(k)
  PROVE  IInv'
<1> USE RenewalAssumption DEF IInv
<1> DEFINE max == MaxElapsedTime(Minute)
<1>1. /\ Fail(k)
      /\ elapsed[k] > span[k]
      /\ pc' = [pc EXCEPT ![k] = "wait"]
      /\ due' = [due EXCEPT ![k] = Minute]
      /\ span' = [span EXCEPT ![k] = max]
      /\ elapsed' = [elapsed EXCEPT ![k] = 0]
      /\ gaveUp' = [gaveUp EXCEPT ![k] = TRUE]
  BY DEF GiveUp, TimeIsOver, Schedule
<1>2. Minute \in Nat /\ max \in Nat
  BY MinuteIsEnough
<1> HIDE DEF max
<1>3. \A j \in Kinds :
        IF j = k
        THEN pc'[j] = "wait" /\ due'[j] = Minute /\ elapsed'[j] = 0 /\ gaveUp'[j] = TRUE
        ELSE /\ pc'[j] = pc[j] /\ due'[j] = due[j] /\ span'[j] = span[j]
             /\ elapsed'[j] = elapsed[j] /\ gaveUp'[j] = gaveUp[j]
  BY <1>1 DEF TypeOK
<1>4. TypeOK'
  BY <1>1, <1>2, FailFacts DEF TypeOK, States
<1>5. Shape'
  BY <1>1, <1>3, FailFacts DEF Shape, Kinds
<1>6. Late'
  <2>1. CASE k = "token"
    <3> SUFFICES ASSUME ~unheard' PROVE left["token"] <= Minute
      BY <1>1, <1>3, <2>1, FailFacts DEF Late, LateToken, Asking
    <3>1. LateToken /\ Asking("token")
      BY <1>1, <2>1, FailFacts DEF Late, Asking
    <3> QED BY <1>1, <1>2, <2>1, <3>1, Numbers DEF LateToken
  <2>2. CASE k # "token"
    BY <1>1, <1>3, <2>2, FailFacts DEF Late, LateToken, Asking, Kinds
  <2> QED BY <2>1, <2>2
<1>7. Early'
  BY <1>1, <1>3, FailFacts DEF Early, Renewing, Excused, TokenLives, InTime, Need
<1> QED BY <1>4, <1>5, <1>6, <1>7

\* A step of a renew goroutine.
LEMMA RenewKeeps ==
  ASSUME IInv, NEW k \in Kinds, Renew(k)
  PROVE  IInv'
  BY CallKeeps, PerformKeeps, SucceedKeeps, SleepKeeps, GiveUpKeeps DEF Renew

\* Every step keeps the invariant.
LEMMA StepIInv == IInv /\ [Next]_renewVars => IInv'
<1> SUFFICES ASSUME IInv, [Next]_renewVars PROVE IInv'
  OBVIOUS
<1>1. CASE UNCHANGED renewVars \/ Shutdown \/ TakeCertificate
  <2>1. /\ UNCHANGED <<pc, due, span, elapsed, left, answer, strays, up, capped, gaveUp, tight,
                       unheard, stable>>
        /\ {delivered, shutdown} \subseteq BOOLEAN => {delivered', shutdown'} \subseteq BOOLEAN
    BY <1>1 DEF Shutdown, TakeCertificate, renewVars, timerVars, vaultVars, historyVars
  <2>2. TypeOK'
    BY <2>1 DEF IInv, TypeOK
  <2>3. Shape' /\ Late'
    BY <2>1 DEF IInv, Shape, Late, LateToken, Asking
  <2>4. Early'
    BY <2>1 DEF IInv, Early, Renewing, Excused, TokenLives, InTime, Need
  <2> QED BY <2>2, <2>3, <2>4 DEF IInv
<1>2. ASSUME NEW k \in Kinds, (\E ttl \in TTLs : \E rest \in 0..ttl : Begin(k, ttl, rest)) \/ Renew(k)
      PROVE  IInv'
  BY <1>2, BeginKeeps, RenewKeeps
<1> QED BY <1>1, <1>2, TickKeeps, VaultKeeps, EndKeeps DEF Next

-----------------------------------------------------------------------------
\* The strengthened invariant holds in every behaviour.
THEOREM Invariance == Spec => []IInv
<1> QED BY InitIInv, StepIInv, PTL DEF Spec

\* Type correctness of the renewals.
THEOREM TypeCorrect == Spec => []TypeOK
<1>1. IInv => TypeOK
  BY DEF IInv
<1> QED BY <1>1, Invariance, PTL

\* Only the passing of time can end a lease that nothing excuses, and then
\* Early says how long Vault has been up.
LEMMA LossExplained ==
  ASSUME IInv, Next, NEW k \in Kinds, Renewing(k), left[k] > 0, left'[k] = 0,
         ~gaveUp[k], ~tight[k], ~(IF k = "token" THEN capped' ELSE ~TokenLives)
  PROVE  stable' <= MaxSleep + Delay
<1> USE RenewalAssumption DEF IInv
<1>1. CASE Tick
  <2>1. /\ due[k] > 0 \/ Hangs(k)
        /\ left'[k] = Pred(left[k])
        /\ capped' = capped
        /\ stable' = IF up /\ stable < Long THEN stable + 1 ELSE stable
    BY <1>1 DEF Tick, TypeOK
  <2>2. InTime(k) /\ left[k] = 1
    BY <2>1, Numbers DEF Early, Excused, Pred
  <2>3. CASE Hangs(k)
    BY <2>1, <2>3, Numbers DEF Hangs, Shape
  <2>4. CASE due[k] > 0
    BY <2>1, <2>2, <2>4, Numbers DEF InTime, Need, Long
  <2> QED BY <2>1, <2>3, <2>4
<1>2. CASE Vault
  <2>1. left' = left \/ (left'["cert"] = left["cert"] /\ (capped' \/ left'["token"] > 0))
    <3>1. CASE Switch
      BY <3>1 DEF Switch
    <3>2. CASE Cap
      BY <3>2 DEF Cap, TypeOK, Kinds
    <3>3. ASSUME NEW ttl \in TTLs, PerformStray(ttl)
          PROVE  left'["cert"] = left["cert"] /\ left'["token"] > 0
      <4>1. left' = [left EXCEPT !["token"] = ttl] /\ ttl \in Nat /\ ttl > 0
        BY <3>3 DEF PerformStray
      <4> QED BY <4>1 DEF TypeOK, Kinds
    <3> QED BY <1>2, <3>1, <3>2, <3>3 DEF Vault
  <2> QED BY <2>1 DEF Kinds
<1>3. ASSUME NEW j \in Kinds, NEW ttl \in TTLs, NEW rest \in 0..ttl, Begin(j, ttl, rest)
      PROVE  FALSE
  <2>1. pc[j] = "off" /\ left' = [left EXCEPT ![j] = rest]
    BY <1>3 DEF Begin, Learn
  <2> QED BY <2>1 DEF TypeOK, Renewing
<1>4. ASSUME NEW j \in Kinds, NEW ttl \in TTLs, Perform(j, ttl)
      PROVE  FALSE
  <2>1. left' = left \/ left' = [left EXCEPT !["token"] = ttl]
    BY <1>4 DEF Perform
  <2>2. ttl \in Nat /\ ttl > 0
    BY <1>4
  <2> QED BY <2>1, <2>2, Numbers DEF TypeOK, Kinds
<1>5. ASSUME NEW j \in Kinds, Succeed(j)
      PROVE  FALSE
  <2>1. left' = [left EXCEPT ![j] = Rest(j)] /\ answer[j] > 0
    BY <1>5 DEF Succeed, Learn
  <2> QED BY <2>1, Numbers DEF Rest, TypeOK, Kinds
<1>6. ASSUME NEW j \in Kinds,
             \/ Shutdown \/ Exit \/ TakeCertificate \/ Stop(j)
             \/ Fire(j) \/ Call(j) \/ GiveUp(j)
             \/ \E d \in 1..MaxSleep : Sleep(j, d)
      PROVE  FALSE
  <2>1. left' = left
    BY <1>6 DEF Shutdown, Exit, TakeCertificate, Stop, Fire, Call, GiveUp, Sleep, Fail, vaultVars
  <2> QED BY <2>1, Numbers
<1> QED BY <1>1, <1>2, <1>3, <1>4, <1>5, <1>6 DEF Next, Renew

\* No lease is lost to the way the renewals are timed: whatever Vault does
\* and however long it takes, a lease that ends has been given up, was too
\* short from the start, or Vault was not there for a sleep and an answer
\* before the end.
THEOREM LostByGivingUpHolds == Spec => LostByGivingUp
<1>1. IInv /\ [Next]_renewVars =>
        [\A k \in Kinds :
           Renewing(k) /\ left[k] > 0 /\ left'[k] = 0 =>
             \/ gaveUp[k]
             \/ tight[k]
             \/ stable' <= MaxSleep + Delay
             \/ IF k = "token" THEN capped' ELSE ~TokenLives]_renewVars
  BY LossExplained
<1> QED BY <1>1, Invariance, PTL DEF Spec, LostByGivingUp

\* When a renewal of the token has given up, and Vault has performed none of
\* its requests, no later call prolongs the token: at most a request that
\* was sent before does, whatever the lease.
THEOREM FailureIsFinalHolds == Spec => FailureIsFinal
<1>1. IInv /\ [Next]_renewVars =>
        [gaveUp["token"] /\ ~unheard /\ left'["token"] > left["token"]
           => strays' < strays]_renewVars
  <2> SUFFICES ASSUME IInv, Next, gaveUp["token"], ~unheard, left'["token"] > left["token"]
               PROVE  strays' < strays
    OBVIOUS
  <2> USE RenewalAssumption
  <2> DEFINE t == "token"
  <2>1. t \in Kinds /\ left[t] \in Nat /\ strays \in Nat
    BY Numbers DEF Kinds, IInv
  <2>2. CASE Tick
    <3>1. left'[t] = Pred(left[t])
      BY <2>1, <2>2 DEF Tick
    <3> QED BY <2>1, <3>1 DEF Pred
  <2>3. ASSUME NEW k \in Kinds, NEW ttl \in TTLs, Perform(k, ttl)
        PROVE  FALSE
    <3>1. k = t /\ pc[t] = "call" /\ answer[t] = 0 /\ left[t] > 0
      BY <2>1, <2>3 DEF Perform, TokenLives, IInv, TypeOK
    <3>2. left[t] = 0
      BY <3>1 DEF IInv, Late, LateToken, Asking
    <3> QED BY <3>1, <3>2
  <2>4. ASSUME NEW k \in Kinds, NEW ttl \in TTLs, NEW rest \in 0..ttl, Begin(k, ttl, rest)
        PROVE  FALSE
    <3>1. pc[k] = "off" /\ left' = [left EXCEPT ![k] = rest]
      BY <2>4 DEF Begin, Learn
    <3> QED BY <2>1, <3>1 DEF IInv, TypeOK, Shape
  <2>5. ASSUME NEW k \in Kinds, Succeed(k)
        PROVE  FALSE
    <3>1. left' = [left EXCEPT ![k] = Rest(k)]
      BY <2>5 DEF Succeed, Learn
    <3>2. left'[t] = left[t]
      BY <2>1, <3>1 DEF Rest, IInv, TypeOK
    <3> QED BY <2>1, <3>2
  <2>6. CASE Vault
    <3>1. CASE Switch \/ Cap
      <4>1. left'[t] \in {left[t], 0}
        BY <2>1, <3>1 DEF Switch, Cap, IInv, TypeOK
      <4> QED BY <2>1, <4>1
    <3>2. ASSUME NEW ttl \in TTLs, PerformStray(ttl)
          PROVE  strays' < strays
      BY <2>1, <3>2 DEF PerformStray
    <3> QED BY <2>6, <3>1, <3>2 DEF Vault
  <2>7. ASSUME NEW k \in Kinds,
               \/ Shutdown \/ Exit \/ TakeCertificate \/ Stop(k)
               \/ Fire(k) \/ Call(k) \/ GiveUp(k)
               \/ \E d \in 1..MaxSleep : Sleep(k, d)
        PROVE  FALSE
    <3>1. left' = left
      BY <2>7 DEF Shutdown, Exit, TakeCertificate, Stop, Fire, Call, GiveUp, Sleep, Fail, vaultVars
    <3> QED BY <2>1, <3>1
  <2>8. ASSUME NEW k \in Kinds, Renew(k)
        PROVE  FALSE
    BY <2>3, <2>5, <2>7, <2>8 DEF Renew
  <2> QED BY <2>1, <2>2, <2>4, <2>6, <2>7, <2>8 DEF Next
<1> QED BY <1>1, Invariance, PTL DEF Spec, FailureIsFinal

-----------------------------------------------------------------------------
(***************************************************************************)
(* Startup.                                                                *)
(***************************************************************************)

\* A step of the process is a step of Renewal or none.
LEMMA StepIsRenewal == [StartupNext]_processVars => [Next]_renewVars
<1>1. UNCHANGED processVars => UNCHANGED renewVars
  BY DEF processVars
<1>2. Fatal \/ Panic \/ Return => Next
  BY DEF Fatal, Panic, Return, Next
<1>3. Configure \/ NewKube \/ Discover \/ CertificateFromFile \/ LoadRoots \/ Skip
     \/ StartServer \/ NewGossip \/ StartRaft
        => UNCHANGED renewVars
  BY DEF Configure, NewKube, Discover, CertificateFromFile, LoadRoots, Skip, StartServer, NewGossip,
         StartRaft
<1>4. ASSUME NEW ttl \in TTLs, NEW rest \in 0..ttl,
             NewVault(ttl, rest) \/ GetAndRenewCertificate(ttl, rest)
      PROVE  Next
  BY <1>4 DEF NewVault, GetAndRenewCertificate, Next, Kinds
<1>5. Signal => Next
  BY DEF Signal, Next
<1>6. Run => [Next]_renewVars
  BY <1>2, <1>3, <1>4, <1>5 DEF Run
<1>7. Beside => Next
  BY DEF Beside, Pass, VaultStep, RenewLease, ServerTakes, Next
<1> QED BY <1>1, <1>6, <1>7 DEF StartupNext

\* The process does to its leases what Renewal describes.
THEOREM ImplementsRenewal == StartupSpec => Spec
<1>1. StartupInit => Init
  BY DEF StartupInit
<1> QED BY <1>1, StepIsRenewal, PTL DEF StartupSpec, Spec

\* What the stages have made sure of: from Configure on the configuration is
\* valid, and certCh and roots are what is configured once the stages for them
\* are past.
Checked ==
  /\ stage \notin {"config", "failed", "panicked"} => Valid
  /\ Renewing("cert") => Both(VaultPair) /\ source = "vault"
  /\ stage \in {"config", "kube", "discover", "vault", "cert"} => source = "none"
  /\ stage = "file" => (source # "none" <=> Both(VaultPair))
  /\ stage \in {"roots", "server"} => (source # "none" <=> Both(VaultPair) \/ Both(FilePair))
  /\ stage \in {"config", "kube", "discover", "vault", "cert", "file", "roots"} => ~roots
  /\ stage = "server" => (roots <=> Has(ScraperCAs))

StartupIInv == StartupTypeOK /\ Checked /\ ServedAsConfigured

\* A stage of Run.
LEMMA RunKeeps ==
  ASSUME StartupIInv, TypeOK', Run
  PROVE  StartupIInv'
<1> USE DEF StartupIInv
<1>1. CASE Configure \/ NewKube \/ Discover \/ Skip \/ NewGossip \/ StartRaft
  <2>1. UNCHANGED <<renewVars, conf, token, source, roots, served>>
    BY <1>1 DEF Configure, NewKube, Discover, Skip, NewGossip, StartRaft
  <2>2. stage' \in Stages
    BY <1>1 DEF Configure, NewKube, Discover, Skip, NewGossip, StartRaft, Goto, Stages
  <2>3. StartupTypeOK' /\ ServedAsConfigured'
    BY <2>1, <2>2 DEF StartupTypeOK, ServedAsConfigured, Has
  <2>4. Checked'
    <3>1. pc' = pc
      BY <2>1 DEF renewVars, timerVars
    <3>2. Valid'
      BY <1>1, <2>1 DEF Configure, NewKube, Discover, Skip, NewGossip, StartRaft, Goto, Checked, Valid, Has, Both
    <3> QED
      BY <1>1, <2>1, <3>1, <3>2
         DEF Configure, NewKube, Discover, Skip, NewGossip, StartRaft, Goto, Checked, Renewing, Has, Both
  <2> QED BY <2>3, <2>4
<1>2. ASSUME NEW ttl \in TTLs, NEW rest \in 0..ttl, NewVault(ttl, rest)
      PROVE  StartupIInv'
  <2>1. /\ stage = "vault" /\ stage' = "cert"
        /\ pc' = [pc EXCEPT !["token"] = "wait"]
        /\ UNCHANGED <<conf, token, source, roots, served>>
    BY <1>2 DEF NewVault, Goto, Begin, Schedule
  <2>2. StartupTypeOK' /\ ServedAsConfigured'
    BY <2>1 DEF StartupTypeOK, Stages, ServedAsConfigured, Has
  <2>3. Checked'
    BY <2>1 DEF Checked, Renewing, Valid, Has, Both, StartupTypeOK, TypeOK, Kinds
  <2> QED BY <2>2, <2>3
<1>3. ASSUME NEW ttl \in TTLs, NEW rest \in 0..ttl, GetAndRenewCertificate(ttl, rest)
      PROVE  StartupIInv'
  <2>1. /\ stage = "cert" /\ stage' = "file" /\ Both(VaultPair) /\ source' = "vault"
        /\ pc' = [pc EXCEPT !["cert"] = "wait"]
        /\ UNCHANGED <<conf, token, roots, served>>
    BY <1>3 DEF GetAndRenewCertificate, Goto, Begin, Schedule
  <2>2. StartupTypeOK' /\ ServedAsConfigured'
    BY <2>1 DEF StartupTypeOK, Stages, ServedAsConfigured, Has
  <2>3. Checked'
    BY <2>1 DEF Checked, Renewing, Valid, Has, Both, StartupTypeOK, TypeOK, Kinds
  <2> QED BY <2>2, <2>3
<1>4. CASE CertificateFromFile
  <2>1. /\ stage = "file" /\ stage' = "roots" /\ Both(FilePair) /\ source' = "file"
        /\ pc' = pc
        /\ UNCHANGED <<conf, token, roots, served>>
    BY <1>4 DEF CertificateFromFile, Goto, renewVars, timerVars
  <2>2. ~Both(VaultPair)
    BY <2>1 DEF Checked, Valid, Has, Both, VaultPair, FilePair
  <2>3. StartupTypeOK' /\ ServedAsConfigured'
    BY <2>1 DEF StartupTypeOK, Stages, ServedAsConfigured, Has
  <2>4. Checked'
    BY <2>1, <2>2 DEF Checked, Renewing, Valid, Has, Both
  <2> QED BY <2>3, <2>4
<1>5. CASE LoadRoots
  <2>1. /\ stage = "roots" /\ stage' = "server" /\ Has(ScraperCAs) /\ roots'
        /\ roots' \in BOOLEAN /\ pc' = pc
        /\ UNCHANGED <<conf, token, source, served>>
    BY <1>5 DEF LoadRoots, Goto, renewVars, timerVars
  <2>2. StartupTypeOK' /\ ServedAsConfigured'
    BY <2>1 DEF StartupTypeOK, Stages, ServedAsConfigured, Has
  <2>3. Checked'
    BY <2>1 DEF Checked, Renewing, Valid, Has, Both
  <2> QED BY <2>2, <2>3
<1>6. CASE StartServer
  <2>1. /\ stage = "server" /\ stage' = "gossip" /\ pc' = pc
        /\ served' = IF source = "none" THEN "http" ELSE IF roots THEN "mutual" ELSE "https"
        /\ UNCHANGED <<conf, token, source, roots>>
    BY <1>6 DEF StartServer, Goto, renewVars, timerVars
  <2>2. /\ Valid
        /\ source # "none" <=> Both(VaultPair) \/ Both(FilePair)
        /\ roots <=> Has(ScraperCAs)
    BY <2>1 DEF Checked
  <2>3. source = "none" <=> ~Has(VaultPair \cup FilePair \cup ScraperCAs)
    BY <2>2 DEF Valid, Has, Both, VaultPair, FilePair
  <2>4. Has(ScraperCAs) => source # "none"
    BY <2>2 DEF Valid
  <2>5. ServedAsConfigured'
    BY <2>1, <2>2, <2>3, <2>4 DEF ServedAsConfigured, Has
  <2>6. StartupTypeOK'
    BY <2>1 DEF StartupTypeOK, Stages
  <2>7. Checked'
    BY <2>1 DEF Checked, Renewing, Valid, Has, Both
  <2> QED BY <2>5, <2>6, <2>7
<1>7. CASE Signal
  <2>1. /\ stage = "running" /\ stage' = "stopping" /\ pc' = pc
        /\ UNCHANGED <<conf, token, source, roots, served>>
    BY <1>7 DEF Signal, Goto, Shutdown, timerVars
  <2> QED
    BY <2>1 DEF StartupTypeOK, Stages, ServedAsConfigured, Checked, Renewing, Valid, Has, Both
<1>8. CASE Return \/ Fatal \/ Panic
  <2>1. /\ stage' \in {"done", "failed", "panicked"}
        /\ stage' = "done" => stage = "stopping"
        /\ pc' = [k \in Kinds |-> "stopped"]
        /\ UNCHANGED <<conf, token, source, roots, served>>
    BY <1>8 DEF Return, Fatal, Panic, Goto, Exit
  <2>2. StartupTypeOK' /\ ServedAsConfigured'
    BY <2>1 DEF StartupTypeOK, Stages, ServedAsConfigured, Has
  <2>3. Checked'
    BY <2>1 DEF Checked, Renewing, Valid, Has, Both, Kinds
  <2> QED BY <2>2, <2>3
<1> QED BY <1>1, <1>2, <1>3, <1>4, <1>5, <1>6, <1>7, <1>8 DEF Run

\* What goes on beside Run starts no goroutine.
LEMMA BesideKeeps ==
  ASSUME StartupIInv, TypeOK', Beside
  PROVE  StartupIInv'
<1> USE DEF StartupIInv
<1>1. UNCHANGED startVars
  BY DEF Beside, Pass, VaultStep, RenewLease, ServerTakes
<1>2. StartupTypeOK' /\ ServedAsConfigured'
  BY <1>1 DEF startVars, StartupTypeOK, ServedAsConfigured, Has
<1>3. \A k \in Kinds : Renewing(k)' => Renewing(k)
  <2>1. ASSUME NEW k \in Kinds, Renew(k) \/ Stop(k), NEW j \in Kinds, Renewing(j)'
        PROVE  Renewing(j)
    BY <2>1 DEF Renew, Stop, Fire, Call, Perform, Succeed, Sleep, GiveUp, Fail, Schedule, Renewing,
                timerVars, StartupTypeOK, TypeOK
  <2>2. Tick \/ Vault \/ TakeCertificate => pc' = pc
    BY DEF Tick, Vault, Switch, Cap, PerformStray, TakeCertificate, timerVars
  <2> QED BY <2>1, <2>2 DEF Beside, Pass, VaultStep, RenewLease, ServerTakes, Renewing
<1>4. Checked'
  BY <1>1, <1>3 DEF startVars, Checked, Kinds, Valid, Has, Both
<1> QED BY <1>2, <1>4

\* Every step of the process keeps the invariant.
LEMMA StepStartupIInv ==
  StartupIInv /\ TypeOK' /\ [StartupNext]_processVars => StartupIInv'
<1>1. StartupIInv /\ UNCHANGED processVars => StartupIInv'
  BY DEF processVars, renewVars, timerVars, vaultVars, historyVars, startVars, StartupIInv, StartupTypeOK, TypeOK, Checked,
         ServedAsConfigured, Renewing, Valid, Has, Both
<1> QED BY <1>1, RunKeeps, BesideKeeps DEF StartupNext

LEMMA InitStartupIInv == StartupInit /\ TypeOK => StartupIInv
  BY DEF StartupInit, Init, StartupIInv, StartupTypeOK, Stages, Checked, ServedAsConfigured,
         Renewing, Kinds

\* The strengthened invariant of the process.
THEOREM StartupInvariance == StartupSpec => []StartupIInv
<1>1. StartupSpec => []TypeOK
  BY ImplementsRenewal, TypeCorrect, PTL
<1> QED BY <1>1, InitStartupIInv, StepStartupIInv, PTL DEF StartupSpec

\* Type correctness of the process.
THEOREM StartupTypeCorrect == StartupSpec => []StartupTypeOK
<1>1. StartupIInv => StartupTypeOK
  BY DEF StartupIInv
<1> QED BY <1>1, StartupInvariance, PTL

\* The metrics are served the way the configuration says, whatever it is.
THEOREM ServedAsConfiguredHolds == StartupSpec => []ServedAsConfigured
<1>1. StartupIInv => ServedAsConfigured
  BY DEF StartupIInv
<1> QED BY <1>1, StartupInvariance, PTL

\* A certificate that is renewed is the one that is served.
THEOREM RenewedIsServedHolds == StartupSpec => []RenewedIsServed
<1>1. StartupIInv => RenewedIsServed
  BY DEF StartupIInv, Checked, RenewedIsServed
<1> QED BY <1>1, StartupInvariance, PTL

\* What is proved of the leases, of the whole process.
THEOREM ProcessKeepsLeases == StartupSpec => LostByGivingUp /\ FailureIsFinal
  BY ImplementsRenewal, LostByGivingUpHolds, FailureIsFinalHolds, PTL

-----------------------------------------------------------------------------
(***************************************************************************)
(* A controller whose Vault is always up.  Nothing else than the failure   *)
(* of a renewal can take the token away, and a renewal of either kind can  *)
(* fail only without the token: neither ever happens.  That the token is   *)
(* there at all whenever a certificate is renewed is due to the stages of  *)
(* Run, which begin with the token and end both together.                  *)
(***************************************************************************)

\* Half of a lease is longer than two answers.
Quick == \A ttl \in TTLs : ttl - ttl \div 2 > 2 * Delay

\* The answer on its way tells of a lease that has not run for longer than
\* it takes to arrive.
Fresh(k) ==
  answer[k] # 0 =>
    IF k = "token"
    THEN answer[k] \in TTLs /\ answer[k] + due[k] <= left[k] + Delay
    ELSE \E ttl \in TTLs : ttl + due[k] <= answer[k] + Delay

Steady ==
  /\ strays = 0
  /\ stable = Long
  /\ \A k \in Kinds :
       /\ ~gaveUp[k]
       /\ Renewing(k) => ~tight[k] /\ left[k] > 0
       /\ Fresh(k)
  /\ Renewing("cert") => Renewing("token")

WhileUp ==
  ~shutdown /\ up /\ ~capped =>
    /\ Steady
    /\ stage \in {"cert", "file", "roots", "server", "gossip", "raft", "running"}
         => Renewing("token")

\* With what is left of a lease after an answer, half of it is early enough.
LEMMA HalfIsEarly ==
  ASSUME Quick, NEW ttl \in TTLs, NEW rest \in Nat, ttl <= rest + Delay
  PROVE  rest > 0 /\ ttl \div 2 + Delay < rest /\ rest \div 2 + Delay < rest
<1> USE RenewalAssumption
<1>1. ttl \in Nat /\ Delay \in Nat /\ ttl - ttl \div 2 > 2 * Delay
  BY DEF Quick
<1> DEFINE half == ttl \div 2
           other == rest \div 2
<1>2. half \in Nat /\ ttl <= 2 * half + 1 /\ 2 * half <= ttl
  BY <1>1
<1>3. other \in Nat /\ rest <= 2 * other + 1 /\ 2 * other <= rest
  OBVIOUS
<1>4. ttl - half > 2 * Delay
  BY <1>1
<1> HIDE DEF half, other
<1>5. rest > 0 /\ half + Delay < rest /\ other + Delay < rest
  BY <1>1, <1>2, <1>3, <1>4
<1> QED BY <1>5 DEF half, other

\* What is renewed lasts until it is answered.
LEMMA NoneIsLate ==
  ASSUME IInv, Steady, ~capped, NEW k \in Kinds, Renewing(k)
  PROVE  /\ Renewing("token") /\ TokenLives
         /\ Need(k) < left[k]
<1>1. Renewing("token") /\ TokenLives
  BY DEF Steady, TokenLives, Kinds
<1>2. InTime(k)
  BY <1>1 DEF IInv, Early, Steady, Excused
<1> QED BY <1>1, <1>2, Numbers, RenewalAssumption DEF InTime, Steady, IInv, Need, Long

\* No call fails.
LEMMA NoneFails ==
  ASSUME IInv, Steady, up, ~capped, NEW k \in Kinds
  PROVE  ~Fail(k)
<1> SUFFICES ASSUME Fail(k) PROVE FALSE
  OBVIOUS
<1>1. pc[k] = "call" /\ left["token"] = 0
  BY FailFacts
<1>2. TokenLives
  BY <1>1, NoneIsLate DEF Renewing
<1> QED BY <1>1, <1>2 DEF TokenLives

\* Time passes, and all is well.
LEMMA TickSteady ==
  ASSUME IInv, Steady, up, ~capped, Tick
  PROVE  Steady'
<1> USE RenewalAssumption DEF IInv
<1>1. /\ strays' = strays /\ pc' = pc /\ gaveUp' = gaveUp /\ tight' = tight
      /\ stable' = IF up /\ stable < Long THEN stable + 1 ELSE stable
  BY DEF Tick
<1>2. stable' = Long
  BY <1>1 DEF Steady, Long
<1>3. ASSUME NEW k \in Kinds, Renewing(k)
      PROVE  /\ due[k] > 0 /\ due'[k] = due[k] - 1
             /\ left'[k] = left[k] - 1 /\ left'[k] > 0
             /\ answer'[k] = IF k = "cert" THEN Pred(answer[k]) ELSE answer[k]
  <2>1. /\ due[k] > 0
        /\ due'[k] = Pred(due[k]) /\ left'[k] = Pred(left[k])
        /\ answer'[k] = IF k = "cert" THEN Pred(answer[k]) ELSE answer[k]
    BY <1>3 DEF Tick, TypeOK, Hangs, Kinds
  <2>2. Need(k) < left[k]
    BY <1>3, NoneIsLate
  <2> QED BY <2>1, <2>2, Numbers DEF Pred, Need
<1>4. ASSUME NEW k \in Kinds
      PROVE  Fresh(k)'
  <2> SUFFICES ASSUME answer'[k] # 0 PROVE Fresh(k)'
    BY DEF Fresh
  <2>1. answer[k] # 0
    <3>1. answer'[k] = IF k = "cert" THEN Pred(answer[k]) ELSE answer[k]
      BY DEF Tick, TypeOK, Kinds
    <3> QED BY <3>1 DEF Pred
  <2>2. Renewing(k)
    BY <2>1 DEF Shape, Renewing
  <2>3. CASE k = "token"
    BY <1>3, <2>1, <2>2, <2>3, Numbers DEF Steady, Fresh
  <2>4. CASE k = "cert"
    <3>1. PICK ttl \in TTLs : ttl + due[k] <= answer[k] + Delay
      BY <2>1, <2>4 DEF Steady, Fresh
    <3>2. ttl + due'[k] <= answer'[k] + Delay
      BY <1>3, <2>1, <2>2, <2>4, <3>1, Numbers DEF Pred
    <3> QED BY <2>4, <3>2 DEF Fresh
  <2> QED BY <2>3, <2>4 DEF Kinds
<1> QED BY <1>1, <1>2, <1>3, <1>4 DEF Steady, Renewing

\* A goroutine begins, that of the certificate after that of the token.
LEMMA BeginSteady ==
  ASSUME IInv, Steady, Quick, up, NEW k \in Kinds, NEW ttl \in TTLs, NEW rest \in 0..ttl,
         Begin(k, ttl, rest), k = "cert" => Renewing("token")
  PROVE  Steady' /\ Renewing("token")'
<1> USE RenewalAssumption DEF IInv
<1> DEFINE half == (IF k = "cert" THEN rest ELSE ttl) \div 2
<1>1. /\ pc[k] = "off"
      /\ ttl <= rest + Delay
      /\ pc' = [pc EXCEPT ![k] = "wait"]
      /\ left' = [left EXCEPT ![k] = rest]
      /\ tight' = [tight EXCEPT ![k] = rest <= half + Delay]
      /\ due' = [due EXCEPT ![k] = half]
      /\ UNCHANGED <<answer, strays, gaveUp, stable>>
  BY DEF Begin, Schedule, Learn
<1>2. rest \in Nat /\ rest > 0 /\ half + Delay < rest
  <2>1. rest \in Nat /\ ttl <= rest + Delay
    BY <1>1
  <2> QED BY <2>1, HalfIsEarly
<1>3. ~(rest <= half + Delay)
  <2>1. half \in Nat
    BY <1>2
  <2> HIDE DEF half
  <2> QED BY <1>2, <2>1
<1> HIDE DEF half
<1>4. /\ pc'[k] = "wait" /\ left'[k] = rest
      /\ tight'[k] = (rest <= half + Delay)
      /\ \A j \in Kinds \ {k} : pc'[j] = pc[j] /\ left'[j] = left[j] /\ due'[j] = due[j]
                                 /\ tight'[j] = tight[j]
  BY <1>1 DEF TypeOK
<1>5. ~tight'[k]
  BY <1>3, <1>4, Zenon
<1>6. answer[k] = 0
  BY <1>1 DEF Shape
<1>7. Renewing("token")'
  BY <1>4 DEF Renewing, Kinds
<1>8. \A j \in Kinds : Fresh(j)'
  BY <1>1, <1>4, <1>6 DEF Fresh, Steady
<1> QED BY <1>1, <1>2, <1>4, <1>5, <1>7, <1>8 DEF Steady, Renewing

\* A goroutine that renews goes on.
LEMMA RenewSteady ==
  ASSUME IInv, Steady, Quick, up, ~capped, NEW k \in Kinds, Renew(k)
  PROVE  Steady' /\ (Renewing("token")' <=> Renewing("token"))
<1> USE RenewalAssumption DEF IInv
<1>1. CASE Fire(k) \/ Call(k)
  <2>1. /\ \A j \in Kinds : Renewing(j)' <=> Renewing(j)
        /\ UNCHANGED <<left, answer, strays, gaveUp, tight, stable>>
    BY <1>1 DEF Fire, Call, vaultVars, historyVars, Renewing, TypeOK
  <2>2. answer[k] = 0
    BY <1>1 DEF Fire, Call, Shape
  <2>3. \A j \in Kinds \ {k} : due'[j] = due[j]
    BY <1>1 DEF Fire, Call, TypeOK
  <2>4. \A j \in Kinds : Fresh(j)'
    BY <2>1, <2>2, <2>3 DEF Fresh, Steady
  <2> QED BY <2>1, <2>4 DEF Steady, Kinds
<1>2. ASSUME NEW ttl \in TTLs, Perform(k, ttl)
      PROVE  Steady' /\ (Renewing("token")' <=> Renewing("token"))
  <2>1. /\ pc[k] = "call" /\ answer[k] = 0
        /\ answer' = [answer EXCEPT ![k] = ttl]
        /\ left' = IF k = "token" THEN [left EXCEPT ![k] = ttl] ELSE left
        /\ UNCHANGED <<pc, due, strays, gaveUp, tight, stable>>
    BY <1>2 DEF Perform, timerVars
  <2>2. /\ ttl \in Nat /\ ttl > 0
        /\ answer'[k] = ttl /\ (k = "token" => left'[k] = ttl)
        /\ \A j \in Kinds \ {k} : answer'[j] = answer[j] /\ left'[j] = left[j]
        /\ k # "token" => left' = left
        /\ due[k] \in Nat /\ due[k] <= Delay
    BY <2>1, Numbers DEF TypeOK, Shape
  <2>3. Fresh(k)'
    BY <2>1, <2>2 DEF Fresh
  <2>4. \A j \in Kinds \ {k} : Fresh(j)'
    BY <2>1, <2>2 DEF Fresh, Steady
  <2> QED BY <2>1, <2>2, <2>3, <2>4 DEF Steady, Renewing, Kinds
<1>3. CASE Succeed(k)
  <2> DEFINE half == answer[k] \div 2
  <2>1. /\ pc[k] = "call" /\ answer[k] > 0
        /\ pc' = [pc EXCEPT ![k] = "wait"]
        /\ due' = [due EXCEPT ![k] = half]
        /\ left' = [left EXCEPT ![k] = Rest(k)]
        /\ tight' = [tight EXCEPT ![k] = Rest(k) <= half + Delay]
        /\ answer' = [answer EXCEPT ![k] = 0]
        /\ gaveUp' = [gaveUp EXCEPT ![k] = FALSE]
        /\ UNCHANGED <<strays, stable>>
    BY <1>3 DEF Succeed, Schedule, Learn
  <2>2. due[k] \in Nat /\ left[k] \in Nat /\ answer[k] \in Nat /\ answer[k] # 0
    BY <2>1, Numbers
  <2>3. Rest(k) \in Nat /\ Rest(k) > 0 /\ half + Delay < Rest(k)
    <3>1. CASE k = "token"
      <4>1. answer[k] \in TTLs /\ answer[k] <= left[k] + Delay
        BY <2>2, <3>1 DEF Steady, Fresh
      <4>2. left[k] > 0 /\ answer[k] \div 2 + Delay < left[k]
        BY <2>2, <4>1, HalfIsEarly
      <4> QED BY <2>2, <3>1, <4>2 DEF Rest
    <3>2. CASE k = "cert"
      <4>1. PICK ttl \in TTLs : ttl + due[k] <= answer[k] + Delay
        BY <2>2, <3>2 DEF Steady, Fresh
      <4>2. ttl <= answer[k] + Delay
        BY <2>2, <4>1
      <4>3. answer[k] > 0 /\ answer[k] \div 2 + Delay < answer[k]
        BY <2>2, <4>2, HalfIsEarly
      <4> QED BY <2>2, <3>2, <4>3 DEF Rest
    <3> QED BY <3>1, <3>2 DEF Kinds
  <2>4. half \in Nat
    BY <2>2
  <2> HIDE DEF half
  <2>5. ~(Rest(k) <= half + Delay)
    BY <2>3, <2>4
  <2>6. /\ pc'[k] = "wait" /\ left'[k] = Rest(k) /\ answer'[k] = 0 /\ gaveUp'[k] = FALSE
        /\ tight'[k] = (Rest(k) <= half + Delay)
        /\ \A j \in Kinds \ {k} :
             /\ pc'[j] = pc[j] /\ due'[j] = due[j] /\ left'[j] = left[j] /\ answer'[j] = answer[j]
             /\ tight'[j] = tight[j] /\ gaveUp'[j] = gaveUp[j]
    BY <2>1 DEF TypeOK
  <2>7. ~tight'[k]
    BY <2>5, <2>6, Zenon
  <2>8. \A j \in Kinds : Fresh(j)'
    BY <2>6 DEF Fresh, Steady
  <2>9. \A j \in Kinds : Renewing(j)' <=> Renewing(j)
    BY <2>1, <2>6 DEF Renewing
  <2> QED BY <2>1, <2>3, <2>6, <2>7, <2>8, <2>9 DEF Steady, Kinds
<1>4. ~GiveUp(k) /\ ~\E d \in 1..MaxSleep : Sleep(k, d)
  BY NoneFails DEF GiveUp, Sleep
<1> QED BY <1>1, <1>2, <1>3, <1>4 DEF Renew

\* What changes no more than the metrics server's channel leaves all well.
LEMMA RestSteady ==
  ASSUME Steady, UNCHANGED <<pc, due, left, answer, strays, gaveUp, tight, stable>>
  PROVE  Steady' /\ (Renewing("token")' <=> Renewing("token"))
  BY DEF Steady, Fresh, Renewing

\* Every step of the process keeps WhileUp, as long as Vault is up and
\* extends the token.
LEMMA StepWhileUp ==
  ASSUME StartupIInv, IInv, WhileUp, Quick, up, ~capped, [StartupNext]_processVars
  PROVE  WhileUp'
<1> SUFFICES ASSUME ~shutdown', up', ~capped' PROVE WhileUp'
  BY DEF WhileUp
<1> DEFINE Begun == {"cert", "file", "roots", "server", "gossip", "raft", "running"}
<1>1. ~shutdown
  <2>1. shutdown => shutdown'
    BY StepIsRenewal
    DEF Next, Vault, renewVars, Tick, Switch, Cap, PerformStray, Shutdown, Exit, Begin, Renew,
        Fire, Call, Perform, Succeed, Sleep, GiveUp, Fail, Stop, TakeCertificate
  <2> QED BY <2>1
<1>2. Steady /\ (stage \in Begun => Renewing("token"))
  BY <1>1 DEF WhileUp
<1>3. CASE UNCHANGED processVars
  <2>1. UNCHANGED <<pc, due, left, answer, strays, gaveUp, tight, stable, stage>>
    BY <1>3 DEF processVars, renewVars, timerVars, vaultVars, historyVars, startVars
  <2> QED BY <1>2, <2>1, RestSteady DEF WhileUp
<1>4. CASE Configure \/ NewKube \/ Discover \/ CertificateFromFile \/ LoadRoots \/ Skip
           \/ StartServer \/ NewGossip \/ StartRaft
  <2>1. UNCHANGED <<pc, due, left, answer, strays, gaveUp, tight, stable>>
    BY <1>4
    DEF Configure, NewKube, Discover, CertificateFromFile, LoadRoots, Skip, StartServer, NewGossip,
        StartRaft, renewVars, timerVars, vaultVars, historyVars
  <2>2. stage' \in Begun => stage \in Begun
    BY <1>4
    DEF Configure, NewKube, Discover, CertificateFromFile, LoadRoots, Skip, StartServer, NewGossip,
        StartRaft, Goto
  <2> QED BY <1>2, <2>1, <2>2, RestSteady DEF WhileUp
<1>5. ASSUME NEW ttl \in TTLs, NEW rest \in 0..ttl, NewVault(ttl, rest)
      PROVE  WhileUp'
  <2>1. Begin("token", ttl, rest)
    BY <1>5 DEF NewVault
  <2> QED BY <1>2, <2>1, BeginSteady DEF WhileUp, Kinds
<1>6. ASSUME NEW ttl \in TTLs, NEW rest \in 0..ttl, GetAndRenewCertificate(ttl, rest)
      PROVE  WhileUp'
  <2>1. Begin("cert", ttl, rest) /\ Renewing("token")
    BY <1>2, <1>6 DEF GetAndRenewCertificate, Goto
  <2> QED BY <1>2, <2>1, BeginSteady DEF WhileUp, Kinds
<1>7. CASE Signal
  BY <1>7 DEF Signal, Shutdown
<1>8. CASE Return \/ Fatal \/ Panic
  <2>1. /\ stage' \in {"done", "failed", "panicked"}
        /\ pc' = [k \in Kinds |-> "stopped"] /\ answer' = [k \in Kinds |-> 0]
        /\ UNCHANGED <<strays, gaveUp, stable>>
    BY <1>8 DEF Return, Fatal, Panic, Goto, Exit, historyVars
  <2>2. Steady'
    BY <1>2, <2>1 DEF Steady, Fresh, Renewing, Kinds
  <2> QED BY <2>1, <2>2 DEF WhileUp
<1>9. CASE Beside
  <2>1. stage' = stage
    BY <1>9 DEF Beside, Pass, VaultStep, RenewLease, ServerTakes, startVars
  <2>2. ASSUME NEW k \in Kinds, Renew(k)
        PROVE  WhileUp'
    BY <1>2, <2>1, <2>2, RenewSteady DEF WhileUp
  <2>3. ~\E k \in Kinds : Stop(k)
    BY <1>1 DEF Stop
  <2>4. CASE Tick
    <3>1. Steady'
      BY <1>2, <2>4, TickSteady
    <3>2. pc' = pc
      BY <2>4 DEF Tick
    <3> QED BY <1>2, <2>1, <3>1, <3>2 DEF WhileUp, Renewing
  <2>5. ~Vault
    <3>1. ~Switch /\ ~Cap
      BY DEF Switch, Cap
    <3>2. ASSUME NEW ttl \in TTLs PROVE ~PerformStray(ttl)
      BY <1>2 DEF PerformStray, Steady
    <3> QED BY <3>1, <3>2 DEF Vault
  <2>6. CASE TakeCertificate
    <3>1. UNCHANGED <<pc, due, left, answer, strays, gaveUp, tight, stable>>
      BY <2>6 DEF TakeCertificate, timerVars, vaultVars, historyVars
    <3> QED BY <1>2, <2>1, <3>1, RestSteady DEF WhileUp
  <2> QED BY <1>9, <2>2, <2>3, <2>4, <2>5, <2>6 DEF Beside, Pass, VaultStep, RenewLease, ServerTakes
<1> QED BY <1>3, <1>4, <1>5, <1>6, <1>7, <1>8, <1>9 DEF StartupNext, Run

\* A controller whose Vault is always up, and extends its token, loses
\* neither the token nor the certificate before its shutdown, however the
\* two renewals interleave with each other and with the stages of Run, for
\* all leases whose half is longer than two answers.
THEOREM ReachableVaultKeepsLeasesHolds == StartupSpec => ReachableVaultKeepsLeases
<1> SUFFICES ASSUME Quick
             PROVE  StartupSpec /\ [](up /\ ~capped) =>
                      [](\A k \in Kinds : Renewing(k) /\ ~shutdown => left[k] > 0)
  BY DEF ReachableVaultKeepsLeases, Quick
<1>1. StartupInit => WhileUp
  BY DEF StartupInit, Init, WhileUp, Steady, Fresh, Renewing, Kinds
<1>2. StartupSpec => []IInv
  BY ImplementsRenewal, Invariance, PTL
<1>3. StartupIInv /\ IInv /\ WhileUp /\ up /\ ~capped /\ [StartupNext]_processVars => WhileUp'
  BY StepWhileUp
<1>4. WhileUp /\ up /\ ~capped => \A k \in Kinds : Renewing(k) /\ ~shutdown => left[k] > 0
  BY DEF WhileUp, Steady
<1> QED BY <1>1, <1>2, <1>3, <1>4, StartupInvariance, PTL DEF StartupSpec
=============================================================================
