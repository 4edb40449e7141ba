-------------------------- MODULE SessionWorldProofs --------------------------
(***************************************************************************)
(* What every operation of Session does to the reference counts and to the *)
(* token lists, stated over a ledger of who refers to what.  The proofs    *)
(* hold for all files, names and settings; SessionProofs combines them     *)
(* into the invariants of the program.                                     *)
(***************************************************************************)
EXTENDS Session, TokenizerProofs, FiniteSetTheorems

-----------------------------------------------------------------------------
(* A ledger says how many refer to each object, apart from the tokens that *)
(* refer to a metaname.  S3 is there while the program has it, which its   *)
(* count does not include.                                                 *)

TokenObjects == [kind : {"token"}, n : Nat, meta : Nat]
Objects ==
  {S3, Config, Analyzer, Parser} \cup {Iterator(d) : d \in Nat} \cup {Meta(m) : m \in Nat}
    \cup TokenObjects

Up(base, o)   == [base EXCEPT ![o] = @ + 1]
Down(base, o) == [base EXCEPT ![o] = @ - 1]

Holding(refs, m) == {t \in DOMAIN refs : t.kind = "token" /\ t.meta = m}
Owed(refs, base, o) ==
  base[o] + IF o.kind = "meta" THEN Cardinality(Holding(refs, o.n)) ELSE 0
Exact(refs, base) ==
  /\ base \in [Objects -> Nat]
  /\ refs = [o \in DOMAIN refs |-> refs[o]] /\ DOMAIN refs \subseteq Objects
  /\ IsFiniteSet(DOMAIN refs)
  /\ \A o \in Objects :
       /\ o \in DOMAIN refs <=> Owed(refs, base, o) > 0
       /\ o \in DOMAIN refs => refs[o] = Owed(refs, base, o) - (IF o = S3 THEN 1 ELSE 0)

LEMMA ObjectKind ==
  ASSUME NEW o \in Objects
  PROVE  /\ o = [kind |-> o.kind, n |-> o.n, meta |-> o.meta] /\ o.n \in Nat
         /\ o.kind \in ObjectKinds
         /\ o.kind = "s3" <=> o = S3
         /\ o.kind = "config" <=> o = Config
         /\ o.kind = "analyzer" <=> o = Analyzer
         /\ o.kind = "parser" <=> o = Parser
         /\ o.kind = "iterator" => o = Iterator(o.n)
         /\ o.kind = "meta" => o = Meta(o.n)
         /\ o.kind = "token" <=> o \in TokenObjects
BY DEF Objects, S3, Config, Analyzer, Parser, Iterator, Meta, Object, TokenObjects, ObjectKinds

LEMMA KindsOf ==
  /\ S3 \in Objects /\ S3.kind = "s3" /\ Config \in Objects /\ Config.kind = "config"
  /\ Analyzer \in Objects /\ Analyzer.kind = "analyzer" /\ Parser \in Objects /\ Parser.kind = "parser"
  /\ \A d \in Nat : Iterator(d) \in Objects /\ Iterator(d).kind = "iterator" /\ Iterator(d).n = d
  /\ \A m \in Nat : Meta(m) \in Objects /\ Meta(m).kind = "meta" /\ Meta(m).n = m
  /\ \A t \in Tokens : Token(t) \in TokenObjects /\ Token(t) \in Objects /\ Token(t).kind = "token"
                       /\ Token(t).n = t.n /\ Token(t).meta = t.meta
BY DEF Objects, S3, Config, Analyzer, Parser, Iterator, Meta, Token, Object, TokenObjects, Tokens

\* The tokens that refer to a metaname are finitely many.
LEMMA HoldingFinite ==
  ASSUME NEW refs, IsFiniteSet(DOMAIN refs), NEW m
  PROVE  IsFiniteSet(Holding(refs, m)) /\ Cardinality(Holding(refs, m)) \in Nat
<1>1. Holding(refs, m) \subseteq DOMAIN refs
  BY DEF Holding
<1>2. IsFiniteSet(Holding(refs, m))
  BY <1>1, FS_Subset
<1> QED BY <1>2, FS_CardinalityType

LEMMA OwedType ==
  ASSUME NEW refs, NEW base, Exact(refs, base), NEW o \in Objects
  PROVE  /\ Owed(refs, base, o) \in Nat /\ base[o] \in Nat /\ Owed(refs, base, o) >= base[o]
         /\ o.kind # "meta" => Owed(refs, base, o) = base[o]
<1>1. IsFiniteSet(DOMAIN refs) /\ base[o] \in Nat
  BY DEF Exact
<1>2. Cardinality(Holding(refs, o.n)) \in Nat
  BY <1>1, HoldingFinite
<1> QED BY <1>1, <1>2 DEF Owed

\* Where the same tokens are there, as much more is owed as the ledger says.
LEMMA OwedChange ==
  ASSUME NEW refs, NEW base, Exact(refs, base), NEW new, NEW o \in Objects, NEW k \in Int,
         \A t : t.kind = "token" => (t \in DOMAIN new <=> t \in DOMAIN refs),
         NEW q \in Objects
  PROVE  Owed(new, [base EXCEPT ![o] = @ + k], q) = Owed(refs, base, q) + (IF q = o THEN k ELSE 0)
<1>1. Holding(new, q.n) = Holding(refs, q.n)
  BY DEF Holding
<1>2. base \in [Objects -> Nat]
  BY DEF Exact
<1>3. [base EXCEPT ![o] = @ + k][q] = base[q] + (IF q = o THEN k ELSE 0)
  BY <1>2
<1>4. Cardinality(Holding(refs, q.n)) \in Nat /\ base[q] \in Nat
  BY <1>2, HoldingFinite DEF Exact
<1> QED BY <1>1, <1>3, <1>4 DEF Owed

\* A reference more to an object that is there.
LEMMA IncExact ==
  ASSUME NEW refs, NEW base, Exact(refs, base), NEW o \in DOMAIN refs
  PROVE  Exact(Inc(refs, o), Up(base, o)) /\ DOMAIN Inc(refs, o) = DOMAIN refs
<1> DEFINE new  == Inc(refs, o)
           more == [base EXCEPT ![o] = @ + 1]
<1>1. o \in Objects /\ base \in [Objects -> Nat] /\ refs = [q \in DOMAIN refs |-> refs[q]]
  BY DEF Exact
<1>2. DOMAIN new = DOMAIN refs /\ new = [q \in DOMAIN new |-> new[q]]
      /\ \A q \in DOMAIN refs : new[q] = IF q = o THEN refs[q] + 1 ELSE refs[q]
  BY DEF Inc
<1>3. more \in [Objects -> Nat]
  BY <1>1
<1>4. \A q \in Objects : Owed(new, more, q) = Owed(refs, base, q) + (IF q = o THEN 1 ELSE 0)
  <2>1. \A t : t.kind = "token" => (t \in DOMAIN new <=> t \in DOMAIN refs)
    <3> HIDE DEF new
    <3> QED BY <1>2
  <2>2. o \in Objects
    BY <1>1
  <2> HIDE DEF new
  <2> QED BY <2>1, <2>2, OwedChange
<1> HIDE DEF new, more
<1>5. ASSUME NEW q \in Objects
      PROVE  /\ q \in DOMAIN new <=> Owed(new, more, q) > 0
             /\ q \in DOMAIN new => new[q] = Owed(new, more, q) - (IF q = S3 THEN 1 ELSE 0)
  <2>1. Owed(refs, base, q) \in Nat
    BY OwedType
  <2>2. /\ q \in DOMAIN refs <=> Owed(refs, base, q) > 0
        /\ q \in DOMAIN refs => refs[q] = Owed(refs, base, q) - (IF q = S3 THEN 1 ELSE 0)
    BY DEF Exact
  <2> QED BY <1>2, <1>4, <2>1, <2>2
<1>6. Exact(new, more)
  BY <1>2, <1>3, <1>5 DEF Exact
<1> QED BY <1>2, <1>6 DEF new, more, Up

\* An object that is not there yet, with one reference.
LEMMA AllocateExact ==
  ASSUME NEW refs, NEW base, Exact(refs, base), NEW o \in Objects, o \notin DOMAIN refs,
         o.kind # "token", o # S3
  PROVE  /\ Exact(Allocate(refs, o, 1), Up(base, o))
         /\ DOMAIN Allocate(refs, o, 1) = DOMAIN refs \cup {o}
<1> DEFINE new  == Allocate(refs, o, 1)
           more == [base EXCEPT ![o] = @ + 1]
<1>1. base \in [Objects -> Nat]
  BY DEF Exact
<1>2. DOMAIN new = DOMAIN refs \cup {o} /\ new = [q \in DOMAIN new |-> new[q]]
      /\ \A q \in DOMAIN new : new[q] = IF q = o THEN 1 ELSE refs[q]
  BY DEF Allocate
<1>3. more \in [Objects -> Nat]
  BY <1>1
<1>4. \A q \in Objects : Owed(new, more, q) = Owed(refs, base, q) + (IF q = o THEN 1 ELSE 0)
  <2>1. \A t : t.kind = "token" => (t \in DOMAIN new <=> t \in DOMAIN refs)
    <3> HIDE DEF new
    <3> QED BY <1>2
  <2> HIDE DEF new
  <2> QED BY <2>1, OwedChange
<1> HIDE DEF new, more
<1>5. ASSUME NEW q \in Objects
      PROVE  /\ q \in DOMAIN new <=> Owed(new, more, q) > 0
             /\ q \in DOMAIN new => new[q] = Owed(new, more, q) - (IF q = S3 THEN 1 ELSE 0)
  <2>1. Owed(refs, base, q) \in Nat
    BY OwedType
  <2>2. /\ q \in DOMAIN refs <=> Owed(refs, base, q) > 0
        /\ q \in DOMAIN refs => refs[q] = Owed(refs, base, q) - (IF q = S3 THEN 1 ELSE 0)
    BY DEF Exact
  <2>3. CASE q = o
    <3>1. Owed(refs, base, q) = 0
      BY <2>1, <2>2, <2>3
    <3> QED BY <1>2, <1>4, <2>3, <3>1
  <2>4. CASE q # o
    BY <1>2, <1>4, <2>1, <2>2, <2>4
  <2> QED BY <2>3, <2>4
<1>6. IsFiniteSet(DOMAIN new) /\ DOMAIN new \subseteq Objects
  BY <1>2, FS_AddElement DEF Exact
<1>7. Exact(new, more)
  BY <1>2, <1>3, <1>5, <1>6 DEF Exact
<1> QED BY <1>2, <1>7 DEF new, more, Up

\* A reference less; with the last one the object is gone.
LEMMA ReleasePlainExact ==
  ASSUME NEW refs, NEW base, Exact(refs, base), NEW o \in Objects, base[o] > 0,
         o.kind # "token", o # S3
  PROVE  Exact(ReleasePlain(refs, o), Down(base, o))
<1> DEFINE new  == ReleasePlain(refs, o)
           less == [base EXCEPT ![o] = @ - 1]
<1>1. base \in [Objects -> Nat] /\ refs = [q \in DOMAIN refs |-> refs[q]]
  BY DEF Exact
<1>2. o \in DOMAIN refs /\ refs[o] = Owed(refs, base, o) /\ refs[o] \in Nat /\ refs[o] > 0
  <2>1. Owed(refs, base, o) \in Nat /\ Owed(refs, base, o) >= base[o] /\ base[o] \in Nat
    BY OwedType
  <2>2. /\ o \in DOMAIN refs <=> Owed(refs, base, o) > 0
        /\ o \in DOMAIN refs => refs[o] = Owed(refs, base, o) - (IF o = S3 THEN 1 ELSE 0)
    BY DEF Exact
  <2> QED BY <2>1, <2>2
<1>3. /\ new = [q \in DOMAIN new |-> new[q]]
      /\ DOMAIN new = IF refs[o] <= 1 THEN DOMAIN refs \ {o} ELSE DOMAIN refs
      /\ \A q \in DOMAIN new : new[q] = IF q = o THEN refs[q] - 1 ELSE refs[q]
  BY <1>1, <1>2 DEF ReleasePlain, Dispose, Dec
<1>4. less \in [Objects -> Nat]
  BY <1>1
<1>5. \A q \in Objects : Owed(new, less, q) = Owed(refs, base, q) + (IF q = o THEN -1 ELSE 0)
  <2>1. \A t : t.kind = "token" => (t \in DOMAIN new <=> t \in DOMAIN refs)
    <3> HIDE DEF new
    <3> QED BY <1>3
  <2>2. PICK k \in Int : k = -1
    OBVIOUS
  <2>3. less = [base EXCEPT ![o] = @ + k]
    BY <1>1, <2>2
  <2> HIDE DEF new, less
  <2>4. \A q \in Objects :
          Owed(new, [base EXCEPT ![o] = @ + k], q) = Owed(refs, base, q) + (IF q = o THEN k ELSE 0)
    BY <2>1, OwedChange
  <2> QED BY <2>2, <2>3, <2>4
<1> HIDE DEF new, less
<1>6. ASSUME NEW q \in Objects
      PROVE  /\ q \in DOMAIN new <=> Owed(new, less, q) > 0
             /\ q \in DOMAIN new => new[q] = Owed(new, less, q) - (IF q = S3 THEN 1 ELSE 0)
  <2>1. Owed(refs, base, q) \in Nat
    BY OwedType
  <2>2. /\ q \in DOMAIN refs <=> Owed(refs, base, q) > 0
        /\ q \in DOMAIN refs => refs[q] = Owed(refs, base, q) - (IF q = S3 THEN 1 ELSE 0)
    BY DEF Exact
  <2>3. CASE q = o
    BY <1>2, <1>3, <1>5, <2>3
  <2>4. CASE q # o
    BY <1>3, <1>5, <2>1, <2>2, <2>4
  <2> QED BY <2>3, <2>4
<1>7. IsFiniteSet(DOMAIN new) /\ DOMAIN new \subseteq Objects
  <2>1. DOMAIN new \subseteq DOMAIN refs
    BY <1>3
  <2> QED BY <2>1, FS_Subset DEF Exact
<1>8. Exact(new, less)
  BY <1>3, <1>4, <1>6, <1>7 DEF Exact
<1> QED BY <1>8 DEF new, less, Down

\* A new token refers to its metaname.
LEMMA CountTokenExact ==
  ASSUME NEW refs, NEW base, Exact(refs, base), NEW t \in Tokens, Token(t) \notin DOMAIN refs,
         Meta(t.meta) \in DOMAIN refs
  PROVE  Exact(CountToken(refs, t), Up(base, Token(t)))
<1> DEFINE new  == CountToken(refs, t)
           o    == Token(t)
           m    == Meta(t.meta)
           more == [base EXCEPT ![o] = @ + 1]
<1>1. base \in [Objects -> Nat] /\ o \in Objects /\ m \in Objects /\ o.kind = "token" /\ o.meta = t.meta
      /\ m.kind = "meta" /\ m.n = t.meta /\ t.meta \in Nat
  <2>1. t.meta \in Nat
    BY DEF Tokens
  <2> QED BY <2>1, KindsOf DEF Exact
<1>2. m # o
  <2> HIDE DEF m, o
  <2> QED BY <1>1
<1>3. DOMAIN new = DOMAIN refs \cup {o} /\ new = [q \in DOMAIN new |-> new[q]]
      /\ \A q \in DOMAIN new : new[q] = IF q = o THEN 1 ELSE IF q = m THEN refs[q] + 1 ELSE refs[q]
  <2> HIDE DEF m, o
  <2>1. m \in DOMAIN refs /\ o \notin DOMAIN refs
    BY DEF m, o
  <2>2. new = [[p \in DOMAIN refs \cup {o} |-> IF p = o THEN 1 ELSE refs[p]] EXCEPT ![m] = @ + 1]
    BY DEF CountToken, Inc, Allocate, o, m
  <2> HIDE DEF new
  <2> QED BY <1>2, <2>1, <2>2
<1>0. o \notin DOMAIN refs /\ m \in DOMAIN refs
  OBVIOUS
<1> HIDE DEF new, more, o, m
<1>4. more \in [Objects -> Nat] /\ \A q \in Objects : more[q] = base[q] + (IF q = o THEN 1 ELSE 0)
  BY <1>1 DEF more
<1>5. Holding(new, t.meta) = Holding(refs, t.meta) \cup {o} /\ o \notin Holding(refs, t.meta)
  BY <1>0, <1>1, <1>3 DEF Holding
<1>6. \A n : n # t.meta => Holding(new, n) = Holding(refs, n)
  BY <1>1, <1>3 DEF Holding
<1>7. Cardinality(Holding(new, t.meta)) = Cardinality(Holding(refs, t.meta)) + 1
  <2>1. IsFiniteSet(Holding(refs, t.meta))
    BY HoldingFinite DEF Exact
  <2> QED BY <1>5, <2>1, FS_AddElement
<1>8. ASSUME NEW q \in Objects
      PROVE  Owed(new, more, q) = Owed(refs, base, q) + (IF q = o \/ q = m THEN 1 ELSE 0)
  <2>1. base[q] \in Nat /\ Cardinality(Holding(refs, q.n)) \in Nat
    BY HoldingFinite DEF Exact
  <2>2. CASE q = m
    BY <1>1, <1>2, <1>4, <1>7, <2>1, <2>2 DEF Owed
  <2>3. CASE q = o
    BY <1>1, <1>2, <1>4, <2>1, <2>3 DEF Owed
  <2>4. CASE q # m /\ q # o
    <3>1. q.kind = "meta" => q.n # t.meta
      BY <2>4, ObjectKind DEF m
    <3> QED BY <1>4, <1>6, <2>1, <2>4, <3>1 DEF Owed
  <2> QED BY <2>2, <2>3, <2>4
<1>9. ASSUME NEW q \in Objects
      PROVE  /\ q \in DOMAIN new <=> Owed(new, more, q) > 0
             /\ q \in DOMAIN new => new[q] = Owed(new, more, q) - (IF q = S3 THEN 1 ELSE 0)
  <2>1. Owed(refs, base, q) \in Nat
    BY OwedType
  <2>2. /\ q \in DOMAIN refs <=> Owed(refs, base, q) > 0
        /\ q \in DOMAIN refs => refs[q] = Owed(refs, base, q) - (IF q = S3 THEN 1 ELSE 0)
    BY DEF Exact
  <2>3. o # S3 /\ m # S3
    BY <1>1, KindsOf
  <2>4. CASE q = o
    BY <1>0, <1>2, <1>3, <1>8, <2>1, <2>2, <2>3, <2>4
  <2>5. CASE q = m
    BY <1>0, <1>2, <1>3, <1>8, <2>1, <2>2, <2>3, <2>5
  <2>6. CASE q # m /\ q # o
    BY <1>3, <1>8, <2>1, <2>2, <2>6
  <2> QED BY <2>4, <2>5, <2>6
<1>10. IsFiniteSet(DOMAIN new) /\ DOMAIN new \subseteq Objects
  <2>1. IsFiniteSet(DOMAIN refs) /\ DOMAIN refs \subseteq Objects
    BY DEF Exact
  <2> QED BY <1>1, <1>3, <2>1, FS_AddElement
<1>11. Exact(new, more)
  BY <1>3, <1>4, <1>9, <1>10 DEF Exact
<1> QED BY <1>11 DEF new, more, o, Up

\* A token that is gone lets go of its metaname.
LEMMA ReleaseTokenExact ==
  ASSUME NEW refs, NEW base, Exact(refs, base), NEW o \in TokenObjects, base[o] > 0
  PROVE  Exact(ReleaseToken(refs, o), Down(base, o))
<1> DEFINE new  == ReleaseToken(refs, o)
           m    == Meta(o.meta)
           less == [base EXCEPT ![o] = @ - 1]
<1>1. base \in [Objects -> Nat] /\ o \in Objects /\ m \in Objects /\ o.kind = "token" /\ o.meta \in Nat
      /\ m.kind = "meta" /\ m.n = o.meta /\ refs = [q \in DOMAIN refs |-> refs[q]]
  <2>1. o.meta \in Nat /\ o \in Objects /\ o.kind = "token"
    BY DEF TokenObjects, Objects
  <2> QED BY <2>1, KindsOf DEF Exact
<1>2. m # o /\ o # S3 /\ m # S3
  <2> HIDE DEF m
  <2> QED BY <1>1, KindsOf
<1>3. o \in DOMAIN refs /\ refs[o] = base[o] /\ base[o] \in Nat
  <2>1. Owed(refs, base, o) = base[o] /\ base[o] \in Nat
    BY <1>1, OwedType
  <2>2. /\ o \in DOMAIN refs <=> Owed(refs, base, o) > 0
        /\ o \in DOMAIN refs => refs[o] = Owed(refs, base, o) - (IF o = S3 THEN 1 ELSE 0)
    BY <1>1 DEF Exact
  <2> QED BY <1>2, <2>1, <2>2
<1> HIDE DEF m
<1>4. o \in Holding(refs, o.meta) /\ IsFiniteSet(Holding(refs, o.meta))
  <2>1. IsFiniteSet(DOMAIN refs)
    BY DEF Exact
  <2>2. o \in Holding(refs, o.meta)
    BY <1>1, <1>3 DEF Holding
  <2>3. IsFiniteSet(Holding(refs, o.meta))
    BY <2>1, HoldingFinite
  <2> QED BY <2>2, <2>3
<1>5. Cardinality(Holding(refs, o.meta)) \in Nat /\ Cardinality(Holding(refs, o.meta)) > 0
      /\ Cardinality(Holding(refs, o.meta) \ {o}) = Cardinality(Holding(refs, o.meta)) - 1
  <2>1. Holding(refs, o.meta) # {}
    BY <1>4
  <2>2. Cardinality(Holding(refs, o.meta)) \in Nat /\ Cardinality(Holding(refs, o.meta)) # 0
    BY <1>4, <2>1, FS_CardinalityType, FS_EmptySet
  <2>3. Cardinality(Holding(refs, o.meta) \ {o}) = Cardinality(Holding(refs, o.meta)) - 1
    BY <1>4, FS_RemoveElement
  <2> QED BY <2>2, <2>3
<1>6. Owed(refs, base, m) = base[m] + Cardinality(Holding(refs, o.meta)) /\ base[m] \in Nat
  BY <1>1 DEF Owed
<1>7. m \in DOMAIN refs /\ refs[m] = Owed(refs, base, m) /\ refs[m] \in Nat /\ refs[m] > 0
  <2>1. /\ m \in DOMAIN refs <=> Owed(refs, base, m) > 0
        /\ m \in DOMAIN refs => refs[m] = Owed(refs, base, m) - (IF m = S3 THEN 1 ELSE 0)
    BY <1>1 DEF Exact
  <2> QED BY <1>2, <1>5, <1>6, <2>1
<1>8. less \in [Objects -> Nat] /\ \A q \in Objects : less[q] = IF q = o THEN base[q] - 1 ELSE base[q]
  BY <1>1, <1>3
<1> HIDE DEF less
<1>9. CASE base[o] > 1
  <2>1. new = Dec(refs, o)
    BY <1>3, <1>9 DEF ReleaseToken
  <2>2. DOMAIN new = DOMAIN refs /\ new = [q \in DOMAIN new |-> new[q]]
        /\ \A q \in DOMAIN new : new[q] = IF q = o THEN refs[q] - 1 ELSE refs[q]
    BY <2>1 DEF Dec
  <2> HIDE DEF new
  <2>3. ASSUME NEW q \in Objects
        PROVE  Owed(new, less, q) = Owed(refs, base, q) + (IF q = o THEN -1 ELSE 0)
    <3>1. Holding(new, q.n) = Holding(refs, q.n)
      BY <2>2 DEF Holding
    <3>2. base[q] \in Nat /\ Cardinality(Holding(refs, q.n)) \in Nat
      BY HoldingFinite DEF Exact
    <3> QED BY <1>1, <1>3, <1>8, <3>1, <3>2 DEF Owed
  <2>4. ASSUME NEW q \in Objects
        PROVE  /\ q \in DOMAIN new <=> Owed(new, less, q) > 0
               /\ q \in DOMAIN new => new[q] = Owed(new, less, q) - (IF q = S3 THEN 1 ELSE 0)
    <3>1. Owed(refs, base, q) \in Nat
      BY OwedType
    <3>2. /\ q \in DOMAIN refs <=> Owed(refs, base, q) > 0
          /\ q \in DOMAIN refs => refs[q] = Owed(refs, base, q) - (IF q = S3 THEN 1 ELSE 0)
      BY DEF Exact
    <3>3. CASE q = o
      <4>1. Owed(refs, base, q) = refs[o] /\ refs[o] > 1
        BY <1>2, <1>3, <1>9, <3>1, <3>2, <3>3
      <4> QED BY <1>2, <1>3, <2>2, <2>3, <3>1, <3>3, <4>1
    <3>4. CASE q # o
      BY <2>2, <2>3, <3>1, <3>2, <3>4
    <3> QED BY <3>3, <3>4
  <2>5. IsFiniteSet(DOMAIN new) /\ DOMAIN new \subseteq Objects
    BY <2>2 DEF Exact
  <2>6. Exact(new, less)
    BY <1>8, <2>2, <2>4, <2>5 DEF Exact
  <2> QED BY <2>6 DEF new, less, Down
<1>10. CASE base[o] = 1
  <2>1. new = Dispose(ReleasePlain(refs, m), o)
    BY <1>3, <1>10 DEF ReleaseToken, m
  <2>2. /\ new = [q \in DOMAIN new |-> new[q]]
        /\ DOMAIN new = (IF refs[m] <= 1 THEN DOMAIN refs \ {m} ELSE DOMAIN refs) \ {o}
        /\ \A q \in DOMAIN new : new[q] = IF q = m THEN refs[q] - 1 ELSE refs[q]
    <3>1. CASE refs[m] <= 1
      BY <1>1, <1>7, <2>1, <3>1 DEF ReleasePlain, Dispose
    <3>2. CASE ~(refs[m] <= 1)
      BY <1>1, <1>2, <1>7, <2>1, <3>2 DEF ReleasePlain, Dispose, Dec
    <3> QED BY <3>1, <3>2
  <2> HIDE DEF new
  <2>3. Holding(new, o.meta) = Holding(refs, o.meta) \ {o}
    <3>1. \A q : q.kind = "token" => q # m
      BY <1>1
    <3> QED BY <2>2, <3>1 DEF Holding
  <2>4. \A n : n # o.meta => Holding(new, n) = Holding(refs, n)
    <3>1. \A q : q.kind = "token" => q # m
      BY <1>1
    <3> QED BY <2>2, <3>1 DEF Holding
  <2>5. ASSUME NEW q \in Objects
        PROVE  Owed(new, less, q) = Owed(refs, base, q) + (IF q = o \/ q = m THEN -1 ELSE 0)
    <3>1. base[q] \in Nat /\ Cardinality(Holding(refs, q.n)) \in Nat
      BY HoldingFinite DEF Exact
    <3>2. CASE q = m
      <4>1. less[m] = base[m] /\ base[m] \in Nat
        BY <1>1, <1>2, <1>8, <3>1, <3>2
      <4>2. Cardinality(Holding(new, m.n)) = Cardinality(Holding(refs, m.n)) - 1
        BY <1>1, <1>5, <2>3
      <4>3. Owed(new, less, m) = less[m] + Cardinality(Holding(new, m.n))
            /\ Owed(refs, base, m) = base[m] + Cardinality(Holding(refs, m.n))
        BY <1>1 DEF Owed
      <4> QED BY <3>1, <3>2, <4>1, <4>2, <4>3
    <3>3. CASE q = o
      BY <1>1, <1>2, <1>8, <3>1, <3>3 DEF Owed
    <3>4. CASE q # m /\ q # o
      <4>1. q.kind = "meta" => q.n # o.meta
        BY <3>4, ObjectKind DEF m
      <4> QED BY <1>8, <2>4, <3>1, <3>4, <4>1 DEF Owed
    <3> QED BY <3>2, <3>3, <3>4
  <2>6. ASSUME NEW q \in Objects
        PROVE  /\ q \in DOMAIN new <=> Owed(new, less, q) > 0
               /\ q \in DOMAIN new => new[q] = Owed(new, less, q) - (IF q = S3 THEN 1 ELSE 0)
    <3>1. Owed(refs, base, q) \in Nat
      BY OwedType
    <3>2. /\ q \in DOMAIN refs <=> Owed(refs, base, q) > 0
          /\ q \in DOMAIN refs => refs[q] = Owed(refs, base, q) - (IF q = S3 THEN 1 ELSE 0)
      BY DEF Exact
    <3>3. CASE q = o
      <4>1. Owed(refs, base, q) = 1
        BY <1>2, <1>3, <1>10, <3>1, <3>2, <3>3
      <4> QED BY <2>2, <2>5, <3>3, <4>1
    <3>4. CASE q = m
      BY <1>2, <1>7, <2>2, <2>5, <3>4
    <3>5. CASE q # m /\ q # o
      BY <2>2, <2>5, <3>1, <3>2, <3>5
    <3> QED BY <3>3, <3>4, <3>5
  <2>7. IsFiniteSet(DOMAIN new) /\ DOMAIN new \subseteq Objects
    <3>1. DOMAIN new \subseteq DOMAIN refs
      BY <2>2
    <3> QED BY <3>1, FS_Subset DEF Exact
  <2>8. Exact(new, less)
    BY <1>8, <2>2, <2>6, <2>7 DEF Exact
  <2> QED BY <2>8 DEF new, less, Down
<1> QED BY <1>3, <1>9, <1>10

\* A parser lets go of the swish_3, which stays.
LEMMA DecS3Exact ==
  ASSUME NEW refs, NEW base, Exact(refs, base), base[S3] > 1
  PROVE  Exact(Dec(refs, S3), Down(base, S3))
<1> DEFINE new  == Dec(refs, S3)
           less == [base EXCEPT ![S3] = @ - 1]
<1>1. base \in [Objects -> Nat] /\ refs = [q \in DOMAIN refs |-> refs[q]] /\ S3 \in Objects
      /\ S3.kind = "s3"
  BY KindsOf DEF Exact
<1>2. DOMAIN new = DOMAIN refs /\ new = [q \in DOMAIN new |-> new[q]]
      /\ \A q \in DOMAIN new : new[q] = IF q = S3 THEN refs[q] - 1 ELSE refs[q]
  BY <1>1 DEF Dec
<1>3. less \in [Objects -> Nat] /\ \A q \in Objects : less[q] = IF q = S3 THEN base[q] - 1 ELSE base[q]
  BY <1>1
<1> HIDE DEF new, less
<1>4. ASSUME NEW q \in Objects
      PROVE  Owed(new, less, q) = Owed(refs, base, q) + (IF q = S3 THEN -1 ELSE 0)
  <2>1. Holding(new, q.n) = Holding(refs, q.n)
    BY <1>2 DEF Holding
  <2>2. base[q] \in Nat /\ Cardinality(Holding(refs, q.n)) \in Nat
    BY HoldingFinite DEF Exact
  <2> QED BY <1>1, <1>3, <2>1, <2>2 DEF Owed
<1>5. ASSUME NEW q \in Objects
      PROVE  /\ q \in DOMAIN new <=> Owed(new, less, q) > 0
             /\ q \in DOMAIN new => new[q] = Owed(new, less, q) - (IF q = S3 THEN 1 ELSE 0)
  <2>1. Owed(refs, base, q) \in Nat /\ (q.kind # "meta" => Owed(refs, base, q) = base[q])
    BY OwedType
  <2>2. /\ q \in DOMAIN refs <=> Owed(refs, base, q) > 0
        /\ q \in DOMAIN refs => refs[q] = Owed(refs, base, q) - (IF q = S3 THEN 1 ELSE 0)
    BY DEF Exact
  <2>3. CASE q = S3
    <3>1. Owed(refs, base, q) > 1
      BY <1>1, <2>1, <2>3
    <3> QED BY <1>2, <1>4, <2>1, <2>2, <2>3, <3>1
  <2>4. CASE q # S3
    BY <1>2, <1>4, <2>1, <2>2, <2>4
  <2> QED BY <2>3, <2>4
<1>6. IsFiniteSet(DOMAIN new) /\ DOMAIN new \subseteq Objects
  BY <1>2 DEF Exact
<1>7. Exact(new, less)
  BY <1>2, <1>3, <1>5, <1>6 DEF Exact
<1> QED BY <1>7 DEF new, less, Down

\* The program frees the swish_3.
LEMMA DisposeS3Exact ==
  ASSUME NEW refs, NEW base, Exact(refs, base), base[S3] = 1
  PROVE  Exact(Dispose(refs, S3), Down(base, S3))
<1> DEFINE new  == Dispose(refs, S3)
           less == [base EXCEPT ![S3] = @ - 1]
<1>1. base \in [Objects -> Nat] /\ refs = [q \in DOMAIN refs |-> refs[q]] /\ S3 \in Objects
      /\ S3.kind = "s3"
  BY KindsOf DEF Exact
<1>2. DOMAIN new = DOMAIN refs \ {S3} /\ new = [q \in DOMAIN new |-> new[q]]
      /\ \A q \in DOMAIN new : new[q] = refs[q]
  BY <1>1 DEF Dispose
<1>3. less \in [Objects -> Nat] /\ \A q \in Objects : less[q] = IF q = S3 THEN 0 ELSE base[q]
  BY <1>1
<1> HIDE DEF new, less
<1>4. ASSUME NEW q \in Objects
      PROVE  Owed(new, less, q) = IF q = S3 THEN 0 ELSE Owed(refs, base, q)
  <2>1. Holding(new, q.n) = Holding(refs, q.n)
    BY <1>1, <1>2 DEF Holding
  <2>2. base[q] \in Nat /\ Cardinality(Holding(refs, q.n)) \in Nat
    BY HoldingFinite DEF Exact
  <2> QED BY <1>1, <1>3, <2>1, <2>2 DEF Owed
<1>5. ASSUME NEW q \in Objects
      PROVE  /\ q \in DOMAIN new <=> Owed(new, less, q) > 0
             /\ q \in DOMAIN new => new[q] = Owed(new, less, q) - (IF q = S3 THEN 1 ELSE 0)
  <2>2. /\ q \in DOMAIN refs <=> Owed(refs, base, q) > 0
        /\ q \in DOMAIN refs => refs[q] = Owed(refs, base, q) - (IF q = S3 THEN 1 ELSE 0)
    BY DEF Exact
  <2> QED BY <1>2, <1>4, <2>2
<1>6. IsFiniteSet(DOMAIN new) /\ DOMAIN new \subseteq Objects
  <2>1. DOMAIN new \subseteq DOMAIN refs
    BY <1>2
  <2> QED BY <2>1, FS_Subset DEF Exact
<1>7. Exact(new, less)
  BY <1>2, <1>3, <1>5, <1>6 DEF Exact
<1> QED BY <1>7 DEF new, less, Down

-----------------------------------------------------------------------------
(* The same for all tokens of a list and all metanames.                    *)

Plus(base, S)  == [o \in Objects |-> base[o] + IF o \in S THEN 1 ELSE 0]
Minus(base, S) == [o \in Objects |-> base[o] - IF o \in S THEN 1 ELSE 0]

LEMMA PlusOne ==
  ASSUME NEW base \in [Objects -> Nat], NEW S, NEW o \in Objects, o \notin S
  PROVE  /\ Up(Plus(base, S), o) = Plus(base, S \cup {o})
         /\ Down(Minus(base, S), o) = Minus(base, S \cup {o})
         /\ Plus(base, S)[o] = base[o] /\ Minus(base, S)[o] = base[o]
<1>1. \A q \in Objects : base[q] \in Nat
  OBVIOUS
<1>2. ASSUME NEW q \in Objects
      PROVE  /\ Up(Plus(base, S), o)[q] = Plus(base, S \cup {o})[q]
             /\ Down(Minus(base, S), o)[q] = Minus(base, S \cup {o})[q]
  BY <1>1 DEF Plus, Minus, Up, Down
<1>3. Up(Plus(base, S), o) = Plus(base, S \cup {o})
  BY <1>2 DEF Plus, Up
<1>4. Down(Minus(base, S), o) = Minus(base, S \cup {o})
  BY <1>2 DEF Minus, Down
<1>5. Plus(base, S)[o] = base[o] /\ Minus(base, S)[o] = base[o]
  BY <1>1 DEF Plus, Minus
<1> QED BY <1>3, <1>4, <1>5

LEMMA MinusOne ==
  ASSUME NEW base \in [Objects -> Nat], NEW S, NEW o \in Objects, o \notin S
  PROVE  Down(Minus(base, S), o) = Minus(base, S \cup {o})
BY PlusOne

LEMMA PlusNone ==
  ASSUME NEW base \in [Objects -> Nat]
  PROVE  Plus(base, {}) = base /\ Minus(base, {}) = base
<1>1. \A q \in Objects : base[q] \in Nat
  OBVIOUS
<1>2. \A q \in Objects : Plus(base, {})[q] = base[q] /\ Minus(base, {})[q] = base[q]
  BY <1>1 DEF Plus, Minus
<1> QED BY <1>2 DEF Plus, Minus

\* The objects of the first elements of a sequence.
TokensUpTo(seq, n) == {Token(seq[i]) : i \in 1..n}
MetasUpTo(seq, n)  == {Meta(seq[i]) : i \in 1..n}
AllDifferent(seq)  == \A i, j \in 1..Len(seq) : Token(seq[i]) = Token(seq[j]) => i = j

CountedSoFar(p, n, refs)  == Exact(refs, Plus(p.base, TokensUpTo(p.seq, n)))
Counted(refs, t) == CHOOSE r \in {CountToken(a, e) : a \in {refs}, e \in {t}} : TRUE
C == INSTANCE FoldProofs WITH Op <- Counted, Inv <- CountedSoFar

LEMMA CountedFolded ==
  ASSUME NEW base, NEW seq PROVE Fold(CountToken, base, seq) = C!Folded(base, seq)
BY DEF Fold, Counted, C!Folded, FoldLeft, MapThenFoldSet, C!FoldLeft, C!MapThenFoldSet, Max, C!Max

LEMMA CountedIs == \A refs, t : Counted(refs, t) = CountToken(refs, t)
BY DEF Counted

LEMMA CountAllExact ==
  ASSUME NEW refs, NEW base, Exact(refs, base), NEW seq \in Seq(Tokens), AllDifferent(seq),
         \A i \in 1..Len(seq) : base[Token(seq[i])] = 0 /\ base[Meta(seq[i].meta)] > 0
  PROVE  Exact(Fold(CountToken, refs, seq), Plus(base, TokensUpTo(seq, Len(seq))))
<1> DEFINE p == [base |-> base, seq |-> seq]
<1>1. p.base = base /\ p.seq = seq
  OBVIOUS
<1> HIDE DEF p
<1>2. base \in [Objects -> Nat]
  BY DEF Exact
<1>3. CountedSoFar(p, 0, refs)
  <2>1. TokensUpTo(seq, 0) = {}
    BY DEF TokensUpTo
  <2> QED BY <1>1, <1>2, <2>1, PlusNone DEF CountedSoFar
<1>4. ASSUME NEW i \in 1..Len(seq), NEW r, CountedSoFar(p, i - 1, r)
      PROVE  CountedSoFar(p, i, Counted(r, seq[i]))
  <2> DEFINE S == TokensUpTo(seq, i - 1)
             o == Token(seq[i])
             m == Meta(seq[i].meta)
             now == Plus(base, S)
  <2>1. Exact(r, now)
    BY <1>1, <1>4 DEF CountedSoFar
  <2>2. seq[i] \in Tokens /\ seq[i].meta \in Nat
    <3>1. seq[i] \in Tokens
      OBVIOUS
    <3> QED BY <3>1 DEF Tokens
  <2>3. o \in Objects /\ o.kind = "token" /\ m \in Objects /\ m.kind = "meta"
    BY <2>2, KindsOf
  <2>4. o \notin S /\ TokensUpTo(seq, i) = S \cup {o}
    <3>1. i \in Nat /\ Len(seq) \in Nat
      OBVIOUS
    <3>2. \A j \in 1..(i - 1) : Token(seq[j]) # o
      BY <3>1 DEF AllDifferent
    <3>3. \A j \in 1..i : j \in 1..(i - 1) \/ j = i
      BY <3>1
    <3>4. i \in 1..i /\ \A j \in 1..(i - 1) : j \in 1..i
      BY <3>1
    <3> QED BY <3>2, <3>3, <3>4 DEF TokensUpTo
  <2> HIDE DEF S, o, m, now
  <2>5. base[o] = 0 /\ base[m] > 0 /\ now[o] = base[o] /\ now[m] \in Nat /\ now[m] >= base[m]
    <3>1. base[o] = 0 /\ base[m] > 0
      BY DEF o, m
    <3>2. now[o] = base[o]
      <4>1. base[o] \in Nat
        BY <1>2, <2>3
      <4> QED BY <2>3, <2>4, <4>1 DEF now, Plus
    <3>3. base[m] \in Nat /\ now[m] = base[m] + IF m \in S THEN 1 ELSE 0
      BY <1>2, <2>3 DEF now, Plus
    <3> QED BY <3>1, <3>2, <3>3
  <2>6. o \notin DOMAIN r
    <3>1. Owed(r, now, o) = 0
      BY <2>1, <2>3, <2>5, OwedType
    <3> QED BY <2>1, <2>3, <3>1 DEF Exact
  <2>7. m \in DOMAIN r
    <3>1. Owed(r, now, m) \in Nat /\ Owed(r, now, m) >= now[m]
      BY <2>1, <2>3, OwedType
    <3>2. Owed(r, now, m) > 0
      BY <1>2, <2>3, <2>5, <3>1
    <3> QED BY <2>1, <2>3, <3>2 DEF Exact
  <2>8. Exact(CountToken(r, seq[i]), Up(now, o))
    BY <2>1, <2>2, <2>6, <2>7, CountTokenExact DEF o, m
  <2>9. Up(now, o) = Plus(base, TokensUpTo(seq, i))
    <3>1. o \in Objects /\ o \notin S
      BY <2>3, <2>4
    <3>2. Up(Plus(base, S), o) = Plus(base, S \cup {o})
      BY <1>2, <3>1, PlusOne
    <3> QED BY <2>4, <3>2 DEF now
  <2> QED BY <1>1, <2>8, <2>9, CountedIs DEF CountedSoFar
<1>5. CountedSoFar(p, Len(seq), C!Folded(refs, seq))
  <2>1. DOMAIN seq = 1..Len(seq) /\ Len(seq) \in Nat
    OBVIOUS
  <2> HIDE DEF CountedSoFar, Counted
  <2> QED BY <1>3, <1>4, <2>1, C!FoldInduction
<1> QED BY <1>1, <1>5, CountedFolded DEF CountedSoFar

FreedSoFar(p, n, refs) == Exact(refs, Minus(p.base, TokensUpTo(p.seq, n)))
Freed(refs, t) == CHOOSE r \in {ReleaseListed(a, e) : a \in {refs}, e \in {t}} : TRUE
F == INSTANCE FoldProofs WITH Op <- Freed, Inv <- FreedSoFar

LEMMA FreedFolded ==
  ASSUME NEW base, NEW seq PROVE Fold(ReleaseListed, base, seq) = F!Folded(base, seq)
BY DEF Fold, Freed, F!Folded, FoldLeft, MapThenFoldSet, F!FoldLeft, F!MapThenFoldSet, Max, F!Max

LEMMA FreedIs == \A refs, t : Freed(refs, t) = ReleaseListed(refs, t)
BY DEF Freed

LEMMA FreeAllExact ==
  ASSUME NEW refs, NEW base, Exact(refs, base), NEW seq \in Seq(Tokens), AllDifferent(seq),
         \A i \in 1..Len(seq) : base[Token(seq[i])] > 0
  PROVE  Exact(Fold(ReleaseListed, refs, seq), Minus(base, TokensUpTo(seq, Len(seq))))
<1> DEFINE p == [base |-> base, seq |-> seq]
<1>1. p.base = base /\ p.seq = seq
  OBVIOUS
<1> HIDE DEF p
<1>2. base \in [Objects -> Nat]
  BY DEF Exact
<1>3. FreedSoFar(p, 0, refs)
  <2>1. TokensUpTo(seq, 0) = {}
    BY DEF TokensUpTo
  <2> QED BY <1>1, <1>2, <2>1, PlusNone DEF FreedSoFar
<1>4. ASSUME NEW i \in 1..Len(seq), NEW r, FreedSoFar(p, i - 1, r)
      PROVE  FreedSoFar(p, i, Freed(r, seq[i]))
  <2> DEFINE S == TokensUpTo(seq, i - 1)
             o == Token(seq[i])
             now == Minus(base, S)
  <2>1. Exact(r, now)
    BY <1>1, <1>4 DEF FreedSoFar
  <2>2. o \in Objects /\ o \in TokenObjects
    <3>1. seq[i] \in Tokens
      OBVIOUS
    <3> QED BY <3>1, KindsOf
  <2>4. o \notin S /\ TokensUpTo(seq, i) = S \cup {o}
    <3>1. i \in Nat /\ Len(seq) \in Nat
      OBVIOUS
    <3>2. \A j \in 1..(i - 1) : Token(seq[j]) # o
      BY <3>1 DEF AllDifferent
    <3>3. \A j \in 1..i : j \in 1..(i - 1) \/ j = i
      BY <3>1
    <3>4. i \in 1..i /\ \A j \in 1..(i - 1) : j \in 1..i
      BY <3>1
    <3> QED BY <3>2, <3>3, <3>4 DEF TokensUpTo
  <2>5. now[o] > 0
    <3>1. base[o] > 0 /\ base[o] \in Nat
      BY <1>2, <2>2
    <3> HIDE DEF S, o
    <3> QED BY <2>2, <2>4, <3>1 DEF Minus
  <2> HIDE DEF S, o, now
  <2>8. Exact(ReleaseToken(r, o), Down(now, o))
    BY <2>1, <2>2, <2>5, ReleaseTokenExact
  <2>9. Down(now, o) = Minus(base, TokensUpTo(seq, i))
    <3>1. Down(Minus(base, S), o) = Minus(base, S \cup {o})
      <4>1. o \in Objects /\ o \notin S
        BY <2>2, <2>4
      <4> QED BY <1>2, <4>1, MinusOne
    <3> QED BY <2>4, <3>1 DEF now
  <2>10. Freed(r, seq[i]) = ReleaseToken(r, o)
    BY FreedIs DEF ReleaseListed, o
  <2> QED BY <1>1, <2>8, <2>9, <2>10 DEF FreedSoFar
<1>5. FreedSoFar(p, Len(seq), F!Folded(refs, seq))
  <2>1. DOMAIN seq = 1..Len(seq) /\ Len(seq) \in Nat
    OBVIOUS
  <2> HIDE DEF FreedSoFar, Freed
  <2> QED BY <1>3, <1>4, <2>1, F!FoldInduction
<1> QED BY <1>1, <1>5, FreedFolded DEF FreedSoFar

NamesSoFar(p, n, refs) == Exact(refs, Minus(p.base, MetasUpTo(p.seq, n)))
NameFreed(refs, m) == CHOOSE r \in {ReleaseName(a, e) : a \in {refs}, e \in {m}} : TRUE
N == INSTANCE FoldProofs WITH Op <- NameFreed, Inv <- NamesSoFar

LEMMA NamesFolded ==
  ASSUME NEW base, NEW seq PROVE Fold(ReleaseName, base, seq) = N!Folded(base, seq)
BY DEF Fold, NameFreed, N!Folded, FoldLeft, MapThenFoldSet, N!FoldLeft, N!MapThenFoldSet, Max, N!Max

LEMMA NameFreedIs == \A refs, m : NameFreed(refs, m) = ReleaseName(refs, m)
BY DEF NameFreed

LEMMA NamesExact ==
  ASSUME NEW refs, NEW base, Exact(refs, base), NEW seq \in Seq(Nat),
         \A i, j \in 1..Len(seq) : seq[i] = seq[j] => i = j,
         \A i \in 1..Len(seq) : base[Meta(seq[i])] > 0
  PROVE  Exact(Fold(ReleaseName, refs, seq), Minus(base, MetasUpTo(seq, Len(seq))))
<1> DEFINE p == [base |-> base, seq |-> seq]
<1>1. p.base = base /\ p.seq = seq
  OBVIOUS
<1> HIDE DEF p
<1>2. base \in [Objects -> Nat]
  BY DEF Exact
<1>3. NamesSoFar(p, 0, refs)
  <2>1. MetasUpTo(seq, 0) = {}
    BY DEF MetasUpTo
  <2> QED BY <1>1, <1>2, <2>1, PlusNone DEF NamesSoFar
<1>4. ASSUME NEW i \in 1..Len(seq), NEW r, NamesSoFar(p, i - 1, r)
      PROVE  NamesSoFar(p, i, NameFreed(r, seq[i]))
  <2> DEFINE S == MetasUpTo(seq, i - 1)
             o == Meta(seq[i])
             now == Minus(base, S)
  <2>1. Exact(r, now)
    BY <1>1, <1>4 DEF NamesSoFar
  <2>2. o \in Objects /\ o.kind # "token" /\ o # S3 /\ o.n = seq[i]
    <3>1. seq[i] \in Nat
      OBVIOUS
    <3> QED BY <3>1, KindsOf
  <2>4. o \notin S /\ MetasUpTo(seq, i) = S \cup {o}
    <3>1. i \in Nat /\ Len(seq) \in Nat
      OBVIOUS
    <3>2. \A j \in 1..(i - 1) : Meta(seq[j]) # o
      <4>1. \A j \in 1..(i - 1) : seq[j] \in Nat /\ seq[j] # seq[i] /\ Meta(seq[j]).n = seq[j]
        BY <3>1, KindsOf
      <4> QED BY <2>2, <4>1
    <3>3. \A j \in 1..i : j \in 1..(i - 1) \/ j = i
      BY <3>1
    <3>4. i \in 1..i /\ \A j \in 1..(i - 1) : j \in 1..i
      BY <3>1
    <3> QED BY <3>2, <3>3, <3>4 DEF MetasUpTo
  <2>5. now[o] > 0
    <3>1. base[o] > 0 /\ base[o] \in Nat
      BY <1>2, <2>2
    <3> HIDE DEF S, o
    <3> QED BY <2>2, <2>4, <3>1 DEF Minus
  <2> HIDE DEF S, o, now
  <2>8. Exact(ReleasePlain(r, o), Down(now, o))
    BY <2>1, <2>2, <2>5, ReleasePlainExact
  <2>9. Down(now, o) = Minus(base, MetasUpTo(seq, i))
    <3>1. Down(Minus(base, S), o) = Minus(base, S \cup {o})
      <4>1. o \in Objects /\ o \notin S
        BY <2>2, <2>4
      <4> QED BY <1>2, <4>1, MinusOne
    <3> QED BY <2>4, <3>1 DEF now
  <2>10. NameFreed(r, seq[i]) = ReleasePlain(r, o)
    BY NameFreedIs DEF ReleaseName, o
  <2> QED BY <1>1, <2>8, <2>9, <2>10 DEF NamesSoFar
<1>5. NamesSoFar(p, Len(seq), N!Folded(refs, seq))
  <2>1. DOMAIN seq = 1..Len(seq) /\ Len(seq) \in Nat
    OBVIOUS
  <2> HIDE DEF NamesSoFar, NameFreed
  <2> QED BY <1>3, <1>4, <2>1, N!FoldInduction
<1> QED BY <1>1, <1>5, NamesFolded DEF NamesSoFar

-----------------------------------------------------------------------------
(* The ledger of a program that holds h, with n parsers whose lists have   *)
(* the tokens of L; up and conf are 1 if the swish_3 and its configuration *)
(* are there.  nm are the metanames that the configuration knows.          *)

Own(up, n, L, conf, nm, o) ==
  IF o.kind = "s3" THEN (IF up = 1 THEN n + 1 ELSE 0)
  ELSE IF o.kind \in {"config", "parser"} THEN (IF up = 1 THEN 1 ELSE 0)
  ELSE IF o.kind = "analyzer" THEN n + (IF up = 1 THEN 1 ELSE 0)
  ELSE IF o.kind = "iterator" THEN (IF o.n \in 1..n THEN 1 ELSE 0)
  ELSE IF o.kind = "token" THEN (IF o \in L THEN 1 ELSE 0)
  ELSE (IF conf = 1 /\ o.n \in nm THEN 1 ELSE 0)
Ledger(h, up, n, L, conf, nm) ==
  [o \in Objects |-> (IF o \in h THEN 1 ELSE 0) + Own(up, n, L, conf, nm, o)]

LEMMA LedgerType ==
  ASSUME NEW h, NEW up, NEW n \in Nat, NEW L, NEW conf, NEW nm
  PROVE  /\ Ledger(h, up, n, L, conf, nm) \in [Objects -> Nat]
         /\ \A o \in Objects : Own(up, n, L, conf, nm, o) \in Nat
<1>1. \A o \in Objects : Own(up, n, L, conf, nm, o) \in Nat
  BY DEF Own
<1> QED BY <1>1 DEF Ledger

\* One reference more or less, element by element.
LEMMA LedgerUp ==
  ASSUME NEW a \in [Objects -> Nat], NEW b \in [Objects -> Nat], NEW o \in Objects,
         \A q \in Objects : b[q] = a[q] + IF q = o THEN 1 ELSE 0
  PROVE  Up(a, o) = b /\ Down(b, o) = a
<1>1. \A q \in Objects : a[q] \in Nat /\ b[q] \in Nat
  OBVIOUS
<1>2. \A q \in Objects : Up(a, o)[q] = b[q] /\ Down(b, o)[q] = a[q]
  BY <1>1 DEF Up, Down
<1>3. Up(a, o) = [q \in Objects |-> Up(a, o)[q]] /\ Down(b, o) = [q \in Objects |-> Down(b, o)[q]]
  BY DEF Up, Down
<1> QED BY <1>2, <1>3

LEMMA LedgerPlus ==
  ASSUME NEW a \in [Objects -> Nat], NEW b \in [Objects -> Nat], NEW S,
         \A q \in Objects : b[q] = a[q] + IF q \in S THEN 1 ELSE 0
  PROVE  Plus(a, S) = b /\ Minus(b, S) = a
<1>1. \A q \in Objects : a[q] \in Nat /\ b[q] \in Nat
  OBVIOUS
<1>2. \A q \in Objects : Plus(a, S)[q] = b[q] /\ Minus(b, S)[q] = a[q]
  BY <1>1 DEF Plus, Minus
<1>3. Plus(a, S) = [q \in Objects |-> Plus(a, S)[q]] /\ Minus(b, S) = [q \in Objects |-> Minus(b, S)[q]]
  BY DEF Plus, Minus
<1> QED BY <1>2, <1>3

\* What happens to the ledger when ... a parser comes or goes,
LEMMA LedgerParser ==
  ASSUME NEW h, NEW n \in Nat, NEW L, NEW nm
  PROVE  /\ Up(Up(Up(Ledger(h, 1, n, L, 1, nm), Iterator(n + 1)), S3), Analyzer)
              = Ledger(h, 1, n + 1, L, 1, nm)
         /\ Down(Down(Down(Ledger(h, 1, n + 1, L, 1, nm), S3), Analyzer), Iterator(n + 1))
              = Ledger(h, 1, n, L, 1, nm)
<1> DEFINE a == Ledger(h, 1, n, L, 1, nm)
           b == Ledger(h, 1, n + 1, L, 1, nm)
           i == Iterator(n + 1)
<1>1. a \in [Objects -> Nat] /\ b \in [Objects -> Nat]
  <2>1. n + 1 \in Nat
    OBVIOUS
  <2> QED BY <2>1, LedgerType
<1>2. i \in Objects /\ S3 \in Objects /\ Analyzer \in Objects /\ i # S3 /\ i # Analyzer /\ S3 # Analyzer
      /\ i.kind = "iterator" /\ i.n = n + 1
  BY KindsOf
<1>3. ASSUME NEW o \in Objects PROVE b[o] = a[o] + IF o \in {i, S3, Analyzer} THEN 1 ELSE 0
  <2>1. o.n \in Nat /\ (o.kind = "iterator" => o = Iterator(o.n)) /\ (o.kind = "s3" <=> o = S3)
        /\ (o.kind = "analyzer" <=> o = Analyzer)
    BY ObjectKind
  <2>2. o.kind = "iterator" => (o = i <=> o.n = n + 1)
    BY <1>2, <2>1
  <2>3. o.n \in 1..(n + 1) <=> o.n \in 1..n \/ o.n = n + 1
    BY <2>1
  <2>4. o = i => o.n \notin 1..n
    BY <1>2
  <2> QED BY <1>2, <2>1, <2>2, <2>3, <2>4 DEF Ledger, Own
<1> HIDE DEF a, b, i
<1>4. ASSUME NEW S, NEW o \in Objects, o \notin S
      PROVE  Up(Plus(a, S), o) = Plus(a, S \cup {o}) /\ Down(Plus(a, S \cup {o}), o) = Plus(a, S)
  <2>1. \A q \in Objects : a[q] \in Nat
    BY <1>1
  <2>2. Plus(a, S) \in [Objects -> Nat] /\ Plus(a, S \cup {o}) \in [Objects -> Nat]
    BY <2>1 DEF Plus
  <2>3. \A q \in Objects : Plus(a, S \cup {o})[q] = Plus(a, S)[q] + IF q = o THEN 1 ELSE 0
    BY <1>4, <2>1 DEF Plus
  <2> QED BY <2>2, <2>3, LedgerUp
<1>5. b = Plus(a, {i, S3, Analyzer}) /\ a = Plus(a, {})
  BY <1>1, <1>3, LedgerPlus, PlusNone
<1>6. Up(a, i) = Plus(a, {i}) /\ Down(Plus(a, {i}), i) = a
  <2>1. {} \cup {i} = {i} /\ i \notin {}
    OBVIOUS
  <2>2. Up(Plus(a, {}), i) = Plus(a, {} \cup {i}) /\ Down(Plus(a, {} \cup {i}), i) = Plus(a, {})
    BY <1>2, <1>4, <2>1
  <2> QED BY <1>5, <2>1, <2>2
<1>7. Up(Plus(a, {i}), S3) = Plus(a, {i, S3})
  <2>1. {i} \cup {S3} = {i, S3} /\ S3 \notin {i} /\ S3 \in Objects
    BY <1>2
  <2>2. Up(Plus(a, {i}), S3) = Plus(a, {i} \cup {S3})
    BY <1>4, <2>1
  <2> QED BY <2>1, <2>2
<1>8. Up(Plus(a, {i, S3}), Analyzer) = b
  <2>1. {i, S3} \cup {Analyzer} = {i, S3, Analyzer} /\ Analyzer \notin {i, S3} /\ Analyzer \in Objects
    BY <1>2
  <2>2. Up(Plus(a, {i, S3}), Analyzer) = Plus(a, {i, S3} \cup {Analyzer})
    BY <1>4, <2>1
  <2> QED BY <1>5, <2>1, <2>2
<1>9. Down(b, S3) = Plus(a, {i, Analyzer})
  <2>1. {i, Analyzer} \cup {S3} = {i, S3, Analyzer} /\ S3 \notin {i, Analyzer} /\ S3 \in Objects
    BY <1>2
  <2>2. Down(Plus(a, {i, Analyzer} \cup {S3}), S3) = Plus(a, {i, Analyzer})
    BY <1>4, <2>1
  <2> QED BY <1>5, <2>1, <2>2
<1>10. Down(Plus(a, {i, Analyzer}), Analyzer) = Plus(a, {i})
  <2>1. {i} \cup {Analyzer} = {i, Analyzer} /\ Analyzer \notin {i} /\ Analyzer \in Objects
    BY <1>2
  <2>2. Down(Plus(a, {i} \cup {Analyzer}), Analyzer) = Plus(a, {i})
    BY <1>4, <2>1
  <2> QED BY <2>1, <2>2
<1> QED BY <1>6, <1>7, <1>8, <1>9, <1>10 DEF a, b, i

LEMMA LedgerStops ==
  ASSUME NEW h, NEW n \in Nat, NEW L, NEW nm
  PROVE  Down(Down(Down(Ledger(h, 1, n + 1, L, 1, nm), S3), Analyzer), Iterator(n + 1))
              = Ledger(h, 1, n, L, 1, nm)
BY LedgerParser

\* ... tokens are added or freed,
LEMMA LedgerTokens ==
  ASSUME NEW h, NEW n \in Nat, NEW L, NEW nm, NEW S \in SUBSET TokenObjects, S \cap L = {}
  PROVE  /\ Plus(Ledger(h, 1, n, L, 1, nm), S) = Ledger(h, 1, n, L \cup S, 1, nm)
         /\ Minus(Ledger(h, 1, n, L \cup S, 1, nm), S) = Ledger(h, 1, n, L, 1, nm)
<1> DEFINE a == Ledger(h, 1, n, L, 1, nm)
           b == Ledger(h, 1, n, L \cup S, 1, nm)
<1>1. a \in [Objects -> Nat] /\ b \in [Objects -> Nat]
  BY LedgerType
<1>2. ASSUME NEW o \in Objects PROVE b[o] = a[o] + IF o \in S THEN 1 ELSE 0
  <2>1. o \in S => o.kind = "token"
    BY DEF TokenObjects
  <2>2. Own(1, n, L, 1, nm, o) \in Nat
    BY LedgerType
  <2> QED BY <2>1, <2>2 DEF Ledger, Own
<1> HIDE DEF a, b
<1>3. Plus(a, S) = b /\ Minus(b, S) = a
  BY <1>1, <1>2, LedgerPlus
<1> QED BY <1>3 DEF a, b

LEMMA LedgerAdded ==
  ASSUME NEW h, NEW n \in Nat, NEW L, NEW nm, NEW S, S \subseteq TokenObjects, S \cap L = {}
  PROVE  Plus(Ledger(h, 1, n, L, 1, nm), S) = Ledger(h, 1, n, L \cup S, 1, nm)
BY LedgerTokens

LEMMA LedgerFreed ==
  ASSUME NEW h, NEW n \in Nat, NEW L, NEW nm, NEW S, S \subseteq TokenObjects, S \cap L = {}
  PROVE  Minus(Ledger(h, 1, n, L \cup S, 1, nm), S) = Ledger(h, 1, n, L, 1, nm)
BY LedgerTokens

\* ... a name is learnt,
LEMMA LedgerName ==
  ASSUME NEW h, NEW n \in Nat, NEW L, NEW nm, NEW m \in Nat, m \notin nm
  PROVE  Up(Ledger(h, 1, n, L, 1, nm), Meta(m)) = Ledger(h, 1, n, L, 1, nm \cup {m})
<1> DEFINE a == Ledger(h, 1, n, L, 1, nm)
           b == Ledger(h, 1, n, L, 1, nm \cup {m})
<1>1. a \in [Objects -> Nat] /\ b \in [Objects -> Nat] /\ Meta(m) \in Objects
  BY LedgerType, KindsOf
<1>2. ASSUME NEW o \in Objects PROVE b[o] = a[o] + IF o = Meta(m) THEN 1 ELSE 0
  <2>1. (o.kind = "meta" => o = Meta(o.n)) /\ Meta(m).kind = "meta" /\ Meta(m).n = m
        /\ o.kind \in ObjectKinds
    BY ObjectKind, KindsOf
  <2>2. Own(1, n, L, 1, nm, o) \in Nat
    BY LedgerType
  <2> QED BY <2>1, <2>2 DEF Ledger, Own, ObjectKinds
<1> HIDE DEF a, b
<1>3. Up(a, Meta(m)) = b
  BY <1>1, <1>2, LedgerUp
<1> QED BY <1>3 DEF a, b

\* ... or the program keeps or drops an object.
LEMMA LedgerHeld ==
  ASSUME NEW h, NEW up, NEW n \in Nat, NEW L, NEW conf, NEW nm, NEW x \in Objects, x \notin h
  PROVE  /\ Up(Ledger(h, up, n, L, conf, nm), x) = Ledger(h \cup {x}, up, n, L, conf, nm)
         /\ Down(Ledger(h \cup {x}, up, n, L, conf, nm), x) = Ledger(h, up, n, L, conf, nm)
<1> DEFINE a == Ledger(h, up, n, L, conf, nm)
           b == Ledger(h \cup {x}, up, n, L, conf, nm)
<1>1. a \in [Objects -> Nat] /\ b \in [Objects -> Nat]
  BY LedgerType
<1>2. ASSUME NEW o \in Objects PROVE b[o] = a[o] + IF o = x THEN 1 ELSE 0
  <2>1. Own(up, n, L, conf, nm, o) \in Nat
    BY LedgerType
  <2> QED BY <2>1 DEF Ledger
<1> HIDE DEF a, b
<1>3. Up(a, x) = b /\ Down(b, x) = a
  BY <1>1, <1>2, LedgerUp
<1> QED BY <1>3 DEF a, b

-----------------------------------------------------------------------------
(* What the functions of the library do to the counts.                     *)

LEMMA StartExact ==
  ASSUME NEW h, NEW n \in Nat, NEW L, NEW nm, NEW refs,
         Exact(refs, Ledger(h, 1, n, L, 1, nm)), Iterator(n + 1) \notin h
  PROVE  Exact(StartParser(refs, n + 1), Ledger(h, 1, n + 1, L, 1, nm))
<1> DEFINE a  == Ledger(h, 1, n, L, 1, nm)
           i  == Iterator(n + 1)
           r1 == Allocate(refs, i, 1)
           r2 == Inc(r1, S3)
<1>1. i \in Objects /\ i.kind = "iterator" /\ i.n = n + 1 /\ i # S3 /\ i.kind # "token"
      /\ S3 \in Objects /\ S3.kind = "s3" /\ Analyzer \in Objects /\ Analyzer.kind = "analyzer"
  BY KindsOf
<1>0. i \notin h /\ Exact(refs, a)
  OBVIOUS
<1>2. a[i] = 0 /\ a[S3] > 0 /\ a[Analyzer] > 0
  <2>1. i.n \notin 1..n
    BY <1>1
  <2> HIDE DEF i
  <2> QED BY <1>0, <1>1, <2>1 DEF Ledger, Own
<1> HIDE DEF a, i
<1>3. i \notin DOMAIN refs /\ S3 \in DOMAIN refs /\ Analyzer \in DOMAIN refs
  <2>1. Owed(refs, a, i) = 0 /\ Owed(refs, a, S3) > 0 /\ Owed(refs, a, Analyzer) > 0
    BY <1>0, <1>1, <1>2, OwedType
  <2> QED BY <1>0, <1>1, <2>1 DEF Exact
<1>4. Exact(r1, Up(a, i)) /\ DOMAIN r1 = DOMAIN refs \cup {i}
  BY <1>0, <1>1, <1>3, AllocateExact
<1> HIDE DEF r1
<1>5. Exact(r2, Up(Up(a, i), S3)) /\ DOMAIN r2 = DOMAIN r1
  <2>1. S3 \in DOMAIN r1
    BY <1>3, <1>4
  <2> QED BY <1>4, <2>1, IncExact
<1> HIDE DEF r2
<1>6. Exact(Inc(r2, Analyzer), Up(Up(Up(a, i), S3), Analyzer))
  <2>1. Analyzer \in DOMAIN r2
    BY <1>3, <1>4, <1>5
  <2> QED BY <1>5, <2>1, IncExact
<1>7. Up(Up(Up(a, i), S3), Analyzer) = Ledger(h, 1, n + 1, L, 1, nm)
  BY LedgerParser DEF a, i
<1>8. StartParser(refs, n + 1) = Inc(r2, Analyzer)
  BY DEF StartParser, r1, r2, i
<1> QED BY <1>6, <1>7, <1>8

\* For an object with one reference, to free it is to release it.
LEMMA DisposeExact ==
  ASSUME NEW refs, NEW base, Exact(refs, base), NEW o \in Objects, base[o] = 1,
         o.kind \notin {"token", "meta"}, o # S3
  PROVE  Exact(Dispose(refs, o), Down(base, o))
<1>1. Owed(refs, base, o) = 1
  BY OwedType
<1>2. o \in DOMAIN refs /\ refs[o] = 1
  BY <1>1 DEF Exact
<1>3. Dispose(refs, o) = ReleasePlain(refs, o)
  BY <1>2 DEF ReleasePlain
<1>4. base[o] > 0 /\ o.kind # "token"
  OBVIOUS
<1> QED BY <1>3, <1>4, ReleasePlainExact

LEMMA StopExact ==
  ASSUME NEW h, NEW n \in Nat, NEW L, NEW nm, NEW refs, NEW list, list.tokens \in Seq(Tokens),
         AllDifferent(list.tokens), TokensUpTo(list.tokens, Len(list.tokens)) \cap L = {},
         Iterator(n + 1) \notin h,
         Exact(refs, Ledger(h, 1, n + 1, L \cup TokensUpTo(list.tokens, Len(list.tokens)), 1, nm))
  PROVE  Exact(FreeParserData(refs, n + 1, list), Ledger(h, 1, n, L, 1, nm))
<1> DEFINE S  == TokensUpTo(list.tokens, Len(list.tokens))
           a  == Ledger(h, 1, n + 1, L \cup S, 1, nm)
           b  == Ledger(h, 1, n, L \cup S, 1, nm)
           i  == Iterator(n + 1)
           r1 == Dec(refs, S3)
           r2 == ReleasePlain(r1, Analyzer)
           r3 == Dispose(r2, i)
<1>1. i \in Objects /\ i.kind = "iterator" /\ i.n = n + 1 /\ i # S3 /\ i # Analyzer
      /\ S3 \in Objects /\ S3.kind = "s3" /\ Analyzer \in Objects /\ Analyzer.kind = "analyzer" /\ Analyzer # S3
  BY KindsOf
<1>0. i \notin h /\ Exact(refs, a)
  OBVIOUS
<1>2. S \in SUBSET TokenObjects
  <2>1. \A j \in 1..Len(list.tokens) : list.tokens[j] \in Tokens
    OBVIOUS
  <2> QED BY <2>1, KindsOf DEF TokensUpTo
<1>3. a \in [Objects -> Nat] /\ b \in [Objects -> Nat]
  <2>1. n + 1 \in Nat
    OBVIOUS
  <2> QED BY <2>1, LedgerType
<1>4. a[i] = 1 /\ a[S3] > 1 /\ a[Analyzer] > 0
  <2>1. i.n \in 1..(n + 1)
    BY <1>1
  <2> HIDE DEF i, S
  <2> QED BY <1>0, <1>1, <2>1 DEF Ledger, Own
<1>5. \A j \in 1..Len(list.tokens) : b[Token(list.tokens[j])] > 0
  <2> TAKE j \in 1..Len(list.tokens)
  <2> DEFINE t == Token(list.tokens[j])
  <2>1. t \in S
    BY DEF TokensUpTo
  <2>2. t \in Objects /\ t.kind = "token"
    <3>1. list.tokens[j] \in Tokens
      OBVIOUS
    <3> QED BY <3>1, KindsOf
  <2> HIDE DEF t, S
  <2>3. b[t] > 0
    BY <2>1, <2>2 DEF Ledger, Own
  <2> HIDE DEF b
  <2> QED BY <2>3 DEF t
<1>6. Down(Down(Down(a, S3), Analyzer), i) = b
  <2> HIDE DEF S
  <2> QED BY LedgerStops
<1>7. Minus(b, S) = Ledger(h, 1, n, L, 1, nm)
  <2>1. S \cap L = {}
    OBVIOUS
  <2> HIDE DEF S
  <2> QED BY <1>2, <2>1, LedgerFreed
<1> HIDE DEF a, b, i
<1>8. Exact(r1, Down(a, S3))
  BY <1>0, <1>4, DecS3Exact
<1> HIDE DEF r1
<1>9. Exact(r2, Down(Down(a, S3), Analyzer))
  <2>1. Down(a, S3)[Analyzer] > 0
    BY <1>1, <1>3, <1>4 DEF Down
  <2>2. Analyzer.kind # "token"
    BY <1>1
  <2> QED BY <1>1, <1>8, <2>1, <2>2, ReleasePlainExact
<1> HIDE DEF r2
<1>10. Exact(r3, b)
  <2>1. Down(Down(a, S3), Analyzer)[i] = 1
    BY <1>1, <1>3, <1>4 DEF Down
  <2>2. i.kind \notin {"token", "meta"}
    BY <1>1
  <2> QED BY <1>1, <1>6, <1>9, <2>1, <2>2, DisposeExact
<1> HIDE DEF r3
<1>11. Exact(Fold(ReleaseListed, r3, list.tokens), Minus(b, S))
  BY <1>5, <1>10, FreeAllExact
<1>12. FreeParserData(refs, n + 1, list) = Fold(ReleaseListed, r3, list.tokens)
  BY DEF FreeParserData, FreeIterator, r1, r2, r3, i
<1> QED BY <1>7, <1>11, <1>12

LEMMA AddExact ==
  ASSUME NEW h, NEW n \in Nat, NEW L, NEW nm, NEW refs, NEW list, list.tokens \in Seq(Tokens),
         NEW from \in 1..(Len(list.tokens) + 1),
         NEW S, S = {Token(list.tokens[i]) : i \in from..Len(list.tokens)},
         \A i, j \in from..Len(list.tokens) : Token(list.tokens[i]) = Token(list.tokens[j]) => i = j,
         S \cap L = {}, S \cap h = {}, \A i \in from..Len(list.tokens) : list.tokens[i].meta \in nm,
         Exact(refs, Ledger(h, 1, n, L, 1, nm))
  PROVE  Exact(CountTokens(refs, list, from), Ledger(h, 1, n, L \cup S, 1, nm))
<1> DEFINE a   == Ledger(h, 1, n, L, 1, nm)
           toks == list.tokens
           seq == SubSeq(toks, from, Len(toks))
<1>1. toks \in Seq(Tokens) /\ Len(toks) \in Nat /\ from \in Nat /\ from >= 1 /\ from <= Len(toks) + 1
  OBVIOUS
<1>l. PICK k : k = (Len(toks) - from) + 1
  OBVIOUS
<1>2. k \in Nat /\ \A i \in 1..k : i + from - 1 \in from..Len(toks) /\ i + from - 1 \in 1..Len(toks)
  BY <1>1, <1>l
<1>3. seq \in Seq(Tokens) /\ Len(seq) = k /\ \A i \in 1..k : seq[i] = toks[i + from - 1]
  <2> HIDE DEF toks
  <2>1. \A i \in 1..k : toks[i + from - 1] \in Tokens
    BY <1>1, <1>2
  <2>2. seq = [i \in 1..k |-> toks[i + from - 1]]
    <3>1. seq = [i \in 1..(1 + Len(toks) - from) |-> toks[i + from - 1]]
      OBVIOUS
    <3>2. 1 + Len(toks) - from = k
      BY <1>1, <1>l
    <3> HIDE DEF seq
    <3> QED BY <3>1, <3>2
  <2>3. [i \in 1..k |-> toks[i + from - 1]] \in Seq(Tokens)
    BY <1>2, <2>1
  <2> HIDE DEF seq
  <2> QED BY <1>2, <2>2, <2>3
<1>4. S = TokensUpTo(seq, Len(seq))
  <2>1. \A j \in from..Len(toks) : (j - from) + 1 \in 1..k /\ ((j - from) + 1) + from - 1 = j
    BY <1>1, <1>l
  <2> HIDE DEF seq
  <2>2. ASSUME NEW x \in S PROVE x \in TokensUpTo(seq, Len(seq))
    <3>1. PICK j \in from..Len(toks) : x = Token(toks[j])
      OBVIOUS
    <3>2. x = Token(seq[(j - from) + 1]) /\ (j - from) + 1 \in 1..k
      BY <1>3, <2>1, <3>1
    <3> QED BY <1>3, <3>2 DEF TokensUpTo
  <2>3. ASSUME NEW x \in TokensUpTo(seq, Len(seq)) PROVE x \in S
    <3>1. PICK i \in 1..k : x = Token(seq[i])
      BY <1>3 DEF TokensUpTo
    <3>2. i + from - 1 \in from..Len(toks) /\ seq[i] = toks[i + from - 1]
      BY <1>2, <1>3, <3>1
    <3>3. Token(toks[i + from - 1]) \in S
      BY <3>2
    <3> QED BY <3>1, <3>2, <3>3
  <2> QED BY <2>2, <2>3
<1>5. AllDifferent(seq)
  <2> SUFFICES ASSUME NEW i \in 1..k, NEW j \in 1..k, Token(seq[i]) = Token(seq[j]) PROVE i = j
    BY <1>3 DEF AllDifferent
  <2>1. Token(toks[i + from - 1]) = Token(toks[j + from - 1])
    BY <1>3
  <2>2. i + from - 1 = j + from - 1
    BY <1>2, <2>1
  <2> QED BY <1>1, <1>2, <2>2
<1> HIDE DEF seq
<1>6. ASSUME NEW i \in 1..Len(seq) PROVE a[Token(seq[i])] = 0 /\ a[Meta(seq[i].meta)] > 0
  <2> DEFINE t == Token(seq[i])
             m == Meta(seq[i].meta)
  <2>1. t \in S /\ seq[i] \in Tokens /\ seq[i].meta \in nm
    <3>1. i \in 1..k /\ seq[i] = toks[i + from - 1] /\ i + from - 1 \in from..Len(toks)
      BY <1>2, <1>3
    <3>2. seq[i] \in Tokens
      BY <1>3
    <3>3. seq[i].meta \in nm
      BY <3>1
    <3> QED BY <1>4, <3>2, <3>3 DEF TokensUpTo
  <2>2. t \in Objects /\ t.kind = "token" /\ m \in Objects /\ m.kind = "meta" /\ m.n = seq[i].meta
    <3>1. seq[i].meta \in Nat
      BY <2>1 DEF Tokens
    <3> QED BY <2>1, <3>1, KindsOf
  <2>3. t \notin L /\ t \notin h
    <3> HIDE DEF t
    <3> QED BY <2>1
  <2> HIDE DEF t, m
  <2>4. a[t] = 0
    BY <2>2, <2>3 DEF Ledger, Own
  <2>5. a[m] > 0
    BY <2>1, <2>2 DEF Ledger, Own
  <2> QED BY <2>4, <2>5 DEF t, m
<1>7. S \in SUBSET TokenObjects
  <2>1. \A i \in 1..Len(seq) : seq[i] \in Tokens
    BY <1>3
  <2> QED BY <1>4, <2>1, KindsOf DEF TokensUpTo
<1>8. Plus(a, S) = Ledger(h, 1, n, L \cup S, 1, nm)
  <2>1. S \cap L = {}
    OBVIOUS
  <2> QED BY <1>7, <2>1, LedgerAdded
<1>9. Exact(refs, a)
  OBVIOUS
<1> HIDE DEF a
<1>10. Exact(Fold(CountToken, refs, seq), Plus(a, TokensUpTo(seq, Len(seq))))
  BY <1>3, <1>5, <1>6, <1>9, CountAllExact
<1>11. CountTokens(refs, list, from) = Fold(CountToken, refs, seq)
  BY DEF CountTokens, seq
<1> QED BY <1>4, <1>8, <1>10, <1>11


-----------------------------------------------------------------------------
(* What holds between the parsers and the counts at any time.              *)

DataFields ==
  {"uri", "left", "ended", "metastack", "meta_buf", "bump_word", "nwords", "list", "next",
   "buffers", "saved"}
AllEvents ==
  {e \in UNION {Range(EventsOf(u, b)) : u \in DOMAIN Files, b \in BOOLEAN} :
     e.meta \in Nat /\ e.chars \in Seq(Char)}

\* The data of a parser, where the names are nm and top tokens have been made;
\* bad: has a text been tokenized that was not Gentle?
Good(d, nm, tokenize, bad, top) ==
  /\ DOMAIN d = DataFields
  /\ d.left \in Seq(AllEvents) /\ d.meta_buf \in Seq(Char)
  /\ d.metastack \in Seq(nm) /\ d.metastack # << >>
  /\ d.nwords \in Nat /\ (tokenize => d.nwords = Len(d.list.tokens))
  /\ d.next \in 1..(Len(d.list.tokens) + 1)
  /\ Sound(d.list) /\ (bad \/ Ended(d.list)) /\ d.list.made <= top
  /\ \A i \in 1..Len(d.list.tokens) :
       d.list.tokens[i].n <= top /\ d.list.tokens[i].meta \in nm

\* No two tokens have the same number.
Distinct(st) ==
  \A i, j \in 1..Len(st) :
    \A a \in 1..Len(st[i].list.tokens), b \in 1..Len(st[j].list.tokens) :
      st[i].list.tokens[a].n = st[j].list.tokens[b].n => i = j /\ a = b

Listing(d)   == TokensUpTo(d.list.tokens, Len(d.list.tokens))
ListedIn(st) == UNION {Listing(st[i]) : i \in 1..Len(st)}

\* What a program may hold.
Holdable(o, nm, top) ==
  /\ o \in Objects /\ o # S3 /\ o # Parser
  /\ o.kind = "meta" => o.n \in nm
  /\ o.kind = "token" => o.n <= top /\ o.meta \in nm

Parsers(st, nm, tokenize, bad, top) ==
  /\ st \in Seq(Range(st)) /\ top \in Nat /\ nm \subseteq Nat
  /\ \A i \in 1..Len(st) : Good(st[i], nm, tokenize, bad, top)
  /\ Distinct(st)
World(h, up, conf, st, refs, nm, tokenize, bad, top) ==
  /\ Parsers(st, nm, tokenize, bad, top)
  /\ \A o \in h : Holdable(o, nm, top)
  /\ Exact(refs, Ledger(h, up, Len(st), ListedIn(st), conf, nm))

LEMMA GoodStays ==
  ASSUME NEW d, NEW nm, NEW tokenize, NEW bad, NEW top \in Nat, Good(d, nm, tokenize, bad, top),
         NEW nm2, nm \subseteq nm2, NEW bad2, bad => bad2, NEW top2 \in Nat, top <= top2
  PROVE  Good(d, nm2, tokenize, bad2, top2)
<1>1. d.metastack \in Seq(nm2)
  BY DEF Good
<1>2. d.list \in Lists /\ d.list.made \in Nat /\ \A i \in 1..Len(d.list.tokens) : d.list.tokens[i].n \in Nat
  <2>1. d.list \in Lists /\ d.list.tokens \in Seq(Tokens) /\ d.list.made \in Nat
    BY DEF Good, Sound, Lists
  <2>2. \A i \in 1..Len(d.list.tokens) : d.list.tokens[i] \in Tokens
    BY <2>1
  <2> QED BY <2>1, <2>2 DEF Tokens
<1>3. d.list.made <= top2
  BY <1>2 DEF Good
<1>4. \A i \in 1..Len(d.list.tokens) : d.list.tokens[i].n <= top2 /\ d.list.tokens[i].meta \in nm2
  <2>1. \A i \in 1..Len(d.list.tokens) : d.list.tokens[i].n <= top /\ d.list.tokens[i].meta \in nm
    BY DEF Good
  <2> QED BY <1>2, <2>1
<1>5. bad2 \/ Ended(d.list)
  BY DEF Good
<1> QED BY <1>1, <1>3, <1>4, <1>5 DEF Good

LEMMA HoldableStays ==
  ASSUME NEW o, NEW nm, NEW top \in Nat, Holdable(o, nm, top),
         NEW nm2, nm \subseteq nm2, NEW top2 \in Nat, top <= top2
  PROVE  Holdable(o, nm2, top2)
<1>1. o.n \in Nat
  BY ObjectKind DEF Holdable
<1> QED BY <1>1 DEF Holdable

\* The tokens of a list, and their numbers.
LEMMA GoodTokens ==
  ASSUME NEW d, NEW nm, NEW tokenize, NEW bad, NEW top \in Nat, Good(d, nm, tokenize, bad, top)
  PROVE  /\ d.list.tokens \in Seq(Tokens) /\ Len(d.list.tokens) \in Nat
         /\ \A i \in 1..Len(d.list.tokens) :
              /\ d.list.tokens[i] \in Tokens /\ d.list.tokens[i].n \in Nat
              /\ d.list.tokens[i].n <= top /\ d.list.tokens[i].meta \in nm
<1>1. d.list.tokens \in Seq(Tokens)
  BY DEF Good, Sound, Lists
<1>2. \A i \in 1..Len(d.list.tokens) : d.list.tokens[i] \in Tokens
  BY <1>1
<1>3. \A t \in Tokens : t.n \in Nat
  BY DEF Tokens
<1>4. Len(d.list.tokens) \in Nat
  BY <1>1
<1>5. \A i \in 1..Len(d.list.tokens) : d.list.tokens[i].n <= top /\ d.list.tokens[i].meta \in nm
  BY DEF Good
<1> QED BY <1>1, <1>2, <1>3, <1>4, <1>5

LEMMA ListedHasNumber ==
  ASSUME NEW st, NEW nm, NEW tokenize, NEW bad, NEW top, Parsers(st, nm, tokenize, bad, top),
         NEW o \in ListedIn(st)
  PROVE  o \in TokenObjects /\ o.n \in Nat /\ o.n <= top /\ o.meta \in nm
<1>1. PICK i \in 1..Len(st) : o \in Listing(st[i])
  BY DEF ListedIn
<1>2. PICK a \in 1..Len(st[i].list.tokens) : o = Token(st[i].list.tokens[a])
  BY <1>1 DEF Listing, TokensUpTo
<1>3. Good(st[i], nm, tokenize, bad, top) /\ top \in Nat
  BY DEF Parsers
<1> DEFINE t == st[i].list.tokens[a]
<1>4. t \in Tokens /\ t.n \in Nat /\ t.n <= top /\ t.meta \in nm
  BY <1>3, GoodTokens
<1> HIDE DEF t
<1>5. Token(t) \in TokenObjects /\ Token(t).n = t.n /\ Token(t).meta = t.meta
  BY <1>4, KindsOf
<1> QED BY <1>2, <1>4, <1>5 DEF t


-----------------------------------------------------------------------------
(* What the steps of the library make of it.                               *)

\* Tokens with new numbers are added to a list.
Grows(old, new, nm, top, top2) ==
  /\ Len(old.tokens) <= Len(new.tokens)
  /\ \A i \in 1..Len(old.tokens) : new.tokens[i] = old.tokens[i]
  /\ \A i \in (Len(old.tokens) + 1)..Len(new.tokens) :
       new.tokens[i].n = top + (i - Len(old.tokens)) /\ new.tokens[i].meta \in nm
  /\ top2 = top + (Len(new.tokens) - Len(old.tokens))

\* The list of the k-th parser grows.
LEMMA GrowDistinct ==
  ASSUME NEW st, NEW nm, NEW tokenize, NEW bad, NEW top, Parsers(st, nm, tokenize, bad, top),
         NEW k \in 1..Len(st), NEW d, NEW bad2, bad => bad2, NEW top2,
         Grows(st[k].list, d.list, nm, top, top2), Good(d, nm, tokenize, bad2, top2)
  PROVE  Parsers([st EXCEPT ![k] = d], nm, tokenize, bad2, top2)
<1> DEFINE st2 == [st EXCEPT ![k] = d]
           old == st[k].list.tokens
           new == d.list.tokens
<1>1. /\ st2 \in Seq(Range(st2)) /\ Len(st2) = Len(st)
      /\ \A i \in 1..Len(st) : st2[i] = IF i = k THEN d ELSE st[i]
  <2>1. st \in Seq(Range(st)) /\ k \in 1..Len(st)
    BY DEF Parsers
  <2>2. st2 = [i \in 1..Len(st) |-> IF i = k THEN d ELSE st[i]]
    BY <2>1
  <2> HIDE DEF st2
  <2>3. DOMAIN st2 = 1..Len(st) /\ \A i \in 1..Len(st) : st2[i] = IF i = k THEN d ELSE st[i]
    BY <2>2
  <2>4. \A i \in 1..Len(st) : st2[i] \in Range(st2)
    BY <2>3 DEF Range
  <2>5. st2 = [i \in 1..Len(st) |-> st2[i]] /\ Len(st) \in Nat
    BY <2>1, <2>2, <2>3
  <2>6. st2 \in Seq(Range(st2))
    BY <2>4, <2>5
  <2> QED BY <2>3, <2>5, <2>6
<1> HIDE DEF st2
<1>2. top \in Nat /\ top2 \in Nat /\ top <= top2 /\ nm \subseteq Nat
      /\ Len(old) \in Nat /\ Len(new) \in Nat /\ Len(old) <= Len(new)
  <2>1. top \in Nat /\ Good(st[k], nm, tokenize, bad, top) /\ nm \subseteq Nat
    BY DEF Parsers
  <2>2. Len(old) \in Nat
    BY <2>1, GoodTokens
  <2>3. d.list.tokens \in Seq(Tokens)
    BY DEF Good, Sound, Lists
  <2>4. Len(new) \in Nat
    BY <2>3
  <2>5. top2 = top + (Len(new) - Len(old)) /\ Len(old) <= Len(new)
    BY DEF Grows
  <2> HIDE DEF old, new
  <2> QED BY <2>1, <2>2, <2>4, <2>5
<1>3. \A i \in 1..Len(st2) : Good(st2[i], nm, tokenize, bad2, top2)
  <2> TAKE i \in 1..Len(st2)
  <2>1. CASE i = k
    BY <1>1, <2>1
  <2>2. CASE i # k
    <3>1. Good(st[i], nm, tokenize, bad, top)
      BY <1>1 DEF Parsers
    <3>2. Good(st[i], nm, tokenize, bad2, top2)
      BY <1>2, <3>1, GoodStays
    <3> QED BY <1>1, <2>2, <3>2
  <2> QED BY <2>1, <2>2
<1>4. Distinct(st2)
  \* A token that was there before, or one of the new ones.
  <2> DEFINE Was(i, a) == i \in 1..Len(st) /\ a \in 1..Len(st[i].list.tokens)
                          /\ st2[i].list.tokens[a].n = st[i].list.tokens[a].n
             Is(i, a)  == i = k /\ a \in (Len(old) + 1)..Len(new)
                          /\ st2[i].list.tokens[a].n = top + (a - Len(old))
  <2>1. ASSUME NEW i \in 1..Len(st2), NEW a \in 1..Len(st2[i].list.tokens)
        PROVE  Was(i, a) \/ Is(i, a)
    <3>1. CASE i # k
      BY <1>1, <3>1
    <3>2. CASE i = k
      <4>1. st2[i] = d /\ a \in 1..Len(new) /\ a \in Nat
        BY <1>1, <3>2
      <4>2. CASE a <= Len(old)
        <5>1. a \in 1..Len(old)
          BY <1>2, <4>1, <4>2
        <5>2. new[a] = old[a]
          BY <5>1 DEF Grows
        <5> QED BY <1>1, <3>2, <4>1, <5>1, <5>2
      <4>3. CASE ~(a <= Len(old))
        <5>1. a \in (Len(old) + 1)..Len(new)
          BY <1>2, <4>1, <4>3
        <5>2. new[a].n = top + (a - Len(old))
          BY <5>1 DEF Grows
        <5> QED BY <3>2, <4>1, <5>1, <5>2
      <4> QED BY <4>2, <4>3
    <3> QED BY <3>1, <3>2
  <2>2. ASSUME NEW i, NEW a, Was(i, a) PROVE st2[i].list.tokens[a].n \in Nat /\ st2[i].list.tokens[a].n <= top
    <3>1. Good(st[i], nm, tokenize, bad, top)
      BY <2>2 DEF Parsers
    <3>2. st[i].list.tokens[a].n \in Nat /\ st[i].list.tokens[a].n <= top
      BY <1>2, <2>2, <3>1, GoodTokens
    <3> QED BY <2>2, <3>2
  <2>3. ASSUME NEW i, NEW a, Is(i, a)
        PROVE  st2[i].list.tokens[a].n > top /\ a \in Nat /\ st2[i].list.tokens[a].n = top + (a - Len(old))
    BY <1>2, <2>3
  <2> SUFFICES ASSUME NEW i \in 1..Len(st2), NEW j \in 1..Len(st2),
                      NEW a \in 1..Len(st2[i].list.tokens), NEW b \in 1..Len(st2[j].list.tokens),
                      st2[i].list.tokens[a].n = st2[j].list.tokens[b].n
               PROVE  i = j /\ a = b
    BY DEF Distinct
  <2>4. (Was(i, a) \/ Is(i, a)) /\ (Was(j, b) \/ Is(j, b))
    BY <2>1
  <2>5. CASE Was(i, a) /\ Was(j, b)
    <3>1. Distinct(st)
      BY DEF Parsers
    <3>2. st[i].list.tokens[a].n = st[j].list.tokens[b].n
      BY <2>5
    <3>3. i \in 1..Len(st) /\ j \in 1..Len(st) /\ a \in 1..Len(st[i].list.tokens)
          /\ b \in 1..Len(st[j].list.tokens)
      BY <2>5
    <3> HIDE DEF Was, Is
    <3>4. \A x \in 1..Len(st[i].list.tokens), y \in 1..Len(st[j].list.tokens) :
            st[i].list.tokens[x].n = st[j].list.tokens[y].n => i = j /\ x = y
      BY <3>1, <3>3 DEF Distinct
    <3> QED BY <3>2, <3>3, <3>4
  <2>6. CASE Was(i, a) /\ Is(j, b)
    <3>1. st2[i].list.tokens[a].n \in Nat /\ st2[i].list.tokens[a].n <= top
      BY <2>2, <2>6
    <3>2. st2[j].list.tokens[b].n > top
      BY <2>3, <2>6
    <3> HIDE DEF Was, Is
    <3>3. \A x \in Nat : ~(x <= top /\ x > top)
      BY <1>2
    <3> QED BY <3>1, <3>2, <3>3
  <2>7. CASE Is(i, a) /\ Was(j, b)
    <3>1. st2[j].list.tokens[b].n \in Nat /\ st2[j].list.tokens[b].n <= top
      BY <2>2, <2>7
    <3>2. st2[i].list.tokens[a].n > top
      BY <2>3, <2>7
    <3> HIDE DEF Was, Is
    <3>3. \A x \in Nat : ~(x <= top /\ x > top)
      BY <1>2
    <3> QED BY <3>1, <3>2, <3>3
  <2>8. CASE Is(i, a) /\ Is(j, b)
    <3>1. a \in Nat /\ b \in Nat /\ top + (a - Len(old)) = top + (b - Len(old)) /\ i = j
      BY <2>3, <2>8
    <3>2. \A x \in Nat : top + (a - x) = top + (b - x) => a = b
      <4>1. a \in Nat /\ b \in Nat /\ top \in Nat
        BY <1>2, <3>1
      <4> HIDE DEF Was, Is, old, new
      <4> QED BY <4>1
    <3> HIDE DEF Was, Is, old, new
    <3> QED BY <1>2, <3>1, <3>2
  <2> QED BY <2>4, <2>5, <2>6, <2>7, <2>8
<1> QED BY <1>1, <1>2, <1>3, <1>4 DEF Parsers, st2


NewIn(list, from) == {Token(list.tokens[i]) : i \in from..Len(list.tokens)}

LEMMA GrowListed ==
  ASSUME NEW st, NEW nm, NEW tokenize, NEW bad, NEW top, Parsers(st, nm, tokenize, bad, top),
         NEW k \in 1..Len(st), NEW d, NEW bad2, bad => bad2, NEW top2,
         Grows(st[k].list, d.list, nm, top, top2), Good(d, nm, tokenize, bad2, top2)
  PROVE  \A o : o \in ListedIn([st EXCEPT ![k] = d])
                 <=> o \in ListedIn(st) \/ o \in NewIn(d.list, Len(st[k].list.tokens) + 1)
<1> DEFINE st2 == [st EXCEPT ![k] = d]
           old == st[k].list.tokens
           new == d.list.tokens
           S   == NewIn(d.list, Len(old) + 1)
<1>1. Len(st2) = Len(st) /\ \A i \in 1..Len(st) : st2[i] = IF i = k THEN d ELSE st[i]
  <2>1. st \in Seq(Range(st)) /\ k \in 1..Len(st)
    BY DEF Parsers
  <2> QED BY <2>1
<1> HIDE DEF st2
<1>2. Len(old) \in Nat /\ Len(new) \in Nat /\ Len(old) <= Len(new)
      /\ \A i \in 1..Len(old) : new[i] = old[i]
  <2>1. Good(st[k], nm, tokenize, bad, top) /\ top \in Nat
    BY DEF Parsers
  <2>2. Len(old) \in Nat
    BY <2>1, GoodTokens
  <2>3. d.list.tokens \in Seq(Tokens)
    BY DEF Good, Sound, Lists
  <2> QED BY <2>2, <2>3 DEF Grows
<1>3. Listing(d) = Listing(st[k]) \cup S
  <2>1. Listing(st[k]) = {Token(old[i]) : i \in 1..Len(old)} /\ Listing(d) = {Token(new[i]) : i \in 1..Len(new)}
    BY DEF Listing, TokensUpTo
  <2>2. S = {Token(new[i]) : i \in (Len(old) + 1)..Len(new)}
    BY DEF NewIn
  <2> HIDE DEF S, old, new
  <2>3. \A i \in 1..Len(new) : i \in 1..Len(old) \/ i \in (Len(old) + 1)..Len(new)
    BY <1>2
  <2>4. \A i \in 1..Len(old) : i \in 1..Len(new) /\ Token(old[i]) = Token(new[i])
    BY <1>2
  <2>5. \A i \in (Len(old) + 1)..Len(new) : i \in 1..Len(new)
    BY <1>2
  <2>6. \A o : o \in Listing(d) <=> \E i \in 1..Len(new) : o = Token(new[i])
    BY <2>1
  <2>7. \A o : o \in Listing(st[k]) <=> \E i \in 1..Len(old) : o = Token(old[i])
    BY <2>1
  <2>8. \A o : o \in S <=> \E i \in (Len(old) + 1)..Len(new) : o = Token(new[i])
    BY <2>2
  <2>9. \A o \in Listing(d) : o \in Listing(st[k]) \cup S
    BY <2>3, <2>4, <2>6, <2>7, <2>8
  <2>10. \A o \in Listing(st[k]) \cup S : o \in Listing(d)
    BY <2>4, <2>5, <2>6, <2>7, <2>8
  <2> QED BY <2>9, <2>10
<1> HIDE DEF S, old, new
<1>4. ASSUME NEW o \in ListedIn(st2) PROVE o \in ListedIn(st) \cup S
  <2>1. PICK i \in 1..Len(st) : o \in Listing(st2[i])
    BY <1>1 DEF ListedIn
  <2>2. CASE i = k
    BY <1>1, <1>3, <2>1, <2>2 DEF ListedIn
  <2>3. CASE i # k
    BY <1>1, <2>1, <2>3 DEF ListedIn
  <2> QED BY <2>2, <2>3
<1>5. ASSUME NEW o \in ListedIn(st) \cup S PROVE o \in ListedIn(st2)
  <2>1. CASE o \in S
    <3>1. st2[k] = d /\ k \in 1..Len(st2) /\ o \in Listing(d)
      BY <1>1, <1>3, <2>1
    <3> QED BY <3>1 DEF ListedIn
  <2>2. CASE o \in ListedIn(st)
    <3>1. PICK i \in 1..Len(st) : o \in Listing(st[i])
      BY <2>2 DEF ListedIn
    <3>2. o \in Listing(st2[i]) /\ i \in 1..Len(st2)
      BY <1>1, <1>3, <3>1
    <3> QED BY <3>2 DEF ListedIn
  <2> QED BY <2>1, <2>2
<1> QED BY <1>4, <1>5 DEF st2, S, old

LEMMA GrowWorld ==
  ASSUME NEW h, NEW st, NEW refs, NEW nm, NEW tokenize, NEW bad, NEW top,
         World(h, 1, 1, st, refs, nm, tokenize, bad, top),
         NEW k \in 1..Len(st), NEW d, NEW bad2, bad => bad2, NEW top2,
         Grows(st[k].list, d.list, nm, top, top2), Good(d, nm, tokenize, bad2, top2)
  PROVE  World(h, 1, 1, [st EXCEPT ![k] = d], CountTokens(refs, d.list, Len(st[k].list.tokens) + 1),
               nm, tokenize, bad2, top2)
<1> DEFINE st2 == [st EXCEPT ![k] = d]
           from == Len(st[k].list.tokens) + 1
           S   == NewIn(d.list, from)
           L   == ListedIn(st)
<1>1. Parsers(st, nm, tokenize, bad, top) /\ Exact(refs, Ledger(h, 1, Len(st), L, 1, nm))
      /\ \A o \in h : Holdable(o, nm, top)
  BY DEF World
<1>2. Parsers(st2, nm, tokenize, bad2, top2) /\ ListedIn(st2) = L \cup S
  <2>1. Parsers(st2, nm, tokenize, bad2, top2)
    BY <1>1, GrowDistinct
  <2>2. \A o : o \in ListedIn(st2) <=> o \in L \/ o \in S
    BY <1>1, GrowListed
  <2> HIDE DEF st2, S, L
  <2>3. ListedIn(st2) = L \cup S
    BY <2>2
  <2> QED BY <2>1, <2>3
<1>3. Len(st2) = Len(st) /\ Len(st) \in Nat
  <2>1. st \in Seq(Range(st))
    BY <1>1 DEF Parsers
  <2> QED BY <2>1
<1>4. from \in 1..(Len(d.list.tokens) + 1) /\ from - 1 \in Nat /\ Len(d.list.tokens) \in Nat
      /\ d.list.tokens \in Seq(Tokens) /\ top \in Nat /\ top2 \in Nat /\ top <= top2
  <2>1. Good(st[k], nm, tokenize, bad, top) /\ top \in Nat
    BY <1>1 DEF Parsers
  <2>2. Len(st[k].list.tokens) \in Nat
    BY <2>1, GoodTokens
  <2>3. d.list.tokens \in Seq(Tokens)
    BY DEF Good, Sound, Lists
  <2>4. Len(d.list.tokens) \in Nat
    BY <2>3
  <2>5. Len(st[k].list.tokens) <= Len(d.list.tokens)
        /\ top2 = top + (Len(d.list.tokens) - Len(st[k].list.tokens))
    BY DEF Grows
  <2>6. \A x, y \in Nat : x <= y => /\ x + 1 \in 1..(y + 1) /\ (x + 1) - 1 \in Nat
                                    /\ top + (y - x) \in Nat /\ top <= top + (y - x)
    BY <2>1
  <2> QED BY <2>1, <2>2, <2>3, <2>4, <2>5, <2>6
<1>5. \A i \in from..Len(d.list.tokens) :
        /\ d.list.tokens[i] \in Tokens /\ d.list.tokens[i].meta \in nm
        /\ d.list.tokens[i].n = top + (i - (from - 1)) /\ d.list.tokens[i].n > top
  <2> TAKE i \in from..Len(d.list.tokens)
  <2>1. i \in (Len(st[k].list.tokens) + 1)..Len(d.list.tokens)
    OBVIOUS
  <2>2. d.list.tokens[i].n = top + (i - Len(st[k].list.tokens)) /\ d.list.tokens[i].meta \in nm
    BY <2>1 DEF Grows
  <2>3. Len(st[k].list.tokens) = from - 1
    BY <1>4
  <2> HIDE DEF from
  <2>4. i \in 1..Len(d.list.tokens) /\ i \in Nat /\ i - (from - 1) > 0
    BY <1>4
  <2>5. d.list.tokens[i] \in Tokens
    BY <1>4, <2>4
  <2> QED BY <1>4, <2>2, <2>3, <2>4, <2>5
<1> HIDE DEF from
<1>6. \A i, j \in from..Len(d.list.tokens) :
        Token(d.list.tokens[i]) = Token(d.list.tokens[j]) => i = j
  <2> TAKE i, j \in from..Len(d.list.tokens)
  <2> HAVE Token(d.list.tokens[i]) = Token(d.list.tokens[j])
  <2>1. d.list.tokens[i].n = d.list.tokens[j].n
    BY DEF Token
  <2>2. top + (i - (from - 1)) = top + (j - (from - 1))
    BY <1>5, <2>1
  <2>3. i \in Nat /\ j \in Nat
    BY <1>4
  <2> QED BY <1>4, <2>2, <2>3
<1>7. \A o \in S : o \in TokenObjects /\ o.n > top
  <2> TAKE o \in S
  <2>1. PICK i \in from..Len(d.list.tokens) : o = Token(d.list.tokens[i])
    BY DEF NewIn
  <2>2. d.list.tokens[i] \in Tokens /\ d.list.tokens[i].n > top
    BY <1>5
  <2> QED BY <2>1, <2>2, KindsOf
<1>8. S \cap L = {}
  <2> SUFFICES ASSUME NEW o \in S, o \in L PROVE FALSE
    OBVIOUS
  <2>1. o.n \in Nat /\ o.n <= top
    BY <1>1, ListedHasNumber
  <2> QED BY <1>4, <1>7, <2>1
<1>9. S \cap h = {}
  <2> SUFFICES ASSUME NEW o \in S, o \in h PROVE FALSE
    OBVIOUS
  <2>1. o \in TokenObjects /\ o.n > top
    BY <1>7
  <2>2. o.n \in Nat /\ o.kind = "token"
    BY <2>1 DEF TokenObjects
  <2>3. o.n <= top
    BY <1>1, <2>2 DEF Holdable
  <2> QED BY <1>4, <2>1, <2>2, <2>3
<1>10. S = {Token(d.list.tokens[i]) : i \in from..Len(d.list.tokens)}
  BY DEF NewIn
<1> HIDE DEF S, L
<1>11. Exact(CountTokens(refs, d.list, from), Ledger(h, 1, Len(st), L \cup S, 1, nm))
  <2>1. \A i \in from..Len(d.list.tokens) : d.list.tokens[i].meta \in nm
    BY <1>5
  <2>2. Exact(refs, Ledger(h, 1, Len(st), L, 1, nm))
    BY <1>1
  <2> QED BY <1>3, <1>4, <1>6, <1>8, <1>9, <1>10, <2>1, <2>2, AddExact
<1>12. \A o \in h : Holdable(o, nm, top2)
  BY <1>1, <1>4, HoldableStays
<1> HIDE DEF st2
<1> QED BY <1>2, <1>3, <1>11, <1>12 DEF World, st2, from


\* A parser starts.
LEMMA PushWorld ==
  ASSUME NEW h, NEW st, NEW refs, NEW nm, NEW tokenize, NEW bad, NEW top,
         World(h, 1, 1, st, refs, nm, tokenize, bad, top), Iterator(Len(st) + 1) \notin h,
         NEW d, Good(d, nm, tokenize, bad, top), d.list.tokens = << >>
  PROVE  World(h, 1, 1, Append(st, d), StartParser(refs, Len(st) + 1), nm, tokenize, bad, top)
<1> DEFINE st2 == Append(st, d)
<1>l. PICK n : n = Len(st)
  OBVIOUS
<1>1. Parsers(st, nm, tokenize, bad, top) /\ Exact(refs, Ledger(h, 1, n, ListedIn(st), 1, nm))
      /\ \A o \in h : Holdable(o, nm, top)
  BY <1>l DEF World
<1>2. /\ n \in Nat /\ st2 \in Seq(Range(st2)) /\ Len(st2) = n + 1 /\ st2[n + 1] = d
      /\ \A i \in 1..n : st2[i] = st[i]
  <2>1. st \in Seq(Range(st)) /\ n \in Nat
    BY <1>1, <1>l DEF Parsers
  <2>2. DOMAIN st2 = 1..(n + 1) /\ st2 = [i \in 1..(n + 1) |-> IF i = n + 1 THEN d ELSE st[i]]
    <3>1. st \in Seq(Range(st) \cup {d}) /\ d \in Range(st) \cup {d}
      BY <2>1
    <3>2. st2 \in Seq(Range(st) \cup {d}) /\ Len(st2) = n + 1 /\ st2[n + 1] = d
          /\ \A i \in 1..n : st2[i] = st[i]
      BY <1>l, <2>1, <3>1
    <3>3. \A i \in 1..(n + 1) : i \in 1..n \/ i = n + 1
      BY <2>1
    <3>4. n + 1 \notin 1..n
      BY <2>1
    <3> HIDE DEF st2
    <3>5. st2 = [i \in 1..(n + 1) |-> st2[i]]
      BY <3>2
    <3> QED BY <3>2, <3>3, <3>4, <3>5
  <2> HIDE DEF st2
  <2>3. \A i \in 1..(n + 1) : st2[i] \in Range(st2)
    BY <2>2 DEF Range
  <2>4. st2 = [i \in 1..(n + 1) |-> st2[i]] /\ n + 1 \in Nat
    BY <2>1, <2>2
  <2>5. st2 \in Seq(Range(st2)) /\ Len(st2) = n + 1
    BY <2>3, <2>4
  <2>6. st2[n + 1] = d /\ \A i \in 1..n : st2[i] = st[i]
    BY <2>1, <2>2
  <2> QED BY <2>1, <2>5, <2>6
<1> HIDE DEF st2
<1>3. \A i \in 1..(n + 1) : i \in 1..n \/ i = n + 1
  BY <1>2
<1>4. Len(d.list.tokens) = 0
  OBVIOUS
<1>5. \A i \in 1..Len(st2) : Good(st2[i], nm, tokenize, bad, top)
  BY <1>1, <1>2, <1>3, <1>l DEF Parsers
<1>6. Distinct(st2)
  <2> SUFFICES ASSUME NEW i \in 1..Len(st2), NEW j \in 1..Len(st2),
                      NEW a \in 1..Len(st2[i].list.tokens), NEW b \in 1..Len(st2[j].list.tokens),
                      st2[i].list.tokens[a].n = st2[j].list.tokens[b].n
               PROVE  i = j /\ a = b
    BY DEF Distinct
  <2>1. i # n + 1 /\ j # n + 1
    BY <1>2, <1>4
  <2>2. i \in 1..n /\ j \in 1..n
    BY <1>2, <1>3, <2>1
  <2>3. Distinct(st)
    BY <1>1 DEF Parsers
  <2>4. st2[i] = st[i] /\ st2[j] = st[j]
    BY <1>2, <2>2
  <2>5. i \in 1..Len(st) /\ j \in 1..Len(st)
    BY <1>l, <2>2
  <2>6. a \in 1..Len(st[i].list.tokens) /\ b \in 1..Len(st[j].list.tokens)
        /\ st[i].list.tokens[a].n = st[j].list.tokens[b].n
    BY <2>4
  <2>7. \A x \in 1..Len(st[i].list.tokens), y \in 1..Len(st[j].list.tokens) :
          st[i].list.tokens[x].n = st[j].list.tokens[y].n => i = j /\ x = y
    BY <2>3, <2>5 DEF Distinct
  <2> QED BY <2>6, <2>7
<1>7. ListedIn(st2) = ListedIn(st)
  <2>1. Listing(d) = {}
    BY <1>4 DEF Listing, TokensUpTo
  <2>2. \A i \in 1..n : i \in 1..(n + 1)
    BY <1>2
  <2>3. \A o : o \in ListedIn(st2) <=> \E i \in 1..(n + 1) : o \in Listing(st2[i])
    BY <1>2 DEF ListedIn
  <2>4. \A o : o \in ListedIn(st) <=> \E i \in 1..n : o \in Listing(st[i])
    BY <1>l DEF ListedIn
  <2>5. \A o : o \in ListedIn(st2) <=> o \in ListedIn(st)
    BY <1>2, <1>3, <2>1, <2>2, <2>3, <2>4
  <2> QED BY <2>5
<1>8. Exact(StartParser(refs, n + 1), Ledger(h, 1, n + 1, ListedIn(st), 1, nm))
  BY <1>1, <1>2, <1>l, StartExact
<1>9. Parsers(st2, nm, tokenize, bad, top)
  BY <1>1, <1>2, <1>5, <1>6 DEF Parsers
<1> QED BY <1>1, <1>2, <1>7, <1>8, <1>9, <1>l DEF World, st2

\* A parser ends.
LEMMA PopWorld ==
  ASSUME NEW h, NEW st, NEW refs, NEW nm, NEW tokenize, NEW bad, NEW top,
         World(h, 1, 1, st, refs, nm, tokenize, bad, top), Len(st) > 0, Iterator(Len(st)) \notin h
  PROVE  World(h, 1, 1, SubSeq(st, 1, Len(st) - 1),
               FreeParserData(refs, Len(st), st[Len(st)].list), nm, tokenize, bad, top)
<1>l. PICK n : n = Len(st) - 1
  OBVIOUS
<1> DEFINE st2 == SubSeq(st, 1, Len(st) - 1)
           list == st[n + 1].list
           S == TokensUpTo(list.tokens, Len(list.tokens))
<1>0. st \in Seq(Range(st)) /\ n \in Nat /\ Len(st) = n + 1
  <2>1. st \in Seq(Range(st))
    BY DEF World, Parsers
  <2> QED BY <1>l, <2>1
<1>1. Parsers(st, nm, tokenize, bad, top) /\ Exact(refs, Ledger(h, 1, n + 1, ListedIn(st), 1, nm))
      /\ (\A o \in h : Holdable(o, nm, top)) /\ Iterator(n + 1) \notin h
  BY <1>0 DEF World
<1>2. st2 \in Seq(Range(st2)) /\ Len(st2) = n /\ \A i \in 1..n : st2[i] = st[i]
  <2>1. st2 = SubSeq(st, 1, n)
    BY <1>l
  <2>2. DOMAIN st2 = 1..n /\ st2 = [i \in 1..n |-> st[i]]
    BY <1>0, <2>1
  <2> HIDE DEF st2
  <2>3. \A i \in 1..n : st2[i] \in Range(st2)
    BY <2>2 DEF Range
  <2>4. st2 = [i \in 1..n |-> st2[i]]
    BY <2>2
  <2>5. st2 \in Seq(Range(st2)) /\ Len(st2) = n
    BY <1>0, <2>3, <2>4
  <2> QED BY <2>2, <2>5
<1> HIDE DEF st2
<1>3. \A i \in 1..(n + 1) : i \in 1..n \/ i = n + 1
  BY <1>0
<1>4. \A i \in 1..n : i \in 1..(n + 1) /\ i # n + 1
  BY <1>0
<1>5. n + 1 \in 1..(n + 1)
  BY <1>0
<1>6. Distinct(st) /\ Good(st[n + 1], nm, tokenize, bad, top) /\ top \in Nat
  BY <1>0, <1>1, <1>5 DEF Parsers
<1>7. list.tokens \in Seq(Tokens)
  BY <1>6, GoodTokens
<1>8. Parsers(st2, nm, tokenize, bad, top)
  <2>1. \A i \in 1..n : Good(st2[i], nm, tokenize, bad, top)
    BY <1>0, <1>1, <1>2, <1>4 DEF Parsers
  <2>2. Distinct(st2)
    <3> SUFFICES ASSUME NEW i \in 1..n, NEW j \in 1..n,
                        NEW a \in 1..Len(st2[i].list.tokens), NEW b \in 1..Len(st2[j].list.tokens),
                        st2[i].list.tokens[a].n = st2[j].list.tokens[b].n
                 PROVE  i = j /\ a = b
      BY <1>2 DEF Distinct
    <3>1. st2[i] = st[i] /\ st2[j] = st[j] /\ i \in 1..Len(st) /\ j \in 1..Len(st)
      BY <1>0, <1>2, <1>4
    <3>2. \A x \in 1..Len(st[i].list.tokens), y \in 1..Len(st[j].list.tokens) :
            st[i].list.tokens[x].n = st[j].list.tokens[y].n => i = j /\ x = y
      BY <1>6, <3>1 DEF Distinct
    <3> QED BY <3>1, <3>2
  <2> QED BY <1>1, <1>2, <2>1, <2>2 DEF Parsers
<1>9. AllDifferent(list.tokens)
  <2> SUFFICES ASSUME NEW a \in 1..Len(list.tokens), NEW b \in 1..Len(list.tokens),
                      Token(list.tokens[a]) = Token(list.tokens[b])
               PROVE  a = b
    BY DEF AllDifferent
  <2>1. list.tokens[a].n = list.tokens[b].n
    BY DEF Token
  <2>2. n + 1 \in 1..Len(st)
    BY <1>0, <1>5
  <2> QED BY <1>6, <2>1, <2>2 DEF Distinct
<1>10. S \cap ListedIn(st2) = {}
  <2> SUFFICES ASSUME NEW o \in S, o \in ListedIn(st2) PROVE FALSE
    OBVIOUS
  <2>1. PICK i \in 1..n : o \in Listing(st2[i])
    BY <1>2 DEF ListedIn
  <2>2. PICK a \in 1..Len(st[i].list.tokens) : o = Token(st[i].list.tokens[a])
    BY <1>2, <2>1 DEF Listing, TokensUpTo
  <2>3. PICK b \in 1..Len(list.tokens) : o = Token(list.tokens[b])
    BY DEF TokensUpTo
  <2>4. st[i].list.tokens[a].n = list.tokens[b].n
    <3>1. \A t, u : Token(t) = Token(u) => t.n = u.n
      BY DEF Token
    <3>2. Token(st[i].list.tokens[a]) = Token(list.tokens[b])
      BY <2>2, <2>3
    <3> QED BY <3>1, <3>2
  <2>5. i \in 1..Len(st) /\ n + 1 \in 1..Len(st) /\ i # n + 1
    BY <1>0, <1>4, <1>5
  <2> QED BY <1>6, <2>4, <2>5 DEF Distinct
<1>11. ListedIn(st) = ListedIn(st2) \cup S
  <2>1. S = Listing(st[n + 1])
    BY DEF Listing
  <2> HIDE DEF S
  <2>2. \A o : o \in ListedIn(st2) <=> \E i \in 1..n : o \in Listing(st2[i])
    BY <1>2 DEF ListedIn
  <2>3. \A o : o \in ListedIn(st) <=> \E i \in 1..(n + 1) : o \in Listing(st[i])
    BY <1>0 DEF ListedIn
  <2>4. \A o : o \in ListedIn(st) <=> o \in ListedIn(st2) \/ o \in S
    BY <1>2, <1>3, <1>4, <1>5, <2>1, <2>2, <2>3
  <2> QED BY <2>4
<1>12. Exact(refs, Ledger(h, 1, n + 1, ListedIn(st2) \cup S, 1, nm))
  BY <1>1, <1>11
<1>13. Exact(FreeParserData(refs, n + 1, list), Ledger(h, 1, n, ListedIn(st2), 1, nm))
  <2> HIDE DEF list
  <2> QED BY <1>0, <1>1, <1>7, <1>9, <1>10, <1>12, StopExact
<1> HIDE DEF list, S
<1> QED BY <1>0, <1>1, <1>2, <1>8, <1>13 DEF World, st2, list


\* No one refers to a name that is not known.
LEMMA LearnWorld ==
  ASSUME NEW h, NEW st, NEW refs, NEW nm, NEW tokenize, NEW bad, NEW top,
         World(h, 1, 1, st, refs, nm, tokenize, bad, top), NEW m \in Nat, m \notin nm
  PROVE  World(h, 1, 1, st, Allocate(refs, Meta(m), 1), nm \cup {m}, tokenize, bad, top)
<1>l. PICK n : n = Len(st)
  OBVIOUS
<1> DEFINE L == ListedIn(st)
           a == Ledger(h, 1, n, L, 1, nm)
           o == Meta(m)
<1>1. Parsers(st, nm, tokenize, bad, top) /\ Exact(refs, a) /\ \A x \in h : Holdable(x, nm, top)
  BY <1>l DEF World
<1>2. n \in Nat /\ top \in Nat /\ nm \subseteq Nat /\ st \in Seq(Range(st))
  BY <1>1, <1>l DEF Parsers
<1>3. o \in Objects /\ o.kind = "meta" /\ o.n = m /\ o # S3
  BY KindsOf
<1> HIDE DEF o, L
<1>4. o \notin h
  BY <1>1, <1>3 DEF Holdable
<1>5. a[o] = 0
  BY <1>3, <1>4 DEF Ledger, Own
<1>6. Holding(refs, m) = {}
  <2> SUFFICES ASSUME NEW t \in DOMAIN refs, t.kind = "token", t.meta = m PROVE FALSE
    BY DEF Holding
  <2>1. t \in Objects
    BY <1>1 DEF Exact
  <2>2. Owed(refs, a, t) = a[t] /\ Owed(refs, a, t) > 0
    <3>1. Owed(refs, a, t) = a[t]
      <4> HIDE DEF a
      <4> QED BY <1>1, <2>1, OwedType
    <3>2. Owed(refs, a, t) > 0
      <4> HIDE DEF a
      <4> QED BY <1>1, <2>1 DEF Exact
    <3> QED BY <3>1, <3>2
  <2>3. t \in h \/ t \in L
    <3>1. a[t] > 0
      <4> HIDE DEF a
      <4> QED BY <2>2
    <3> QED BY <2>1, <3>1 DEF Ledger, Own
  <2>4. t.meta \in nm
    BY <1>1, <2>3, ListedHasNumber DEF Holdable, L
  <2> QED BY <2>4
<1> HIDE DEF a
<1>7. Owed(refs, a, o) = 0
  BY <1>3, <1>5, <1>6, FS_EmptySet DEF Owed
<1>8. o \notin DOMAIN refs
  BY <1>1, <1>3, <1>7 DEF Exact
<1>9. Exact(Allocate(refs, o, 1), Up(a, o))
  <2>1. o.kind # "token"
    BY <1>3
  <2> QED BY <1>1, <1>3, <1>8, <2>1, AllocateExact
<1>10. Up(a, o) = Ledger(h, 1, n, L, 1, nm \cup {m})
  BY <1>2, LedgerName DEF a, o
<1>11. Parsers(st, nm \cup {m}, tokenize, bad, top)
  <2>1. ASSUME NEW i \in 1..Len(st) PROVE Good(st[i], nm \cup {m}, tokenize, bad, top)
    <3>1. Good(st[i], nm, tokenize, bad, top)
      BY <1>1 DEF Parsers
    <3>2. nm \subseteq nm \cup {m} /\ top <= top
      BY <1>2
    <3> QED BY <1>2, <3>1, <3>2, GoodStays
  <2> QED BY <1>1, <1>2, <2>1 DEF Parsers
<1>12. \A x \in h : Holdable(x, nm \cup {m}, top)
  BY <1>1 DEF Holdable
<1>13. Exact(Allocate(refs, o, 1), Ledger(h, 1, Len(st), ListedIn(st), 1, nm \cup {m}))
  BY <1>9, <1>10, <1>l DEF L
<1> QED BY <1>11, <1>12, <1>13 DEF World, o

\* The program keeps an object.
LEMMA KeepWorld ==
  ASSUME NEW h, NEW st, NEW refs, NEW nm, NEW tokenize, NEW bad, NEW top,
         World(h, 1, 1, st, refs, nm, tokenize, bad, top),
         NEW o \in DOMAIN refs, o \notin h, Holdable(o, nm, top)
  PROVE  World(h \cup {o}, 1, 1, st, Inc(refs, o), nm, tokenize, bad, top)
<1>l. PICK n : n = Len(st)
  OBVIOUS
<1> DEFINE a == Ledger(h, 1, n, ListedIn(st), 1, nm)
<1>1. Parsers(st, nm, tokenize, bad, top) /\ Exact(refs, a) /\ \A x \in h : Holdable(x, nm, top)
  BY <1>l DEF World
<1>2. n \in Nat /\ o \in Objects
  <2>1. st \in Seq(Range(st))
    BY <1>1 DEF Parsers
  <2> QED BY <1>l, <2>1 DEF Holdable
<1>3. Up(a, o) = Ledger(h \cup {o}, 1, n, ListedIn(st), 1, nm)
  BY <1>2, LedgerHeld
<1> HIDE DEF a
<1>4. Exact(Inc(refs, o), Up(a, o))
  BY <1>1, IncExact
<1>5. \A x \in h \cup {o} : Holdable(x, nm, top)
  BY <1>1
<1> QED BY <1>1, <1>3, <1>4, <1>5, <1>l DEF World

\* What is held is released, whatever else there is.
LEMMA DropPlain ==
  ASSUME NEW h, NEW up \in {0, 1}, NEW conf, NEW st, NEW refs, NEW nm, NEW tokenize, NEW bad, NEW top,
         World(h, up, conf, st, refs, nm, tokenize, bad, top), NEW o \in h, o # Config
  PROVE  World(h \ {o}, up, conf, st, Release(refs, o), nm, tokenize, bad, top)
<1>l. PICK n : n = Len(st)
  OBVIOUS
<1> DEFINE a == Ledger(h, up, n, ListedIn(st), conf, nm)
           g == h \ {o}
<1>1. Parsers(st, nm, tokenize, bad, top) /\ Exact(refs, a) /\ \A x \in h : Holdable(x, nm, top)
  BY <1>l DEF World
<1>2. n \in Nat /\ o \in Objects /\ o # S3
  <2>1. st \in Seq(Range(st))
    BY <1>1 DEF Parsers
  <2> QED BY <1>1, <1>l, <2>1 DEF Holdable
<1>3. Down(a, o) = Ledger(g, up, n, ListedIn(st), conf, nm)
  <2>1. o \notin g /\ h = g \cup {o}
    OBVIOUS
  <2> HIDE DEF g
  <2>2. Down(Ledger(g \cup {o}, up, n, ListedIn(st), conf, nm), o) = Ledger(g, up, n, ListedIn(st), conf, nm)
    BY <1>2, <2>1, LedgerHeld
  <2> QED BY <2>1, <2>2
<1>4. a[o] > 0
  <2>1. Own(up, n, ListedIn(st), conf, nm, o) \in Nat
    BY <1>2, LedgerType
  <2> QED BY <1>2, <2>1 DEF Ledger
<1> HIDE DEF a
<1>5. Exact(Release(refs, o), Down(a, o))
  <2>1. CASE o.kind = "token"
    <3>1. o \in TokenObjects
      BY <1>2, <2>1, ObjectKind
    <3>2. Release(refs, o) = ReleaseToken(refs, o)
      BY <2>1 DEF Release
    <3> QED BY <1>1, <1>4, <3>1, <3>2, ReleaseTokenExact
  <2>2. CASE o.kind # "token"
    <3>1. Release(refs, o) = ReleasePlain(refs, o)
      BY <2>2 DEF Release
    <3> QED BY <1>1, <1>2, <1>4, <2>2, <3>1, ReleasePlainExact
  <2> QED BY <2>1, <2>2
<1>6. \A x \in g : Holdable(x, nm, top)
  BY <1>1
<1> QED BY <1>1, <1>3, <1>5, <1>6, <1>l DEF World


\* The configuration, while others refer to it, and when nobody does any more.
Learnt(seq) == seq \in Seq(Nat) /\ \A i, j \in 1..Len(seq) : seq[i] = seq[j] => i = j

LEMMA ReleaseConfigExact ==
  ASSUME NEW refs, NEW base, Exact(refs, base), base[Config] > 1
  PROVE  Exact(ReleaseConfig(refs), Down(base, Config))
<1>1. Config \in Objects /\ Config.kind = "config" /\ Config # S3
  BY KindsOf
<1>2. refs[Config] = base[Config] /\ base[Config] \in Nat
  <2>1. Owed(refs, base, Config) = base[Config] /\ base[Config] \in Nat
    BY <1>1, OwedType
  <2>2. Owed(refs, base, Config) > 0
    BY <2>1
  <2> QED BY <1>1, <2>1, <2>2 DEF Exact
<1>3. ReleaseConfig(refs) = ReleasePlain(refs, Config)
  <2>1. ~(refs[Config] <= 1)
    BY <1>2
  <2> QED BY <2>1 DEF ReleaseConfig, ReleasePlain
<1>4. base[Config] > 0 /\ Config.kind # "token"
  BY <1>1, <1>2
<1> QED BY <1>1, <1>3, <1>4, ReleasePlainExact

LEMMA LastConfigExact ==
  ASSUME NEW h, Config \notin h, Learnt(names), NEW refs,
         Exact(refs, Ledger(h \cup {Config}, 0, 0, {}, 1, Range(names)))
  PROVE  Exact(ReleaseConfig(refs), Ledger(h, 0, 0, {}, 0, Range(names)))
<1> DEFINE nm == Range(names)
           g  == h \cup {Config}
           a  == Ledger(g, 0, 0, {}, 1, nm)
           b  == Ledger(g, 0, 0, {}, 0, nm)
           Mine == MetasUpTo(names, Len(names))
           r1 == Fold(ReleaseName, refs, names)
<1>0. Exact(refs, a) /\ Config \in g /\ names \in Seq(Nat) /\ Len(names) \in Nat
  BY DEF Learnt
<1>1. Config \in Objects /\ Config.kind = "config" /\ Config # S3
  BY KindsOf
<1>2. a \in [Objects -> Nat] /\ b \in [Objects -> Nat]
  BY LedgerType
<1>3. a[Config] = 1 /\ b[Config] = 1
  <2> HIDE DEF g, nm
  <2> QED BY <1>0, <1>1 DEF Ledger, Own
<1>4. \A i \in 1..Len(names) : names[i] \in nm /\ Meta(names[i]) \in Objects
                               /\ Meta(names[i]).kind = "meta" /\ Meta(names[i]).n = names[i]
  <2> TAKE i \in 1..Len(names)
  <2>1. names[i] \in Nat /\ i \in DOMAIN names
    BY <1>0
  <2> QED BY <2>1, KindsOf DEF Range
<1>5. \A o \in Objects : o \in Mine <=> o.kind = "meta" /\ o.n \in nm
  <2> TAKE o \in Objects
  <2>1. ASSUME o \in Mine PROVE o.kind = "meta" /\ o.n \in nm
    <3>1. PICK i \in 1..Len(names) : o = Meta(names[i])
      BY <2>1 DEF MetasUpTo
    <3> HIDE DEF Mine, nm
    <3> QED BY <1>4, <3>1
  <2>2. ASSUME o.kind = "meta", o.n \in nm PROVE o \in Mine
    <3>1. PICK i \in DOMAIN names : o.n = names[i]
      BY <2>2 DEF Range
    <3>2. o = Meta(o.n)
      BY <2>2, ObjectKind
    <3>3. i \in 1..Len(names)
      BY <1>0
    <3>4. o = Meta(names[i])
      BY <3>1, <3>2
    <3> QED BY <3>3, <3>4 DEF MetasUpTo
  <2> QED BY <2>1, <2>2
<1>6. ASSUME NEW o \in Objects PROVE a[o] = b[o] + IF o \in Mine THEN 1 ELSE 0
  <2>1. o.kind \in ObjectKinds
    BY ObjectKind
  <2> HIDE DEF Mine, nm, g
  <2> QED BY <1>5, <2>1 DEF Ledger, Own, ObjectKinds
<1>7. \A i \in 1..Len(names) : a[Meta(names[i])] > 0
  <2> HIDE DEF nm, g
  <2> QED BY <1>4 DEF Ledger, Own
<1> HIDE DEF a, b, Mine
<1>8. Minus(a, Mine) = b
  BY <1>2, <1>6, LedgerPlus
<1>9. Exact(r1, b)
  <2>1. \A i, j \in 1..Len(names) : names[i] = names[j] => i = j
    BY DEF Learnt
  <2>2. Exact(Fold(ReleaseName, refs, names), Minus(a, MetasUpTo(names, Len(names))))
    BY <1>0, <1>7, <2>1, NamesExact
  <2> QED BY <1>8, <2>2 DEF Mine
<1> HIDE DEF r1
<1>10. Exact(Dispose(r1, Config), Down(b, Config))
  BY <1>1, <1>3, <1>9, DisposeExact
<1>11. refs[Config] = 1
  <2>1. Owed(refs, a, Config) = 1
    BY <1>0, <1>1, <1>3, OwedType
  <2> QED BY <1>0, <1>1, <2>1 DEF Exact
<1>12. ReleaseConfig(refs) = Dispose(r1, Config)
  BY <1>11 DEF ReleaseConfig, r1
<1>13. Down(b, Config) = Ledger(h, 0, 0, {}, 0, nm)
  BY <1>1, LedgerHeld DEF b
<1> QED BY <1>10, <1>12, <1>13

LEMMA DropWorld ==
  ASSUME NEW h, NEW st, NEW refs, NEW tokenize, NEW bad, NEW top,
         World(h, 1, 1, st, refs, Range(names), tokenize, bad, top), NEW o \in h
  PROVE  World(h \ {o}, 1, 1, st, Release(refs, o), Range(names), tokenize, bad, top)
<1>1. CASE o # Config
  BY <1>1, DropPlain
<1>2. CASE o = Config
  <2>l. PICK n : n = Len(st)
    OBVIOUS
  <2> DEFINE nm == Range(names)
             a  == Ledger(h, 1, n, ListedIn(st), 1, nm)
             g  == h \ {o}
  <2>1. Parsers(st, nm, tokenize, bad, top) /\ Exact(refs, a) /\ \A x \in h : Holdable(x, nm, top)
    BY <2>l DEF World
  <2>2. n \in Nat /\ o \in Objects /\ o.kind = "config"
    <3>1. st \in Seq(Range(st))
      BY <2>1 DEF Parsers
    <3> QED BY <1>2, <2>l, <3>1, KindsOf
  <2>3. a[o] > 1
    <3> HIDE DEF nm
    <3> QED BY <2>2 DEF Ledger, Own
  <2>4. Down(a, o) = Ledger(g, 1, n, ListedIn(st), 1, nm)
    <3>1. o \notin g /\ h = g \cup {o}
      OBVIOUS
    <3> HIDE DEF g, nm
    <3>2. Down(Ledger(g \cup {o}, 1, n, ListedIn(st), 1, nm), o) = Ledger(g, 1, n, ListedIn(st), 1, nm)
      BY <2>2, <3>1, LedgerHeld
    <3> QED BY <3>1, <3>2
  <2> HIDE DEF a
  <2>5. Release(refs, o) = ReleaseConfig(refs)
    BY <1>2, KindsOf DEF Release
  <2>6. Exact(Release(refs, o), Down(a, o))
    BY <1>2, <2>1, <2>3, <2>5, ReleaseConfigExact
  <2> QED BY <2>1, <2>4, <2>6, <2>l DEF World
<1> QED BY <1>1, <1>2

\* The same when there is no swish_3 any more.
LEMMA DropFreed ==
  ASSUME NEW h, Learnt(names), NEW conf, conf = (IF Config \in h THEN 1 ELSE 0),
         NEW refs, NEW tokenize, NEW bad, NEW top,
         World(h, 0, conf, << >>, refs, Range(names), tokenize, bad, top),
         NEW o \in h, NEW conf2, conf2 = (IF Config \in h \ {o} THEN 1 ELSE 0)
  PROVE  World(h \ {o}, 0, conf2, << >>, Release(refs, o), Range(names), tokenize, bad, top)
<1>1. CASE o # Config
  <2>1. conf2 = conf
    BY <1>1
  <2>2. 0 \in {0, 1}
    OBVIOUS
  <2> QED BY <1>1, <2>1, <2>2, DropPlain
<1>2. CASE o = Config
  <2> DEFINE g  == h \ {o}
  <2>0. ListedIn(<< >>) = {} /\ Len(<< >>) = 0
    BY DEF ListedIn
  <2>1. conf = 1 /\ conf2 = 0 /\ Config \notin g /\ h = g \cup {Config}
    BY <1>2
  <2> HIDE DEF g
  <2>2. Exact(refs, Ledger(g \cup {Config}, 0, 0, {}, 1, Range(names)))
    BY <2>0, <2>1 DEF World
  <2>3. Exact(ReleaseConfig(refs), Ledger(g, 0, 0, {}, 0, Range(names)))
    BY <2>1, <2>2, LastConfigExact
  <2>4. Release(refs, o) = ReleaseConfig(refs)
    BY <1>2, KindsOf DEF Release
  <2>5. Exact(Release(refs, o), Ledger(g, 0, Len(<< >>), ListedIn(<< >>), conf2, Range(names)))
    BY <2>0, <2>1, <2>3, <2>4
  <2>6. \A x \in g : Holdable(x, Range(names), top)
    BY <2>1 DEF World
  <2> QED BY <2>5, <2>6 DEF World, g
<1> QED BY <1>1, <1>2


\* The program frees the swish_3.
LEMMA FreeWorld ==
  ASSUME NEW h, Learnt(names), NEW refs, NEW tokenize, NEW bad, NEW top,
         World(h, 1, 1, << >>, refs, Range(names), tokenize, bad, top),
         NEW conf, conf = (IF Config \in h THEN 1 ELSE 0)
  PROVE  World(h, 0, conf, << >>,
               ReleaseConfig(ReleasePlain(ReleasePlain(Dispose(refs, S3), Parser), Analyzer)),
               Range(names), tokenize, bad, top)
<1> DEFINE nm == Range(names)
           a  == Ledger(h, 1, 0, {}, 1, nm)
           c  == Ledger(h, 0, 0, {}, 1, nm)
           d  == Up(c, Config)
           r1 == Dispose(refs, S3)
           r2 == ReleasePlain(r1, Parser)
           r3 == ReleasePlain(r2, Analyzer)
<1>0. ListedIn(<< >>) = {} /\ Len(<< >>) = 0
  BY DEF ListedIn
<1>1. Exact(refs, a) /\ Parsers(<< >>, nm, tokenize, bad, top) /\ \A x \in h : Holdable(x, nm, top)
  BY <1>0 DEF World
<1>2. /\ S3 \in Objects /\ S3.kind = "s3" /\ Config \in Objects /\ Config.kind = "config"
      /\ Parser \in Objects /\ Parser.kind = "parser" /\ Analyzer \in Objects /\ Analyzer.kind = "analyzer"
      /\ S3 \notin h /\ Parser \notin h
  BY <1>1, KindsOf DEF Holdable
<1>3. a \in [Objects -> Nat] /\ c \in [Objects -> Nat]
  BY LedgerType
<1>4. a[S3] = 1 /\ a[Parser] > 0 /\ a[Analyzer] > 0 /\ c[Config] \in Nat /\ c[Config] = (IF Config \in h THEN 1 ELSE 0)
  <2> HIDE DEF nm
  <2> QED BY <1>2 DEF Ledger, Own
<1>5. ASSUME NEW o \in Objects PROVE a[o] = c[o] + IF o \in {S3, Parser, Analyzer, Config} THEN 1 ELSE 0
  <2>1. (o.kind = "s3" <=> o = S3) /\ (o.kind = "config" <=> o = Config)
        /\ (o.kind = "parser" <=> o = Parser) /\ (o.kind = "analyzer" <=> o = Analyzer)
    BY ObjectKind
  <2> HIDE DEF nm
  <2> QED BY <2>1 DEF Ledger, Own
<1> HIDE DEF a, c, nm
<1>6. \A o \in Objects : a[o] \in Nat /\ c[o] \in Nat
  BY <1>3
<1>7. d \in [Objects -> Nat] /\ \A o \in Objects : d[o] = c[o] + IF o = Config THEN 1 ELSE 0
  BY <1>2, <1>3, <1>6 DEF Up
<1> HIDE DEF d
<1>8. \A o \in Objects : a[o] = d[o] + IF o \in {S3, Parser, Analyzer} THEN 1 ELSE 0
  <2> TAKE o \in Objects
  <2>1. Config \notin {S3, Parser, Analyzer}
    BY <1>2
  <2> QED BY <1>5, <1>6, <1>7, <2>1
<1>9. Down(Down(Down(a, S3), Parser), Analyzer) = d
  <2>1. Minus(a, {S3, Parser, Analyzer}) = d
    BY <1>3, <1>7, <1>8, LedgerPlus
  <2>2. S3 \notin {} /\ Parser \notin {S3} /\ Analyzer \notin {S3, Parser}
    BY <1>2
  <2>3. Down(a, S3) = Minus(a, {S3})
    <3>1. Minus(a, {}) = a
      BY <1>3, PlusNone
    <3>2. \A S : S = {} => Down(Minus(a, S), S3) = Minus(a, S \cup {S3})
      BY <1>2, <1>3, MinusOne
    <3>3. Down(Minus(a, {}), S3) = Minus(a, {} \cup {S3})
      BY <3>2
    <3>4. {} \cup {S3} = {S3}
      OBVIOUS
    <3> QED BY <3>1, <3>3, <3>4
  <2>4. Down(Minus(a, {S3}), Parser) = Minus(a, {S3, Parser})
    <3>1. Down(Minus(a, {S3}), Parser) = Minus(a, {S3} \cup {Parser})
      BY <1>2, <1>3, <2>2, MinusOne
    <3>2. {S3} \cup {Parser} = {S3, Parser}
      OBVIOUS
    <3> QED BY <3>1, <3>2
  <2>5. Down(Minus(a, {S3, Parser}), Analyzer) = Minus(a, {S3, Parser, Analyzer})
    <3>1. Down(Minus(a, {S3, Parser}), Analyzer) = Minus(a, {S3, Parser} \cup {Analyzer})
      BY <1>2, <1>3, <2>2, MinusOne
    <3>2. {S3, Parser} \cup {Analyzer} = {S3, Parser, Analyzer}
      OBVIOUS
    <3> QED BY <3>1, <3>2
  <2> QED BY <2>1, <2>3, <2>4, <2>5
<1>10. Exact(r3, d)
  <2>1. Exact(r1, Down(a, S3))
    BY <1>1, <1>4, DisposeS3Exact
  <2>2. Down(a, S3)[Parser] > 0 /\ Parser.kind # "token" /\ Parser # S3
    BY <1>2, <1>3, <1>4 DEF Down
  <2>3. Down(Down(a, S3), Parser)[Analyzer] > 0 /\ Analyzer.kind # "token" /\ Analyzer # S3
    BY <1>2, <1>3, <1>4 DEF Down
  <2> HIDE DEF r1
  <2>4. Exact(r2, Down(Down(a, S3), Parser))
    BY <1>2, <2>1, <2>2, ReleasePlainExact
  <2> HIDE DEF r2
  <2>5. Exact(r3, Down(Down(Down(a, S3), Parser), Analyzer))
    BY <1>2, <2>3, <2>4, ReleasePlainExact
  <2> QED BY <1>9, <2>5
<1> HIDE DEF r3
<1>11. Exact(ReleaseConfig(r3), Ledger(h, 0, 0, {}, conf, nm))
  <2>1. CASE Config \in h
    <3>1. d[Config] > 1
      BY <1>2, <1>4, <1>7, <2>1
    <3>2. Exact(ReleaseConfig(r3), Down(d, Config))
      BY <1>10, <3>1, ReleaseConfigExact
    <3>3. Down(d, Config) = c
      BY <1>2, <1>3, <1>7, LedgerUp
    <3>4. conf = 1
      BY <2>1
    <3> QED BY <3>2, <3>3, <3>4 DEF c
  <2>2. CASE Config \notin h
    <3>1. d = Ledger(h \cup {Config}, 0, 0, {}, 1, nm)
      <4> DEFINE e == Ledger(h \cup {Config}, 0, 0, {}, 1, nm)
      <4>2. e \in [Objects -> Nat]
        BY LedgerType
      <4>3. \A q \in Objects : e[q] = c[q] + IF q = Config THEN 1 ELSE 0
        <5> TAKE q \in Objects
        <5>1. Own(0, 0, {}, 1, nm, q) \in Nat
          BY LedgerType
        <5> QED BY <2>2, <5>1 DEF c, Ledger
      <4> HIDE DEF e
      <4>1. Up(c, Config) = e
        BY <1>2, <1>3, <4>2, <4>3, LedgerUp
      <4> QED BY <4>1 DEF d, e
    <3>2. Exact(ReleaseConfig(r3), Ledger(h, 0, 0, {}, 0, nm))
      BY <1>10, <2>2, <3>1, LastConfigExact DEF nm
    <3>3. conf = 0
      BY <2>2
    <3> QED BY <3>2, <3>3
  <2> QED BY <2>1, <2>2
<1>12. Exact(ReleaseConfig(r3), Ledger(h, 0, Len(<< >>), ListedIn(<< >>), conf, nm))
  BY <1>0, <1>11
<1> QED BY <1>1, <1>12 DEF World, r1, r2, r3, nm

\* A file that is not there: a parser that comes and goes.
LEMMA VisitWorld ==
  ASSUME NEW h, NEW refs, NEW nm, NEW tokenize, NEW bad, NEW top, NEW list, list.tokens = << >>,
         World(h, 1, 1, << >>, refs, nm, tokenize, bad, top), Iterator(1) \notin h
  PROVE  World(h, 1, 1, << >>, FreeParserData(StartParser(refs, 1), 1, list), nm, tokenize, bad, top)
<1>0. ListedIn(<< >>) = {} /\ Len(<< >>) = 0
  BY DEF ListedIn
<1>1. Exact(refs, Ledger(h, 1, 0, {}, 1, nm)) /\ Parsers(<< >>, nm, tokenize, bad, top)
      /\ (\A x \in h : Holdable(x, nm, top)) /\ Iterator(0 + 1) \notin h
  <2>1. 0 + 1 = 1
    OBVIOUS
  <2>2. Exact(refs, Ledger(h, 1, 0, {}, 1, nm))
    BY <1>0 DEF World
  <2>3. Iterator(0 + 1) \notin h
    BY <2>1
  <2> QED BY <2>2, <2>3 DEF World
<1>2. Exact(StartParser(refs, 0 + 1), Ledger(h, 1, 0 + 1, {}, 1, nm))
  BY <1>1, StartExact
<1>3. list.tokens \in Seq(Tokens) /\ AllDifferent(list.tokens)
      /\ TokensUpTo(list.tokens, Len(list.tokens)) = {}
  <2>1. Len(list.tokens) = 0
    OBVIOUS
  <2> QED BY <2>1 DEF AllDifferent, TokensUpTo
<1>4. Exact(FreeParserData(StartParser(refs, 0 + 1), 0 + 1, list), Ledger(h, 1, 0, {}, 1, nm))
  <2>1. {} \cup TokensUpTo(list.tokens, Len(list.tokens)) = {}
        /\ TokensUpTo(list.tokens, Len(list.tokens)) \cap {} = {}
    BY <1>3
  <2>2. Exact(StartParser(refs, 0 + 1),
              Ledger(h, 1, 0 + 1, {} \cup TokensUpTo(list.tokens, Len(list.tokens)), 1, nm))
    BY <1>2, <2>1
  <2> QED BY <1>1, <1>3, <2>1, <2>2, StopExact
<1>5. 0 + 1 = 1
  OBVIOUS
<1> QED BY <1>0, <1>1, <1>4, <1>5 DEF World


-----------------------------------------------------------------------------
(* Words that are flushed, and words of an included file.                  *)

LEMMA SoundRenumbered ==
  ASSUME NEW list, Sound(list), NEW m \in Nat
  PROVE  LET new == [list EXCEPT !.made = m]
         IN /\ Sound(new) /\ (Ended(list) => Ended(new)) /\ new.made = m
            /\ new.tokens = list.tokens /\ new.buf = list.buf
<1> DEFINE new == [list EXCEPT !.made = m]
<1>1. list \in Lists
  BY DEF Sound
<1>2. new \in Lists /\ new.tokens = list.tokens /\ new.buf = list.buf /\ new.size = list.size
      /\ new.pos = list.pos /\ new.made = m
  BY <1>1 DEF Lists
<1> HIDE DEF new
<1>3. Sound(new)
  BY <1>2 DEF Sound
<1>4. Ended(list) => Ended(new)
  BY <1>2 DEF Ended, EndedAt
<1> QED BY <1>2, <1>3, <1>4 DEF new

\* From top on, the tokens that a list has got are numbered up to top2.
Tally(top, old, new, top2) == top2 = top + (Len(new.tokens) - Len(old.tokens))
NumberedTo(old, new, top2) == Len(new.tokens) > Len(old.tokens) => new.made = top2
LastMade(list, top2)       == list.made = top2
Keeps(d, f)                == f.saved = d.saved /\ f.next = d.next

LEMMA FlushedGood ==
  ASSUME setup.tokenize \in BOOLEAN, made \in Nat, NEW nm, nm \subseteq Nat, NEW meta \in nm,
         NEW bad, NEW d, Good(d, nm, setup.tokenize, bad, made),
         NEW bad2, bad => bad2, setup.tokenize /\ ~Gentle(d.meta_buf) => bad2,
         NEW f, f = Flushed(d, meta),
         NEW top2, Tally(made, d.list, f.list, top2)
  PROVE  /\ Grows(d.list, f.list, nm, made, top2) /\ Good(f, nm, setup.tokenize, bad2, top2)
         /\ Keeps(d, f) /\ NumberedTo(d.list, f.list, top2)
<1> USE DEF Tally
<1> DEFINE old == [d.list EXCEPT !.made = made]
           new == IF setup.tokenize THEN Tokenize(old, d.meta_buf, meta) ELSE d.list
<1>0. Sound(d.list) /\ d.meta_buf \in Seq(Char) /\ meta \in Nat /\ DOMAIN d = DataFields
      /\ d.list.made \in Nat /\ d.list.made <= made /\ d.nwords \in Nat
      /\ (setup.tokenize => d.nwords = Len(d.list.tokens))
      /\ (bad \/ Ended(d.list))
  BY LengthsOf DEF Good
<1>1. Sound(old) /\ (Ended(d.list) => Ended(old)) /\ old.made = made /\ old.tokens = d.list.tokens
  BY <1>0, SoundRenumbered
<1>l. PICK n : n = Len(d.list.tokens)
  OBVIOUS
<1>2. n \in Nat /\ \A i \in 1..n : d.list.tokens[i].n <= made /\ d.list.tokens[i].meta \in nm
  BY <1>l, GoodTokens
<1> HIDE DEF old
<1>3. /\ Sound(new) /\ n <= Len(new.tokens) /\ \A i \in 1..n : new.tokens[i] = d.list.tokens[i]
      /\ \A i \in (n + 1)..Len(new.tokens) :
           new.tokens[i].n = made + (i - n) /\ new.tokens[i].meta \in nm
      /\ (bad2 \/ Ended(new))
      /\ new.made = (IF setup.tokenize THEN made + (Len(new.tokens) - n) ELSE d.list.made)
  <2>1. CASE setup.tokenize
    <3>1. new = Tokenize(old, d.meta_buf, meta)
      BY <2>1
    <3> HIDE DEF new
    <3>2. Sound(new)
      BY <1>0, <1>1, <3>1, TokenizeSound
    <3>3. Extends(old, new, {meta})
      BY <1>0, <1>1, <3>1, TokenizeSound
    <3>4. Ended(old) /\ Gentle(d.meta_buf) => Ended(new)
      BY <1>0, <1>1, <3>1, TokenizeSound
    <3>5. Len(old.tokens) = n
      BY <1>1, <1>l
    <3>6. bad2 \/ Ended(new)
      BY <1>0, <1>1, <2>1, <3>4
    <3>7. /\ n <= Len(new.tokens) /\ \A i \in 1..n : new.tokens[i] = old.tokens[i]
          /\ \A i \in (n + 1)..Len(new.tokens) :
               new.tokens[i].n = old.made + (i - n) /\ new.tokens[i].meta \in {meta}
          /\ new.made = old.made + (Len(new.tokens) - n)
      BY <3>3, <3>5 DEF Extends
    <3> QED BY <1>1, <2>1, <3>2, <3>6, <3>7
  <2>2. CASE ~setup.tokenize
    <3>1. new = d.list /\ Len(new.tokens) = n
      BY <1>l, <2>2
    <3>2. (n + 1)..n = {}
      BY <1>2
    <3> HIDE DEF new
    <3> QED BY <1>0, <1>2, <2>2, <3>1, <3>2
  <2> QED BY <2>1, <2>2
<1>4. f.list = new /\ f.left = d.left /\ f.metastack = d.metastack /\ f.saved = d.saved
      /\ f.next = d.next /\ f.meta_buf = << >> /\ DOMAIN f = DataFields
      /\ f.nwords = d.nwords + Len(new.tokens) - n
  <2> HIDE DEF new
  <2>1. f = [d EXCEPT !.buffers = [m \in DOMAIN @ \cup {meta} |->
                              IF m = meta
                              THEN Joined(IF m \in DOMAIN @ THEN @[m] ELSE << >>, d.meta_buf)
                              ELSE @[m]],
                 !.list = new, !.nwords = @ + Len(new.tokens) - n, !.meta_buf = << >>]
    BY <1>l DEF Flushed, new, old
  <2>2. PICK b : f = [d EXCEPT !.buffers = b,
                 !.list = new, !.nwords = @ + Len(new.tokens) - n, !.meta_buf = << >>]
    BY <2>1
  <2> QED BY <1>0, <2>2 DEF DataFields
<1> HIDE DEF new
<1>l2. PICK k : k = Len(new.tokens)
  OBVIOUS
<1>5. k \in Nat /\ n <= k /\ top2 = made + (k - n) /\ top2 \in Nat /\ made <= top2
  <2>1. k \in Nat /\ n <= k
    BY <1>3, <1>l2, LengthsOf
  <2>2. top2 = made + (k - n)
    BY <1>4, <1>l, <1>l2
  <2>3. \A x, y, z \in Nat : y <= z => x + (z - y) \in Nat /\ x <= x + (z - y)
    OBVIOUS
  <2>4. n \in Nat
    BY <1>2
  <2>5. made + (k - n) \in Nat /\ made <= made + (k - n)
    BY <2>1, <2>3, <2>4
  <2> QED BY <2>1, <2>2, <2>5
<1>c. \A x, y, z \in Nat : x <= y /\ y <= z => x <= z
  OBVIOUS
<1>6. Grows(d.list, new, nm, made, top2)
  BY <1>3, <1>5, <1>l, <1>l2 DEF Grows
<1>7. \A i \in 1..k : new.tokens[i].n <= top2 /\ new.tokens[i].meta \in nm
  <2> TAKE i \in 1..k
  <2>1. CASE i <= n
    <3>1. i \in 1..n
      BY <1>2, <2>1
    <3>2. new.tokens[i] = d.list.tokens[i] /\ d.list.tokens[i] \in Tokens
      BY <1>3, <1>l, <3>1, GoodTokens
    <3>3. d.list.tokens[i].n \in Nat
      BY <3>2 DEF Tokens
    <3>4. d.list.tokens[i].n <= made /\ d.list.tokens[i].meta \in nm
      BY <1>2, <3>1
    <3>5. d.list.tokens[i].n <= top2
      BY <1>5, <1>c, <3>3, <3>4
    <3> QED BY <3>2, <3>4, <3>5
  <2>2. CASE ~(i <= n)
    <3>1. i \in (n + 1)..k /\ i \in Nat /\ i <= k
      BY <1>2, <1>5, <2>2
    <3>2. new.tokens[i].n = made + (i - n) /\ new.tokens[i].meta \in nm
      BY <1>3, <1>l2, <3>1
    <3>3. \A x, y, z, v \in Nat : v <= z => x + (v - y) <= x + (z - y)
      OBVIOUS
    <3>4. made + (i - n) <= made + (k - n)
      <4>1. n \in Nat /\ k \in Nat
        BY <1>2, <1>5
      <4> QED BY <3>1, <3>3, <4>1
    <3> QED BY <1>5, <3>2, <3>4
  <2> QED BY <2>1, <2>2
<1>8. new.made <= top2
  <2>1. CASE setup.tokenize
    <3>1. new.made = top2
      BY <1>3, <1>5, <1>l2, <2>1
    <3>2. top2 <= top2
      <4>1. top2 \in Nat
        BY <1>5
      <4> QED BY <4>1
    <3> QED BY <3>1, <3>2
  <2>2. CASE ~setup.tokenize
    <3>1. new.made = d.list.made
      BY <1>3, <2>2
    <3> QED BY <1>0, <1>5, <1>c, <3>1
  <2> QED BY <2>1, <2>2
<1>9. f.nwords \in Nat /\ (setup.tokenize => f.nwords = k)
  <2>1. f.nwords = d.nwords + k - n
    BY <1>4, <1>l2
  <2>2. setup.tokenize => d.nwords = n
    BY <1>0, <1>l
  <2> QED BY <1>0, <1>2, <1>5, <2>1, <2>2
<1>10. f.next \in 1..(k + 1)
  <2>1. d.next \in 1..(n + 1)
    BY <1>l DEF Good
  <2> QED BY <1>2, <1>4, <1>5, <2>1
<1>11. Good(f, nm, setup.tokenize, bad2, top2)
  <2>1. d.left \in Seq(AllEvents) /\ d.metastack \in Seq(nm) /\ d.metastack # << >>
    BY DEF Good
  <2>2. f.meta_buf \in Seq(Char)
    BY <1>4
  <2> QED BY <1>3, <1>4, <1>7, <1>8, <1>9, <1>10, <1>l2, <2>1, <2>2 DEF Good
<1>12. NumberedTo(d.list, f.list, top2)
  <2>1. CASE setup.tokenize
    BY <1>3, <1>4, <1>5, <1>l2, <2>1 DEF NumberedTo
  <2>2. CASE ~setup.tokenize
    <3>1. f.list = d.list
      BY <1>4, <2>2 DEF new
    <3>2. Len(d.list.tokens) \in Nat
      BY <1>2, <1>l
    <3> QED BY <3>1, <3>2 DEF NumberedTo
  <2> QED BY <2>1, <2>2
<1>13. Keeps(d, f)
  BY <1>4 DEF Keeps
<1> QED BY <1>3, <1>4, <1>5, <1>6, <1>11, <1>12, <1>13, <1>l2

\* The tokens of a list are added to another one: after n of them.
CopiedSoFar(p, n, list) ==
  /\ Sound(list) /\ Extends(p.list, list, p.metas) /\ (p.ended => Ended(list))
  /\ Len(list.tokens) = Len(p.list.tokens) + n
Copied(list, x) == CHOOSE r \in {AddCopy(a, e) : a \in {list}, e \in {x}} : TRUE
A == INSTANCE FoldProofs WITH Op <- Copied, Inv <- CopiedSoFar

LEMMA CopiedFolded ==
  ASSUME NEW base, NEW seq PROVE Fold(AddCopy, base, seq) = A!Folded(base, seq)
BY DEF Fold, Copied, A!Folded, FoldLeft, MapThenFoldSet, A!FoldLeft, A!MapThenFoldSet, Max, A!Max

LEMMA CopiedIs == \A list, x : Copied(list, x) = AddCopy(list, x)
BY DEF Copied

\* What is copied of a sound list.
LEMMA CopiesFine ==
  ASSUME NEW list, Sound(list), NEW metas,
         \A i \in 1..Len(list.tokens) : list.tokens[i].meta \in metas
  PROVE  /\ DOMAIN Copies(list, 1) = 1..Len(list.tokens)
         /\ \A i \in 1..Len(list.tokens) :
              LET x == Copies(list, 1)[i]
              IN /\ x.bytes \in Seq(Byte) /\ x.bytes # << >> /\ x.meta \in metas
                 /\ Ended(list) => EndsIn(x.bytes)
<1> DEFINE seq == Copies(list, 1)
<1>l. PICK k : k = Len(list.tokens)
  OBVIOUS
<1>1. k \in Nat /\ list.buf \in Seq(Byte) /\ list.tokens \in Seq(Tokens) /\ Len(list.buf) \in Nat
  BY <1>l, LengthsOf DEF Sound, Lists
<1>2. DOMAIN seq = 1..k /\ \A i \in 1..k :
        /\ seq[i].bytes = SubSeq(list.buf, list.tokens[i].offset + 1,
                                 list.tokens[i].offset + list.tokens[i].len + 1)
        /\ seq[i].meta = list.tokens[i].meta
  <2>1. k - 1 + 1 = k /\ \A i \in 1..k : 1 + i - 1 = i
    BY <1>1
  <2> QED BY <1>l, <2>1 DEF Copies
<1> HIDE DEF seq
<1>3. ASSUME NEW i \in 1..k
      PROVE  /\ seq[i].bytes \in Seq(Byte) /\ seq[i].bytes # << >> /\ seq[i].meta \in metas
             /\ Ended(list) => EndsIn(seq[i].bytes)
  <2> DEFINE t == list.tokens[i]
             o == t.offset
             n == t.len
  <2>1. t \in Tokens
    BY <1>1, <1>l
  <2>2. o \in Nat /\ n \in Nat
    BY <2>1 DEF Tokens
  <2>3. o + n + 1 <= Len(list.buf)
    BY <1>l DEF Sound, After
  <2>4. seq[i].bytes = SubSeq(list.buf, o + 1, o + n + 1) /\ seq[i].meta \in metas
    BY <1>2, <1>l
  <2>5. Ended(list) => \A j \in 1..(n + 1) : list.buf[o + j] = NUL <=> j = n + 1
    BY <1>l DEF Ended, EndedAt
  <2> HIDE DEF o, n, t
  <2>6. o + 1 \in 1..Len(list.buf) /\ o + n + 1 \in 1..Len(list.buf) /\ o + 1 <= o + n + 1
        /\ ((o + n + 1) - (o + 1)) + 1 = n + 1 /\ \A j \in 1..(n + 1) : (o + 1) + j - 1 = o + j
    BY <1>1, <2>2, <2>3
  <2>7. /\ seq[i].bytes \in Seq(Byte) /\ Len(seq[i].bytes) = n + 1
        /\ \A j \in 1..(n + 1) : seq[i].bytes[j] = list.buf[o + j]
    <3>1. /\ SubSeq(list.buf, o + 1, o + n + 1) \in Seq(Byte)
          /\ Len(SubSeq(list.buf, o + 1, o + n + 1)) = n + 1
          /\ \A j \in 1..Len(SubSeq(list.buf, o + 1, o + n + 1)) :
               SubSeq(list.buf, o + 1, o + n + 1)[j] = list.buf[(o + 1) + j - 1]
      BY <1>1, <2>6, PartOfSeq
    <3> QED BY <2>4, <2>6, <3>1
  <2>8. seq[i].bytes # << >>
    BY <2>2, <2>7
  <2>9. Ended(list) => EndsIn(seq[i].bytes)
    BY <2>5, <2>7 DEF EndsIn
  <2> QED BY <2>4, <2>7, <2>8, <2>9
<1> QED BY <1>2, <1>3, <1>l DEF seq

LEMMA CopyAll ==
  ASSUME NEW list, Sound(list), NEW metas, metas \subseteq Nat, NEW ended,
         \A i \in 1..Len(list.tokens) : list.tokens[i].meta \in metas, ended => Ended(list),
         NEW old, Sound(old), ended => Ended(old),
         NEW new, new = Fold(AddCopy, old, Copies(list, 1))
  PROVE  /\ Sound(new) /\ Extends(old, new, metas) /\ (ended => Ended(new))
         /\ Len(new.tokens) = Len(old.tokens) + Len(list.tokens)
<1> DEFINE p   == [list |-> old, metas |-> metas, ended |-> ended]
           seq == Copies(list, 1)
<1>1. p.list = old /\ p.metas = metas /\ p.ended = ended
  OBVIOUS
<1> HIDE DEF p
<1>l. PICK n : n = Len(old.tokens)
  OBVIOUS
<1>l2. PICK k : k = Len(list.tokens)
  OBVIOUS
<1>2. n \in Nat /\ k \in Nat /\ old.made \in Nat
  BY <1>l, <1>l2, LengthsOf
<1>3. DOMAIN seq = 1..k /\ \A i \in 1..k :
        /\ seq[i].bytes \in Seq(Byte) /\ seq[i].bytes # << >> /\ seq[i].meta \in metas
        /\ ended => EndsIn(seq[i].bytes)
  BY <1>l2, CopiesFine
<1> HIDE DEF seq
<1>4. CopiedSoFar(p, 0, old)
  <2>1. Extends(old, old, metas)
    <3>1. (n + 1)..n = {} /\ n <= n /\ old.made = old.made + (n - n)
      BY <1>2
    <3> QED BY <1>l, <3>1 DEF Extends
  <2>2. n = n + 0
    BY <1>2
  <2> QED BY <1>1, <1>l, <2>1, <2>2 DEF CopiedSoFar
<1>5. ASSUME NEW i \in 1..k, NEW l, CopiedSoFar(p, i - 1, l)
      PROVE  CopiedSoFar(p, i, Copied(l, seq[i]))
  <2> DEFINE bytes == seq[i].bytes
             meta  == seq[i].meta
             l2    == AddToken(l, bytes, meta)
  <2>1. Sound(l) /\ Extends(old, l, metas) /\ (ended => Ended(l)) /\ Len(l.tokens) = n + (i - 1)
    BY <1>1, <1>5, <1>l DEF CopiedSoFar
  <2>2. bytes \in Seq(Byte) /\ bytes # << >> /\ meta \in Nat /\ meta \in metas
        /\ (ended => EndsIn(bytes))
    BY <1>3
  <2> HIDE DEF bytes, meta
  <2>3. Len(l2.tokens) = n + i
    <3>1. l.tokens \in Seq(Tokens)
      BY <2>1 DEF Sound, Lists
    <3>2. Len(l2.tokens) = Len(l.tokens) + 1
      BY <3>1 DEF AddToken
    <3>3. n + (i - 1) + 1 = n + i
      BY <1>2
    <3> QED BY <2>1, <3>2, <3>3
  <2> HIDE DEF l2
  <2>4. Sound(l2)
    BY <2>1, <2>2, AddTokenSound DEF l2
  <2>5. ended => Ended(l2)
    BY <2>1, <2>2, AddTokenSound DEF l2
  <2>6. Extends(old, l2, metas)
    <3>1. Len(old.tokens) \in Nat /\ old.made \in Nat
      BY <1>2, <1>l
    <3> QED BY <2>1, <2>2, <3>1, AddTokenSound DEF l2
  <2>7. Copied(l, seq[i]) = l2
    BY CopiedIs DEF AddCopy, l2, bytes, meta
  <2> QED BY <1>1, <1>l, <2>3, <2>4, <2>5, <2>6, <2>7 DEF CopiedSoFar
<1>6. CopiedSoFar(p, k, A!Folded(old, seq))
  <2> HIDE DEF CopiedSoFar, Copied
  <2> QED BY <1>2, <1>3, <1>4, <1>5, A!FoldInduction
<1>7. new = A!Folded(old, seq)
  BY CopiedFolded DEF seq
<1> QED BY <1>1, <1>6, <1>7, <1>l, <1>l2 DEF CopiedSoFar


LEMMA MergedGood ==
  ASSUME setup.tokenize \in BOOLEAN, made \in Nat, NEW nm, nm \subseteq Nat, NEW bad,
         NEW p, Good(p, nm, setup.tokenize, bad, made),
         NEW d, Good(d, nm, setup.tokenize, bad, made), d.next = 1,
         NEW q, q = Merged(p, d),
         NEW top2, Tally(made, p.list, q.list, top2)
  PROVE  /\ Grows(p.list, q.list, nm, made, top2) /\ Good(q, nm, setup.tokenize, bad, top2)
         /\ Keeps(p, q) /\ LastMade(q.list, top2)
<1> USE DEF Tally
<1> DEFINE old == [p.list EXCEPT !.made = made]
           new == Fold(AddCopy, old, Copies(d.list, 1))
<1>0. /\ Sound(p.list) /\ DOMAIN p = DataFields /\ p.nwords \in Nat
      /\ (setup.tokenize => p.nwords = Len(p.list.tokens)) /\ (bad \/ Ended(p.list))
      /\ Sound(d.list) /\ d.nwords \in Nat
      /\ (setup.tokenize => d.nwords = Len(d.list.tokens)) /\ (bad \/ Ended(d.list))
      /\ \A i \in 1..Len(d.list.tokens) : d.list.tokens[i].meta \in nm
  BY DEF Good
<1>1. Sound(old) /\ (Ended(p.list) => Ended(old)) /\ old.made = made /\ old.tokens = p.list.tokens
  BY <1>0, SoundRenumbered
<1>l. PICK n : n = Len(p.list.tokens)
  OBVIOUS
<1>l2. PICK k : k = Len(d.list.tokens)
  OBVIOUS
<1>2. n \in Nat /\ k \in Nat /\ \A i \in 1..n : p.list.tokens[i].n <= made /\ p.list.tokens[i].meta \in nm
  BY <1>l, <1>l2, GoodTokens
<1> HIDE DEF old
<1>3. /\ Sound(new) /\ Len(new.tokens) = n + k /\ (bad \/ Ended(new))
      /\ \A i \in 1..n : new.tokens[i] = p.list.tokens[i]
      /\ \A i \in (n + 1)..(n + k) : new.tokens[i].n = made + (i - n) /\ new.tokens[i].meta \in nm
      /\ new.made = made + k
  <2> DEFINE ended == ~bad
  <2>1. ended => Ended(d.list)
    BY <1>0
  <2>2. ended => Ended(old)
    BY <1>0, <1>1
  <2> HIDE DEF ended, new
  <2>3. new = Fold(AddCopy, old, Copies(d.list, 1))
    BY DEF new
  <2>4. Sound(new)
    BY <1>0, <1>1, <2>1, <2>2, <2>3, CopyAll
  <2>5. Extends(old, new, nm)
    BY <1>0, <1>1, <2>1, <2>2, <2>3, CopyAll
  <2>6. ended => Ended(new)
    BY <1>0, <1>1, <2>1, <2>2, <2>3, CopyAll
  <2>7. Len(new.tokens) = Len(old.tokens) + Len(d.list.tokens)
    BY <1>0, <1>1, <2>1, <2>2, <2>3, CopyAll
  <2>8. Len(new.tokens) = n + k /\ Len(old.tokens) = n
    BY <1>1, <1>l, <1>l2, <2>7
  <2>9. (n + k) - n = k
    BY <1>2
  <2>10. bad \/ Ended(new)
    BY <2>6 DEF ended
  <2>11. /\ \A i \in 1..n : new.tokens[i] = old.tokens[i]
         /\ \A i \in (n + 1)..(n + k) :
              new.tokens[i].n = old.made + (i - n) /\ new.tokens[i].meta \in nm
         /\ new.made = old.made + ((n + k) - n)
    BY <2>5, <2>8 DEF Extends
  <2> QED BY <1>1, <2>4, <2>8, <2>9, <2>10, <2>11
<1>4. q.list = new /\ q.left = p.left /\ q.metastack = p.metastack /\ q.saved = p.saved
      /\ q.next = p.next /\ q.meta_buf = p.meta_buf /\ DOMAIN q = DataFields
      /\ q.nwords = p.nwords + d.nwords
  <2> HIDE DEF new
  <2>1. PICK b : q = [p EXCEPT !.list = new, !.nwords = @ + d.nwords, !.buffers = b]
    <3>1. q = [p EXCEPT
               !.list = new, !.nwords = @ + d.nwords,
               !.buffers = [m \in DOMAIN @ |->
                              Joined(@[m], IF m \in DOMAIN d.buffers THEN d.buffers[m] ELSE << >>)]]
      BY DEF Merged, new, old
    <3> QED BY <3>1
  <2> QED BY <1>0, <2>1 DEF DataFields
<1> HIDE DEF new
<1>5. top2 = made + k /\ top2 \in Nat /\ made <= top2 /\ n <= n + k
  <2>1. top2 = made + ((n + k) - n)
    BY <1>3, <1>4, <1>l
  <2>3. n \in Nat /\ k \in Nat /\ made \in Nat
    BY <1>2
  <2>2. made + ((n + k) - n) = made + k /\ made + k \in Nat /\ made <= made + k /\ n <= n + k
    BY <2>3
  <2> QED BY <2>1, <2>2
<1>6. Grows(p.list, new, nm, made, top2)
  <2>1. (n + k) - n = k
    BY <1>2
  <2> QED BY <1>3, <1>5, <1>l, <2>1 DEF Grows
<1>c. \A x, y, z \in Nat : x <= y /\ y <= z => x <= z
  OBVIOUS
<1>7. \A i \in 1..(n + k) : new.tokens[i].n <= top2 /\ new.tokens[i].meta \in nm
  <2> TAKE i \in 1..(n + k)
  <2>1. CASE i <= n
    <3>1. i \in 1..n
      BY <1>2, <2>1
    <3>2. new.tokens[i] = p.list.tokens[i] /\ p.list.tokens[i] \in Tokens
      BY <1>3, <1>l, <3>1, GoodTokens
    <3>3. p.list.tokens[i].n \in Nat
      BY <3>2 DEF Tokens
    <3>4. p.list.tokens[i].n <= made /\ p.list.tokens[i].meta \in nm
      BY <1>2, <3>1
    <3>5. p.list.tokens[i].n <= top2
      BY <1>5, <1>c, <3>3, <3>4
    <3> QED BY <3>2, <3>4, <3>5
  <2>2. CASE ~(i <= n)
    <3>1. i \in (n + 1)..(n + k) /\ i \in Nat /\ i <= n + k
      BY <1>2, <2>2
    <3>2. new.tokens[i].n = made + (i - n) /\ new.tokens[i].meta \in nm
      BY <1>3, <3>1
    <3>3. \A x, y, z, v \in Nat : v <= y + z => x + (v - y) <= x + z
      OBVIOUS
    <3>4. made + (i - n) <= made + k
      <4>1. n \in Nat /\ k \in Nat
        BY <1>2
      <4> QED BY <3>1, <3>3, <4>1
    <3> QED BY <1>5, <3>2, <3>4
  <2> QED BY <2>1, <2>2
<1>8. q.nwords \in Nat /\ (setup.tokenize => q.nwords = n + k)
  <2>1. setup.tokenize => p.nwords = n /\ d.nwords = k
    BY <1>0, <1>l, <1>l2
  <2>2. p.nwords \in Nat /\ d.nwords \in Nat
    BY <1>0
  <2> QED BY <1>4, <2>1, <2>2
<1>9. q.next \in 1..((n + k) + 1)
  <2>1. p.next \in 1..(n + 1)
    BY <1>l DEF Good
  <2> QED BY <1>2, <1>4, <2>1
<1>10. new.made <= top2
  <2>1. new.made = top2 /\ top2 \in Nat
    BY <1>3, <1>5
  <2> QED BY <2>1
<1>11. Good(q, nm, setup.tokenize, bad, top2)
  <2>1. p.left \in Seq(AllEvents) /\ p.metastack \in Seq(nm) /\ p.metastack # << >>
        /\ p.meta_buf \in Seq(Char)
    BY DEF Good
  <2> QED BY <1>3, <1>4, <1>7, <1>8, <1>9, <1>10, <2>1 DEF Good
<1>12. Keeps(p, q)
  BY <1>4 DEF Keeps
<1>13. LastMade(q.list, top2)
  BY <1>3, <1>4, <1>5 DEF LastMade
<1> QED BY <1>3, <1>4, <1>5, <1>6, <1>11, <1>12, <1>13

\* The data of a parser that starts.
LEMMA EventsType ==
  ASSUME NEW u \in DOMAIN Files, NEW b \in BOOLEAN
  PROVE  EventsOf(u, b) \in Seq(AllEvents)
<1> DEFINE ev == EventsOf(u, b)
<1>0. /\ Files[u].chars \in Seq(Char) /\ Files[u].name \in Seq(Char)
      /\ Files[u].events \in Seq({e \in Range(Files[u].events) : e.meta \in Nat /\ e.chars \in Seq(Char)})
  BY FileAssumption
<1>1. PICK n \in Nat : ev = [i \in 1..n |-> ev[i]] /\ \A i \in 1..n : ev[i].meta \in Nat /\ ev[i].chars \in Seq(Char)
  <2>1. CASE b \/ Files[u].parser = "TXT"
    <3> DEFINE s == <<Text(Files[u].chars), Open(Title), Text(Files[u].name), Close(Title)>>
    <3>1. ev = s
      BY <2>1 DEF EventsOf
    <3>2. s = [i \in 1..4 |-> s[i]]
      OBVIOUS
    <3>3. \A i \in 1..4 : s[i].meta \in Nat /\ s[i].chars \in Seq(Char)
      <4>1. << >> \in Seq(Char)
        OBVIOUS
      <4>2. \A i \in 1..4 : i = 1 \/ i = 2 \/ i = 3 \/ i = 4
        OBVIOUS
      <4>3. s[1].meta = 0 /\ s[1].chars = Files[u].chars /\ s[2].meta = 1 /\ s[2].chars = << >>
            /\ s[3].meta = 0 /\ s[3].chars = Files[u].name /\ s[4].meta = 1 /\ s[4].chars = << >>
        BY DEF Text, Open, Close, Event, Default, Title
      <4> HIDE DEF s
      <4>4. /\ s[1].meta \in Nat /\ s[1].chars \in Seq(Char)
            /\ s[2].meta \in Nat /\ s[2].chars \in Seq(Char)
            /\ s[3].meta \in Nat /\ s[3].chars \in Seq(Char)
            /\ s[4].meta \in Nat /\ s[4].chars \in Seq(Char)
        BY <1>0, <4>1, <4>3
      <4> QED BY ONLY <4>2, <4>4
    <3> HIDE DEF s, ev
    <3> QED BY <3>1, <3>2, <3>3
  <2>2. CASE ~(b \/ Files[u].parser = "TXT")
    <3>1. ev = Files[u].events
      BY <2>2 DEF EventsOf
    <3> DEFINE s == Files[u].events
               S == {e \in Range(Files[u].events) : e.meta \in Nat /\ e.chars \in Seq(Char)}
    <3>2. s \in Seq(S) /\ \A e \in S : e.meta \in Nat /\ e.chars \in Seq(Char)
      BY <1>0
    <3> HIDE DEF s, S
    <3>3. Len(s) \in Nat /\ s = [i \in 1..Len(s) |-> s[i]] /\ \A i \in 1..Len(s) : s[i] \in S
      BY <3>2
    <3>4. \A i \in 1..Len(s) : s[i].meta \in Nat /\ s[i].chars \in Seq(Char)
      BY <3>2, <3>3
    <3> HIDE DEF ev
    <3> QED BY <3>1, <3>3, <3>4 DEF s
  <2> QED BY <2>1, <2>2
<1>2. \A i \in 1..n : ev[i] \in AllEvents
  <2> TAKE i \in 1..n
  <2>1. ev[i] \in Range(ev)
    <3> HIDE DEF ev
    <3> QED BY <1>1 DEF Range
  <2>2. ev[i].meta \in Nat /\ ev[i].chars \in Seq(Char)
    BY <1>1
  <2> QED BY <2>1, <2>2 DEF AllEvents
<1> HIDE DEF ev
<1>3. ev \in Seq(AllEvents)
  BY <1>1, <1>2
<1> QED BY <1>3 DEF ev

LEMMA ParserDataGood ==
  ASSUME made \in Nat, Default \in Range(names), NEW u \in DOMAIN Files, NEW as_text \in BOOLEAN,
         NEW saved, NEW tokenize, NEW bad
  PROVE  LET d == ParserData(u, as_text, saved)
         IN /\ Good(d, Range(names), tokenize, bad, made) /\ d.list.tokens = << >> /\ d.saved = saved
            /\ d.next = 1
<1> DEFINE d == ParserData(u, as_text, saved)
<1>1. Sound(NewList(made)) /\ Ended(NewList(made))
  BY NewListSound
<1>2. NewList(made).made = made /\ NewList(made).tokens = << >>
  BY DEF NewList
<1>3. /\ d.left = EventsOf(u, as_text) /\ d.meta_buf = << >> /\ d.metastack = <<Default>>
      /\ d.nwords = 0 /\ d.list = NewList(made) /\ d.next = 1 /\ d.saved = saved
      /\ DOMAIN d = DataFields
  BY DEF ParserData, DataFields
<1> HIDE DEF d
<1>4. d.left \in Seq(AllEvents)
  BY <1>3, EventsType
<1>5. d.metastack \in Seq(Range(names)) /\ d.metastack # << >>
  BY <1>3
<1>6. Len(d.list.tokens) = 0 /\ 1 \in 1..(0 + 1) /\ 1..0 = {} /\ made <= made
  BY <1>2, <1>3
<1>7. d.meta_buf \in Seq(Char)
  BY <1>3
<1>8. Good(d, Range(names), tokenize, bad, made)
  BY <1>1, <1>2, <1>3, <1>4, <1>5, <1>6, <1>7 DEF Good
<1> QED BY <1>2, <1>3, <1>8 DEF d
=============================================================================
