------------------------- MODULE SymbolWritesProofs -------------------------
(* What the write tools keep, proved for any tree, any number of calls and *)
(* of edits: no edit is lost but those the property excuses, a rename      *)
(* rewrites its symbol everywhere and nothing else, and the code goes on   *)
(* compiling.                                                              *)
EXTENDS SymbolWrites, SequenceTheorems, TLAPS

Gone == {d.symbol : d \in dropped}

(* No edit is lost: a call that is about to write either has what is on    *)
(* disk, or what it has not is excused; and what a deletion removes is one *)
(* declaration that stands alone.                                          *)
LoneDeleted(data, new) ==
    \E k \in DOMAIN data : ~ data[k].paren /\ new = Deleted(data, k)

EditsInv ==
    /\ NothingLost
    /\ call.at \in {"write", "checked"} =>
          \A f \in DOMAIN call.data : Edits(tree[f]) \subseteq Edits(call.data[f]) \cup excused
    /\ call.at = "write" /\ call.tool[1] = "delete" =>
          \A f \in DOMAIN call.data : LoneDeleted(call.data[f], call.new[f])

(* A rename under way, with no edit meanwhile: each file is still as it    *)
(* was indexed, and will be the substituted one, or already is.            *)
RenameInv ==
    ~ unseen /\ call.at \in {"planned", "checked"} =>
        LET s == call.tool[2]
            name == call.tool[3]
        IN  /\ DeclaredOnce(index)
            /\ s \in Declared(index)
            /\ <<s[1], name>> \notin Declared(index)
            /\ \A f \in DOMAIN call.new :
                  tree[f] = index[f] /\ call.new[f] = Substituted(index, s, name)[f]
            /\ \A f \in Files \ DOMAIN call.new : tree[f] = Substituted(index, s, name)[f]
            /\ call.at = "planned" => ~ call.part
            /\ ~ call.part => tree = index
            /\ ~ torn => UsesDeclared(index, Gone)

(* What another tool is about to write, with no edit meanwhile, is one     *)
(* file with which the tree compiles.                                      *)
WriteInv ==
    ~ unseen /\ call.at = "write" =>
        \E f \in Files :
            LET written == [tree EXCEPT ![f] = call.new[f]]
                lost == Siblings(call.data[f], call.new[f], call.tool)
            IN  /\ DOMAIN call.new = {f}
                /\ ~ call.part
                /\ DeclaredOnce(written)
                /\ ~ torn => UsesDeclared(written, Gone \cup {d.symbol : d \in lost})

CodeInv ==
    /\ ~ unseen => DeclaredOnce(tree)
    /\ ~ unseen /\ call.at = "begun" => index = tree
    /\ ~ unseen /\ ~ torn /\ call.at # "checked" => UsesDeclared(tree, Gone)

(* Every use sees its symbol, in the tree and in what is about to be       *)
(* written, but for the names a rename has hidden or is about to hide.     *)
VisibleInv ==
    ~ unseen =>
        /\ UsesVisible(tree, hidden)
        /\ call.at \in {"planned", "checked", "write"} =>
              \A f \in DOMAIN call.new \ TestFiles :
                  VisibleIn(f, call.new[f], hidden \cup Hidden(call.tool))

WritesInv == TypeOK /\ EditsInv /\ RenameInv /\ WriteInv /\ CodeInv /\ VisibleInv

-----------------------------------------------------------------------------
(* Sequences of declarations.                                              *)

(* Without one element, those behind it move up by one.                    *)
LEMMA RemoveAtParts ==
  ASSUME NEW S, NEW s \in Seq(S), NEW k \in 1 .. Len(s)
  PROVE  /\ RemoveAt(s, k) \in Seq(S)
         /\ Len(RemoveAt(s, k)) = Len(s) - 1
         /\ \A j \in 1 .. Len(s) - 1 :
               RemoveAt(s, k)[j] = IF j < k THEN s[j] ELSE s[j + 1]
<1> DEFINE a == SubSeq(s, 1, k - 1)
           b == SubSeq(s, k + 1, Len(s))
<1>1. Len(s) \in Nat  BY LenProperties
<1>2. a \in Seq(S) /\ Len(a) = k - 1 /\ \A i \in 1 .. k - 1 : a[i] = s[i]
  <2>1. 1 \in 1 .. Len(s) + 1 /\ k - 1 \in 1 - 1 .. Len(s)  BY <1>1
  <2>2. /\ a \in Seq(S)
        /\ Len(a) = IF 1 <= k - 1 THEN (k - 1) - 1 + 1 ELSE 0
        /\ \A i \in 1 .. (k - 1) - 1 + 1 : a[i] = s[1 + i - 1]
    BY <2>1, <1>1, SubSeqProperties
  <2> QED  BY <2>2, <1>1
<1>3. b \in Seq(S) /\ Len(b) = Len(s) - k /\ \A i \in 1 .. Len(s) - k : b[i] = s[k + i]
  <2>1. k + 1 \in 1 .. Len(s) + 1 /\ Len(s) \in (k + 1) - 1 .. Len(s)  BY <1>1
  <2>2. /\ b \in Seq(S)
        /\ Len(b) = IF k + 1 <= Len(s) THEN Len(s) - (k + 1) + 1 ELSE 0
        /\ \A i \in 1 .. Len(s) - (k + 1) + 1 : b[i] = s[(k + 1) + i - 1]
    BY <2>1, <1>1, SubSeqProperties
  <2>3. \A i \in Int : (k + 1) + i - 1 = k + i  BY <1>1
  <2> QED  BY <2>2, <2>3, <1>1
<1> HIDE DEF a, b
<1>4. /\ a \o b \in Seq(S)
      /\ Len(a \o b) = Len(a) + Len(b)
      /\ \A i \in 1 .. Len(a) + Len(b) : (a \o b)[i] = IF i <= Len(a) THEN a[i] ELSE b[i - Len(a)]
  BY <1>2, <1>3, ConcatProperties
<1>5. ASSUME NEW j \in 1 .. Len(s) - 1
      PROVE  (a \o b)[j] = IF j < k THEN s[j] ELSE s[j + 1]
  <2>1. CASE j < k  BY <1>1, <1>2, <1>3, <1>4, <2>1
  <2>2. CASE j >= k
    <3>1. PICK i \in 1 .. Len(s) - k : i = j - (k - 1) /\ k + i = j + 1  BY <1>1, <2>2
    <3>2. (a \o b)[j] = b[i]  BY <1>1, <1>2, <1>3, <1>4, <2>2, <3>1
    <3>3. b[i] = s[j + 1]  BY <3>1, <1>3
    <3> QED  BY <3>2, <3>3, <2>2, <1>1
  <2>3. j < k \/ j >= k  BY <1>1
  <2> QED  BY ONLY <2>1, <2>2, <2>3, Zenon
<1>6. RemoveAt(s, k) = a \o b  BY DEF RemoveAt, a, b
<1>7. Len(a \o b) = Len(s) - 1  BY <1>1, <1>2, <1>3, <1>4
<1> QED  BY <1>4, <1>5, <1>6, <1>7

(* With one element more, those behind it move down by one.                *)
LEMMA InsertAtParts ==
  ASSUME NEW S, NEW s \in Seq(S), NEW k \in 1 .. Len(s) + 1, NEW x \in S
  PROVE  /\ InsertAt(s, k, x) \in Seq(S)
         /\ Len(InsertAt(s, k, x)) = Len(s) + 1
         /\ \A j \in 1 .. Len(s) + 1 :
               InsertAt(s, k, x)[j] = IF j < k THEN s[j] ELSE IF j = k THEN x ELSE s[j - 1]
<1> DEFINE a == SubSeq(s, 1, k - 1)
           b == SubSeq(s, k, Len(s))
           c == a \o <<x>>
<1>1. Len(s) \in Nat  BY LenProperties
<1>2. a \in Seq(S) /\ Len(a) = k - 1 /\ \A i \in 1 .. k - 1 : a[i] = s[i]
  <2>1. 1 \in 1 .. Len(s) + 1 /\ k - 1 \in 1 - 1 .. Len(s)  BY <1>1
  <2>2. /\ a \in Seq(S)
        /\ Len(a) = IF 1 <= k - 1 THEN (k - 1) - 1 + 1 ELSE 0
        /\ \A i \in 1 .. (k - 1) - 1 + 1 : a[i] = s[1 + i - 1]
    BY <2>1, <1>1, SubSeqProperties
  <2> QED  BY <2>2, <1>1
<1>3. b \in Seq(S) /\ Len(b) = Len(s) - k + 1
      /\ \A i \in 1 .. Len(s) - k + 1 : b[i] = s[k + i - 1]
  <2>1. k \in 1 .. Len(s) + 1 /\ Len(s) \in k - 1 .. Len(s)  BY <1>1
  <2>2. /\ b \in Seq(S)
        /\ Len(b) = IF k <= Len(s) THEN Len(s) - k + 1 ELSE 0
        /\ \A i \in 1 .. Len(s) - k + 1 : b[i] = s[k + i - 1]
    BY <2>1, <1>1, SubSeqProperties
  <2> QED  BY <2>2, <1>1
<1> HIDE DEF a, b
<1>4. <<x>> \in Seq(S) /\ Len(<<x>>) = 1 /\ <<x>>[1] = x  OBVIOUS
<1>5. /\ c \in Seq(S)
      /\ Len(c) = Len(a) + Len(<<x>>)
      /\ \A i \in 1 .. Len(a) + Len(<<x>>) :
            c[i] = IF i <= Len(a) THEN a[i] ELSE <<x>>[i - Len(a)]
  BY <1>2, <1>4, ConcatProperties
<1>6. Len(c) = k /\ c[k] = x /\ \A i \in 1 .. k - 1 : c[i] = s[i]
  <2>1. Len(c) = k  BY <1>1, <1>2, <1>4, <1>5
  <2>2. k - Len(a) = 1 /\ k \in 1 .. Len(a) + Len(<<x>>) /\ ~(k <= Len(a))
    BY <1>1, <1>2, <1>4
  <2>3. c[k] = x  BY <2>2, <1>4, <1>5
  <2>4. \A i \in 1 .. k - 1 : c[i] = s[i]  BY <1>1, <1>2, <1>4, <1>5
  <2> QED  BY <2>1, <2>3, <2>4
<1>7. c \in Seq(S)  BY <1>5
<1> HIDE DEF c
<1>8. /\ c \o b \in Seq(S)
      /\ Len(c \o b) = Len(c) + Len(b)
      /\ \A i \in 1 .. Len(c) + Len(b) : (c \o b)[i] = IF i <= Len(c) THEN c[i] ELSE b[i - Len(c)]
  BY <1>7, <1>3, ConcatProperties
<1>9. ASSUME NEW j \in 1 .. Len(s) + 1
      PROVE  (c \o b)[j] = IF j < k THEN s[j] ELSE IF j = k THEN x ELSE s[j - 1]
  <2>1. CASE j <= k  BY <1>1, <1>3, <1>6, <1>8, <2>1
  <2>2. CASE j > k
    <3>1. PICK i \in 1 .. Len(s) - k + 1 : i = j - k /\ k + i - 1 = j - 1  BY <1>1, <2>2
    <3>2. (c \o b)[j] = b[i]  BY <1>1, <1>3, <1>6, <1>8, <2>2, <3>1
    <3>3. b[i] = s[j - 1]  BY <3>1, <1>3
    <3> QED  BY <3>2, <3>3, <2>2, <1>1
  <2>3. j <= k \/ j > k  BY <1>1
  <2> QED  BY ONLY <2>1, <2>2, <2>3, Zenon
<1>10. InsertAt(s, k, x) = c \o b  BY DEF InsertAt, a, b, c
<1>11. Len(c \o b) = Len(s) + 1  BY <1>1, <1>3, <1>6, <1>8
<1> QED  BY <1>8, <1>9, <1>10, <1>11

LEMMA ConsParts ==
  ASSUME NEW S, NEW s \in Seq(S), NEW x \in S
  PROVE  /\ <<x>> \o s \in Seq(S)
         /\ Len(<<x>> \o s) = Len(s) + 1
         /\ (<<x>> \o s)[1] = x
         /\ \A j \in 2 .. Len(s) + 1 : (<<x>> \o s)[j] = s[j - 1]
<1>1. Len(s) \in Nat  BY LenProperties
<1>2. <<x>> \in Seq(S) /\ Len(<<x>>) = 1 /\ <<x>>[1] = x  OBVIOUS
<1>3. /\ <<x>> \o s \in Seq(S)
      /\ Len(<<x>> \o s) = Len(<<x>>) + Len(s)
      /\ \A i \in 1 .. Len(<<x>>) + Len(s) :
            (<<x>> \o s)[i] = IF i <= Len(<<x>>) THEN <<x>>[i] ELSE s[i - Len(<<x>>)]
  BY <1>2, ConcatProperties
<1>4. (<<x>> \o s)[1] = x  BY <1>1, <1>2, <1>3
<1>5. \A j \in 2 .. Len(s) + 1 : (<<x>> \o s)[j] = s[j - 1]  BY <1>1, <1>2, <1>3
<1> QED  BY <1>1, <1>2, <1>3, <1>4, <1>5

LEMMA SequenceIs ==
  ASSUME NEW S, NEW n \in Nat, NEW s \in [1 .. n -> S]
  PROVE  s \in Seq(S) /\ Len(s) = n
BY SeqDef

LEMMA DeclarationParts ==
  ASSUME NEW s \in Symbol, NEW e \in SUBSET Nat
  PROVE  /\ Declaration(s, e) \in Declarations
         /\ Declaration(s, e).symbols = {s}
         /\ Declaration(s, e).uses = << >>
         /\ Declaration(s, e).edit = e
BY DEF Declaration, Declarations

LEMMA SameDeclaration ==
  ASSUME NEW d \in Declarations, NEW o \in Declarations,
         d.symbols = o.symbols, d.paren = o.paren, d.uses = o.uses, d.edit = o.edit
  PROVE  d = o
BY DEF Declarations

-----------------------------------------------------------------------------
(* Places, symbols and sites.                                              *)
LEMMA DeclaredAt ==
  ASSUME NEW files, NEW s
  PROVE  s \in Declared(files) <=>
            \E f \in Files : \E k \in DOMAIN files[f] : s \in files[f][k].symbols
<1>1. ASSUME NEW place \in Places(files), s \in files[place[1]][place[2]].symbols
      PROVE  \E f \in Files : \E k \in DOMAIN files[f] : s \in files[f][k].symbols
  <2>1. PICK f, k : f \in Files /\ k \in DOMAIN files[f] /\ place = <<f, k>>  BY DEF Places
  <2>2. place[1] = f /\ place[2] = k  BY <2>1
  <2>3. s \in files[f][k].symbols  BY <2>2, <1>1
  <2> QED  BY <2>1, <2>3
<1>2. ASSUME NEW f \in Files, NEW k \in DOMAIN files[f], s \in files[f][k].symbols
      PROVE  s \in Declared(files)
  <2>1. <<f, k>> \in Places(files)  BY DEF Places
  <2>2. <<f, k>>[1] = f /\ <<f, k>>[2] = k  OBVIOUS
  <2> QED  BY <2>1, <2>2, <1>2 DEF Declared
<1> QED  BY <1>1, <1>2 DEF Declared

LEMMA SitesAt ==
  ASSUME NEW files, NEW s, NEW site
  PROVE  site \in Sites(files, s) <=>
            \E f \in Files : \E k \in DOMAIN files[f] : \E c \in DOMAIN files[f][k].uses :
               site = <<f, k, c>> /\ files[f][k].uses[c] = s
<1>1. ASSUME NEW place \in Places(files),
             NEW c \in DOMAIN Uses(files, place), Uses(files, place)[c] = s,
             site = <<place[1], place[2], c>>
      PROVE  \E f \in Files : \E k \in DOMAIN files[f] : \E b \in DOMAIN files[f][k].uses :
               site = <<f, k, b>> /\ files[f][k].uses[b] = s
  <2>1. PICK f, k : f \in Files /\ k \in DOMAIN files[f] /\ place = <<f, k>>  BY DEF Places
  <2>2. place[1] = f /\ place[2] = k  BY <2>1
  <2>3. Uses(files, place) = files[f][k].uses  BY <2>2 DEF Uses
  <2>4. site = <<f, k, c>>  BY <2>2, <1>1
  <2>5. c \in DOMAIN files[f][k].uses /\ files[f][k].uses[c] = s  BY <2>3, <1>1
  <2> QED  BY <2>1, <2>4, <2>5
<1>2. ASSUME NEW f \in Files, NEW k \in DOMAIN files[f], NEW c \in DOMAIN files[f][k].uses,
             files[f][k].uses[c] = s, site = <<f, k, c>>
      PROVE  site \in Sites(files, s)
  <2>1. <<f, k>> \in Places(files)  BY DEF Places
  <2>2. <<f, k>>[1] = f /\ <<f, k>>[2] = k  OBVIOUS
  <2>3. Uses(files, <<f, k>>) = files[f][k].uses  BY <2>2 DEF Uses
  <2> QED  BY <2>1, <2>2, <2>3, <1>2 DEF Sites
<1>3. site \in Sites(files, s) <=>
         \E place \in Places(files) : \E c \in DOMAIN Uses(files, place) :
            Uses(files, place)[c] = s /\ site = <<place[1], place[2], c>>
  BY DEF Sites
<1> QED  BY <1>1, <1>2, <1>3

LEMMA DeclarationSiteAt ==
  ASSUME NEW files, NEW s \in Declared(files)
  PROVE  \E f \in Files : \E k \in DOMAIN files[f] :
            DeclarationSite(files, s) = <<f, k, 0>> /\ s \in files[f][k].symbols
<1> DEFINE place == CHOOSE place \in Places(files) : Declares(files, place, s)
<1>1. \E p \in Places(files) : Declares(files, p, s)  BY DEF Declared, Declares
<1>2. place \in Places(files) /\ Declares(files, place, s)  BY <1>1
<1>3. DeclarationSite(files, s) = <<place[1], place[2], 0>>  BY DEF DeclarationSite
<1> HIDE DEF place
<1>4. PICK f, k : f \in Files /\ k \in DOMAIN files[f] /\ place = <<f, k>>  BY <1>2 DEF Places
<1>5. place[1] = f /\ place[2] = k  BY <1>4
<1>6. s \in files[f][k].symbols  BY <1>2, <1>5 DEF Declares
<1>7. DeclarationSite(files, s) = <<f, k, 0>>  BY <1>3, <1>5
<1> QED  BY <1>4, <1>6, <1>7

LEMMA SpanAt ==
  ASSUME NEW data, NEW f, NEW k, NEW s, Span(data, f, k, s) # 0
  PROVE  /\ Span(data, f, k, s) \in DOMAIN data
         /\ s \in data[Span(data, f, k, s)].symbols
BY DEF Span

LEMMA SymbolParts ==
  ASSUME NEW s \in Symbol, NEW name \in Names
  PROVE  <<s[1], name>> \in Symbol
BY DEF Symbol

LEMMA PackageSymbol ==
  ASSUME NEW f \in Files, NEW name \in Names
  PROVE  <<Package(f), name>> \in Symbol
BY DEF Symbol

LEMMA DeclaredSymbol ==
  ASSUME NEW files \in [Files -> Seq(Declarations)], NEW s \in Declared(files)
  PROVE  s \in Symbol
<1>1. PICK f, k : f \in Files /\ k \in DOMAIN files[f] /\ s \in files[f][k].symbols
  BY DeclaredAt
<1>2. files[f][k] \in Declarations  BY <1>1
<1> QED  BY <1>1, <1>2 DEF Declarations

-----------------------------------------------------------------------------
(* The texts the tools make.                                               *)
LEMMA DomainOfText ==
  ASSUME NEW t \in Seq(Declarations)
  PROVE  /\ Len(t) \in Nat
         /\ DOMAIN t = 1 .. Len(t)
         /\ \A k \in DOMAIN t : t[k] \in Declarations
BY LenProperties, ElementOfSeq

LEMMA DeletedParts ==
  ASSUME NEW t \in Seq(Declarations), NEW k \in DOMAIN t
  PROVE  /\ Deleted(t, k) \in Seq(Declarations)
         /\ DOMAIN Deleted(t, k) = 1 .. Len(t) - 1
         /\ \A j \in 1 .. Len(t) - 1 : Deleted(t, k)[j] = IF j < k THEN t[j] ELSE t[j + 1]
<1>1. k \in 1 .. Len(t)  BY DomainOfText
<1>2. /\ RemoveAt(t, k) \in Seq(Declarations)
      /\ Len(RemoveAt(t, k)) = Len(t) - 1
      /\ \A j \in 1 .. Len(t) - 1 : RemoveAt(t, k)[j] = IF j < k THEN t[j] ELSE t[j + 1]
  BY <1>1, RemoveAtParts
<1>3. DOMAIN RemoveAt(t, k) = 1 .. Len(t) - 1  BY <1>2, DomainOfText
<1> QED  BY <1>2, <1>3 DEF Deleted

LEMMA ReplacedParts ==
  ASSUME NEW t \in Seq(Declarations), NEW k \in DOMAIN t, NEW u \in Seq(Symbol)
  PROVE  /\ Replaced(t, k, u) \in Seq(Declarations)
         /\ DOMAIN Replaced(t, k, u) = DOMAIN t
         /\ \A j \in DOMAIN t : Replaced(t, k, u)[j].symbols = t[j].symbols
         /\ Replaced(t, k, u)[k].uses = u
         /\ \A j \in DOMAIN t : j # k => Replaced(t, k, u)[j] = t[j]
<1> DEFINE d == [t[k] EXCEPT !.uses = u, !.edit = {}]
<1>1. d \in Declarations /\ d.symbols = t[k].symbols /\ d.uses = u
  <2>1. t[k] \in Declarations /\ {} \in SUBSET Nat  BY DomainOfText
  <2> QED  BY <2>1 DEF Declarations
<1>2. Replaced(t, k, u) = [t EXCEPT ![k] = d]  BY DEF Replaced
<1> HIDE DEF d
<1>3. k \in 1 .. Len(t)  BY DomainOfText
<1>4. /\ [t EXCEPT ![k] = d] \in Seq(Declarations)
      /\ Len([t EXCEPT ![k] = d]) = Len(t)
      /\ \A j \in 1 .. Len(t) : [t EXCEPT ![k] = d][j] = IF j = k THEN d ELSE t[j]
  BY <1>1, <1>3, ExceptSeq
<1> QED  BY <1>1, <1>2, <1>3, <1>4, DomainOfText

(* What an inserted text is.                                               *)
InsertionOf(t, i, s, new) ==
    \A j \in 1 .. Len(t) + 1 :
       /\ j < i => new[j] = t[j]
       /\ j = i => new[j] = Declaration(s, {})
       /\ j > i => new[j] = t[j - 1]

LEMMA InsertedParts ==
  ASSUME NEW t \in Seq(Declarations), NEW k \in DOMAIN t, NEW after \in BOOLEAN,
         NEW s \in Symbol
  PROVE  LET new == Inserted(t, k, after, s)
         IN  /\ new \in Seq(Declarations)
             /\ DOMAIN new = 1 .. Len(t) + 1
             /\ \E i \in 1 .. Len(t) + 1 : InsertionOf(t, i, s, new)
<1> DEFINE i == IF after THEN k + 1 ELSE k
           d == Declaration(s, {})
<1>1. i \in 1 .. Len(t) + 1  BY DomainOfText
<1>2. d \in Declarations  BY DeclarationParts
<1>3. Inserted(t, k, after, s) = InsertAt(t, i, d)  BY DEF Inserted
<1> HIDE DEF i, d
<1>4. /\ InsertAt(t, i, d) \in Seq(Declarations)
      /\ Len(InsertAt(t, i, d)) = Len(t) + 1
      /\ \A j \in 1 .. Len(t) + 1 :
            InsertAt(t, i, d)[j] = IF j < i THEN t[j] ELSE IF j = i THEN d ELSE t[j - 1]
  BY <1>1, <1>2, InsertAtParts
<1>5. DOMAIN InsertAt(t, i, d) = 1 .. Len(t) + 1  BY <1>4, DomainOfText
<1>6. Len(t) \in Nat  BY DomainOfText
<1>7. InsertionOf(t, i, s, InsertAt(t, i, d))  BY <1>1, <1>4, <1>6 DEF InsertionOf, d
<1> QED  BY <1>1, <1>3, <1>4, <1>5, <1>7

(* What a renamed text is, line by line, for the sites it was made with.   *)
RenamingOf(t, f, sites, s, name, new) ==
    /\ new \in Seq(Declarations)
    /\ DOMAIN new = DOMAIN t
    /\ \A k \in DOMAIN t :
          /\ new[k].symbols = IF <<f, k, 0>> \in sites
                              THEN (t[k].symbols \ {s}) \cup {<<s[1], name>>}
                              ELSE t[k].symbols
          /\ DOMAIN new[k].uses = DOMAIN t[k].uses
          /\ \A c \in DOMAIN t[k].uses :
                /\ <<f, k, c>> \in sites => new[k].uses[c] = <<t[k].uses[c][1], name>>
                /\ <<f, k, c>> \notin sites => new[k].uses[c] = t[k].uses[c]
          /\ new[k].paren = t[k].paren /\ new[k].edit = t[k].edit

LEMMA RenamedParts ==
  ASSUME NEW t \in Seq(Declarations), NEW f, NEW sites, NEW s \in Symbol, NEW name \in Names
  PROVE  RenamingOf(t, f, sites, s, name, Renamed(t, f, sites, s, name))
<1> DEFINE o(k) == IF <<f, k, 0>> \in sites
                   THEN (t[k].symbols \ {s}) \cup {<<s[1], name>>} ELSE t[k].symbols
           u(k) == [c \in DOMAIN t[k].uses |->
                      IF <<f, k, c>> \in sites
                      THEN <<t[k].uses[c][1], name>> ELSE t[k].uses[c]]
           d(k) == [t[k] EXCEPT !.symbols = o(k), !.uses = u(k)]
           new == [k \in DOMAIN t |-> d(k)]
<1>1. ASSUME NEW k \in DOMAIN t
      PROVE  /\ d(k) \in Declarations
             /\ d(k).symbols = o(k) /\ d(k).uses = u(k)
             /\ d(k).paren = t[k].paren /\ d(k).edit = t[k].edit
  <2>1. t[k] \in Declarations  BY DomainOfText
  <2>2. t[k].symbols \in SUBSET Symbol /\ t[k].uses \in Seq(Symbol)  BY <2>1 DEF Declarations
  <2>3. o(k) \in SUBSET Symbol  BY <2>2, SymbolParts
  <2>4. u(k) \in Seq(Symbol)
    <3>1. Len(t[k].uses) \in Nat /\ DOMAIN t[k].uses = 1 .. Len(t[k].uses)
      BY <2>2, LenProperties
    <3>2. \A c \in DOMAIN t[k].uses : t[k].uses[c] \in Symbol  BY <2>2, <3>1, ElementOfSeq
    <3>3. u(k) \in [1 .. Len(t[k].uses) -> Symbol]  BY <3>1, <3>2, SymbolParts
    <3> QED  BY <3>1, <3>3, SequenceIs
  <2> HIDE DEF o, u
  <2> QED  BY <2>1, <2>3, <2>4 DEF Declarations
<1>2. Renamed(t, f, sites, s, name) = new  BY DEF Renamed
<1>3. DOMAIN new = DOMAIN t /\ \A k \in DOMAIN t : new[k] = d(k)  OBVIOUS
<1>4. new \in Seq(Declarations)
  <2> HIDE DEF d
  <2>1. new \in [1 .. Len(t) -> Declarations] /\ Len(t) \in Nat  BY <1>1, DomainOfText
  <2> QED  BY <2>1, SequenceIs
<1>5. \A k \in DOMAIN t :
         /\ DOMAIN u(k) = DOMAIN t[k].uses
         /\ \A c \in DOMAIN t[k].uses :
               /\ <<f, k, c>> \in sites => u(k)[c] = <<t[k].uses[c][1], name>>
               /\ <<f, k, c>> \notin sites => u(k)[c] = t[k].uses[c]
  OBVIOUS
<1> HIDE DEF u, d, new
<1>6. ASSUME NEW k \in DOMAIN t
      PROVE  /\ new[k].symbols = o(k) /\ new[k].uses = u(k)
             /\ new[k].paren = t[k].paren /\ new[k].edit = t[k].edit
  BY <1>1, <1>3
<1>7. RenamingOf(t, f, sites, s, name, new)
  BY <1>3, <1>4, <1>5, <1>6 DEF RenamingOf
<1> QED  BY <1>2, <1>7

(* What a text with a use, or with a declaration, more is.                 *)
SameSymbols(t, new) == \A j \in DOMAIN t : new[j].symbols = t[j].symbols

LEMMA UseAddedParts ==
  ASSUME NEW t \in Seq(Declarations), NEW k \in DOMAIN t, NEW s \in Symbol, NEW e \in Nat
  PROVE  /\ UseAdded(t, k, s, e) \in Seq(Declarations)
         /\ DOMAIN UseAdded(t, k, s, e) = DOMAIN t
         /\ SameSymbols(t, UseAdded(t, k, s, e))
         /\ \A j \in DOMAIN t :
               /\ Range(UseAdded(t, k, s, e)[j].uses) \subseteq Range(t[j].uses) \cup {s}
               /\ t[j].edit \subseteq UseAdded(t, k, s, e)[j].edit
               /\ UseAdded(t, k, s, e)[j].edit \subseteq t[j].edit \cup {e}
         /\ e \in UseAdded(t, k, s, e)[k].edit
<1> DEFINE u == Append(t[k].uses, s)
           x == t[k].edit \cup {e}
           d == [t[k] EXCEPT !.uses = u, !.edit = x]
<1>1. t[k] \in Declarations  BY DomainOfText
<1>2. t[k].uses \in Seq(Symbol) /\ t[k].edit \in SUBSET Nat  BY <1>1 DEF Declarations
<1>3. u \in Seq(Symbol)  BY <1>2
<1>4. x \in SUBSET Nat  BY <1>2
<1>5. /\ d \in Declarations /\ d.symbols = t[k].symbols
      /\ d.uses = Append(t[k].uses, s) /\ d.edit = t[k].edit \cup {e}
  <2> HIDE DEF u, x
  <2>1. d \in Declarations /\ d.symbols = t[k].symbols /\ d.uses = u /\ d.edit = x
    BY <1>1, <1>3, <1>4 DEF Declarations
  <2> QED  BY <2>1 DEF u, x
<1>6. UseAdded(t, k, s, e) = [t EXCEPT ![k] = d]  BY DEF UseAdded
<1> HIDE DEF d
<1>7. k \in 1 .. Len(t) /\ DOMAIN t = 1 .. Len(t)  BY DomainOfText
<1>8. /\ [t EXCEPT ![k] = d] \in Seq(Declarations)
      /\ Len([t EXCEPT ![k] = d]) = Len(t)
      /\ \A j \in 1 .. Len(t) : [t EXCEPT ![k] = d][j] = IF j = k THEN d ELSE t[j]
  BY <1>5, <1>7, ExceptSeq
<1>9. Range(Append(t[k].uses, s)) \subseteq Range(t[k].uses) \cup {s}
  <2>1. Len(t[k].uses) \in Nat /\ DOMAIN t[k].uses = 1 .. Len(t[k].uses)
    BY <1>2, LenProperties
  <2>2. /\ DOMAIN Append(t[k].uses, s) = 1 .. Len(t[k].uses) + 1
        /\ \A c \in 1 .. Len(t[k].uses) : Append(t[k].uses, s)[c] = t[k].uses[c]
        /\ Append(t[k].uses, s)[Len(t[k].uses) + 1] = s
    BY <1>2, AppendProperties, <1>3, LenProperties
  <2> QED  BY <2>1, <2>2 DEF Range
<1>10. ASSUME NEW j \in DOMAIN t
       PROVE  /\ UseAdded(t, k, s, e)[j].symbols = t[j].symbols
              /\ Range(UseAdded(t, k, s, e)[j].uses) \subseteq Range(t[j].uses) \cup {s}
              /\ t[j].edit \subseteq UseAdded(t, k, s, e)[j].edit
              /\ UseAdded(t, k, s, e)[j].edit \subseteq t[j].edit \cup {e}
  <2>1. CASE j = k  BY <2>1, <1>5, <1>6, <1>7, <1>8, <1>9
  <2>2. CASE j # k
    <3>1. UseAdded(t, k, s, e)[j] = t[j]  BY <2>2, <1>6, <1>7, <1>8
    <3> QED  BY <3>1
  <2> QED  BY <2>1, <2>2
<1>11. e \in UseAdded(t, k, s, e)[k].edit  BY <1>5, <1>6, <1>7, <1>8
<1>12. DOMAIN UseAdded(t, k, s, e) = DOMAIN t  BY <1>6
<1>13. UseAdded(t, k, s, e) \in Seq(Declarations)  BY <1>6, <1>8
<1>14. SameSymbols(t, UseAdded(t, k, s, e))  BY <1>10 DEF SameSymbols
<1> QED  BY <1>10, <1>11, <1>12, <1>13, <1>14

LEMMA DeclarationAddedParts ==
  ASSUME NEW t \in Seq(Declarations), NEW s \in Symbol, NEW e \in Nat
  PROVE  LET new == DeclarationAdded(t, s, e)
         IN  /\ new \in Seq(Declarations)
             /\ DOMAIN new = 1 .. Len(t) + 1
             /\ new[1] = Declaration(s, {e})
             /\ \A j \in 2 .. Len(t) + 1 : new[j] = t[j - 1]
<1>1. {e} \in SUBSET Nat  OBVIOUS
<1>2. Declaration(s, {e}) \in Declarations  BY <1>1, DeclarationParts
<1>3. /\ DeclarationAdded(t, s, e) \in Seq(Declarations)
      /\ Len(DeclarationAdded(t, s, e)) = Len(t) + 1
      /\ DeclarationAdded(t, s, e)[1] = Declaration(s, {e})
      /\ \A j \in 2 .. Len(t) + 1 : DeclarationAdded(t, s, e)[j] = t[j - 1]
  BY <1>2, ConsParts DEF DeclarationAdded
<1>4. DOMAIN DeclarationAdded(t, s, e) = 1 .. Len(t) + 1  BY <1>3, DomainOfText
<1> QED  BY <1>3, <1>4

LEMMA EditsAt ==
  ASSUME NEW t, NEW e
  PROVE  e \in Edits(t) <=> \E k \in DOMAIN t : e \in t[k].edit
BY DEF Edits

LEMMA SymbolsAt ==
  ASSUME NEW t, NEW s
  PROVE  s \in Symbols(t) <=> \E k \in DOMAIN t : s \in t[k].symbols
BY DEF Symbols

-----------------------------------------------------------------------------
(* Types.                                                                  *)
LEMMA CallParts ==
  ASSUME TypeOK, call.at \in {"planned", "checked", "write"}
  PROVE  /\ DOMAIN call.data \subseteq Files
         /\ DOMAIN call.new = DOMAIN call.data
         /\ \A f \in DOMAIN call.data : /\ call.data[f] \in Seq(Declarations)
                                        /\ call.new[f] \in Seq(Declarations)
         /\ call.part \in BOOLEAN
         /\ call.at \in {"planned", "checked"} =>
               call.tool \in {"rename"} \X Symbol \X Names
         /\ call.at = "write" => call.tool \in {"delete", "replace", "insert"} \X Symbol
<1>1. \E files \in SUBSET Files :
         \/ call \in Holding(files, {"planned", "checked"}, {"rename"} \X Symbol \X Names)
         \/ call \in Holding(files, {"write"}, {"delete", "replace", "insert"} \X Symbol)
  <2>1. call \notin [at : {"idle", "begun", "reindex"}]  OBVIOUS
  <2> QED  BY <2>1 DEF TypeOK
<1>2. PICK files \in SUBSET Files :
         \/ call \in Holding(files, {"planned", "checked"}, {"rename"} \X Symbol \X Names)
         \/ call \in Holding(files, {"write"}, {"delete", "replace", "insert"} \X Symbol)
  BY <1>1
<1>3. /\ call.data \in [files -> Seq(Declarations)]
      /\ call.new \in [files -> Seq(Declarations)]
      /\ call.part \in BOOLEAN
  BY <1>2 DEF Holding
<1>4. DOMAIN call.data = files /\ DOMAIN call.new = files  BY <1>3
<1>5. call.at \in {"planned", "checked"} => call.tool \in {"rename"} \X Symbol \X Names
  BY <1>2 DEF Holding
<1>6. call.at = "write" => call.tool \in {"delete", "replace", "insert"} \X Symbol
  BY <1>2 DEF Holding
<1> QED  BY <1>3, <1>4, <1>5, <1>6

LEMMA WritingTyped ==
  ASSUME NEW files \in SUBSET Files, NEW at, NEW ats, at \in ats, NEW tool, NEW tools,
         tool \in tools, NEW part \in BOOLEAN,
         NEW data \in [files -> Seq(Declarations)], NEW new \in [files -> Seq(Declarations)]
  PROVE  Writing(at, data, new, tool, part) \in Holding(files, ats, tools)
BY DEF Writing, Holding

LEMMA UseAddedEdits ==
  ASSUME NEW t \in Seq(Declarations), NEW k \in DOMAIN t, NEW s \in Symbol, NEW e \in Nat
  PROVE  /\ UseAdded(t, k, s, e) \in Seq(Declarations)
         /\ Edits(UseAdded(t, k, s, e)) = Edits(t) \cup {e}
<1>1. UseAdded(t, k, s, e) \in Seq(Declarations)  BY UseAddedParts
<1>2. DOMAIN UseAdded(t, k, s, e) = DOMAIN t  BY UseAddedParts
<1>3. \A j \in DOMAIN t : t[j].edit \subseteq UseAdded(t, k, s, e)[j].edit
  BY UseAddedParts
<1>4. \A j \in DOMAIN t : UseAdded(t, k, s, e)[j].edit \subseteq t[j].edit \cup {e}
  BY UseAddedParts
<1>5. e \in UseAdded(t, k, s, e)[k].edit  BY UseAddedParts
<1> QED  BY <1>1, <1>2, <1>3, <1>4, <1>5, EditsAt

(* An edit changes one file, and what it adds is there.                    *)
LEMMA EditEffect ==
  ASSUME TypeOK, Edit
  PROVE  \E f \in Files :
            /\ tree' \in [Files -> Seq(Declarations)]
            /\ \A g \in Files \ {f} : tree'[g] = tree[g]
            /\ Edits(tree'[f]) = Edits(tree[f]) \cup {edits'}
            /\ excused' = IF MayLose(f) THEN excused \cup {edits'} ELSE excused
            /\ \/ \E k \in DOMAIN tree[f], s \in Usable(tree, f) :
                     tree'[f] = UseAdded(tree[f], k, s, edits')
               \/ \E name \in Names :
                     /\ <<Package(f), name>> \notin Declared(tree)
                     /\ tree'[f] = DeclarationAdded(tree[f], <<Package(f), name>>, edits')
<1>1. PICK f \in Files :
         /\ \/ \E k \in DOMAIN tree[f], s \in Usable(tree, f) :
                  tree' = [tree EXCEPT ![f] = UseAdded(tree[f], k, s, edits')]
            \/ \E name \in Names :
                  /\ <<Package(f), name>> \notin Declared(tree)
                  /\ tree' = [tree EXCEPT ![f] =
                                 DeclarationAdded(tree[f], <<Package(f), name>>, edits')]
         /\ excused' = IF MayLose(f) THEN excused \cup {edits'} ELSE excused
  BY DEF Edit
<1>2. edits' \in Nat /\ tree \in [Files -> Seq(Declarations)] /\ tree[f] \in Seq(Declarations)
  BY DEF Edit, TypeOK
<1>3. ASSUME NEW k \in DOMAIN tree[f], NEW s \in Usable(tree, f),
             tree' = [tree EXCEPT ![f] = UseAdded(tree[f], k, s, edits')]
      PROVE  /\ tree' \in [Files -> Seq(Declarations)]
             /\ \A g \in Files \ {f} : tree'[g] = tree[g]
             /\ Edits(tree'[f]) = Edits(tree[f]) \cup {edits'}
             /\ tree'[f] = UseAdded(tree[f], k, s, edits')
  <2>1. s \in Symbol  BY <1>2, DeclaredSymbol DEF Usable
  <2>2. /\ UseAdded(tree[f], k, s, edits') \in Seq(Declarations)
        /\ Edits(UseAdded(tree[f], k, s, edits')) = Edits(tree[f]) \cup {edits'}
    BY <1>2, <2>1, UseAddedEdits
  <2> QED  BY <1>2, <1>3, <2>2
<1>4. ASSUME NEW name \in Names,
             tree' = [tree EXCEPT ![f] =
                         DeclarationAdded(tree[f], <<Package(f), name>>, edits')]
      PROVE  /\ tree' \in [Files -> Seq(Declarations)]
             /\ \A g \in Files \ {f} : tree'[g] = tree[g]
             /\ Edits(tree'[f]) = Edits(tree[f]) \cup {edits'}
             /\ tree'[f] = DeclarationAdded(tree[f], <<Package(f), name>>, edits')
  <2> DEFINE new == DeclarationAdded(tree[f], <<Package(f), name>>, edits')
  <2>1. <<Package(f), name>> \in Symbol /\ {edits'} \in SUBSET Nat  BY <1>2, PackageSymbol
  <2>2. /\ new \in Seq(Declarations)
        /\ DOMAIN new = 1 .. Len(tree[f]) + 1
        /\ new[1] = Declaration(<<Package(f), name>>, {edits'})
        /\ \A j \in 2 .. Len(tree[f]) + 1 : new[j] = tree[f][j - 1]
    BY <1>2, <2>1, DeclarationAddedParts
  <2>3. Declaration(<<Package(f), name>>, {edits'}).edit = {edits'}
    BY <2>1, DeclarationParts
  <2>4. tree' = [tree EXCEPT ![f] = new]  BY <1>4
  <2> HIDE DEF new
  <2>5. DOMAIN tree[f] = 1 .. Len(tree[f]) /\ Len(tree[f]) \in Nat  BY <1>2, DomainOfText
  <2>6. edits' \in Edits(new)
    <3>1. 1 \in DOMAIN new /\ edits' \in new[1].edit  BY <2>2, <2>3, <2>5
    <3> QED  BY <3>1, EditsAt
  <2>7. ASSUME NEW e \in Edits(tree[f])
        PROVE  e \in Edits(new)
    <3>1. PICK k \in DOMAIN tree[f] : e \in tree[f][k].edit  BY <2>7, EditsAt
    <3>2. k + 1 \in 2 .. Len(tree[f]) + 1 /\ (k + 1) - 1 = k  BY <2>5
    <3>3. new[k + 1] = tree[f][k]  BY <2>2, <3>2
    <3>4. k + 1 \in DOMAIN new  BY <2>2, <2>5, <3>2
    <3> QED  BY <3>1, <3>3, <3>4, EditsAt
  <2>9. ASSUME NEW e \in Edits(new)
        PROVE  e \in Edits(tree[f]) \cup {edits'}
    <3>1. PICK j \in DOMAIN new : e \in new[j].edit  BY <2>9, EditsAt
    <3>2. CASE j = 1  BY <3>1, <3>2, <2>2, <2>3
    <3>3. CASE j # 1
      <4>1. PICK k \in DOMAIN tree[f] : k = j - 1  BY <3>1, <3>3, <2>2, <2>5
      <4>2. j \in 2 .. Len(tree[f]) + 1  BY <3>1, <3>3, <2>2, <2>5
      <4>3. new[j] = tree[f][k]  BY <4>1, <4>2, <2>2
      <4> QED  BY <3>1, <4>3, EditsAt
    <3> QED  BY <3>2, <3>3
  <2>8. tree' \in [Files -> Seq(Declarations)] /\ tree'[f] = new
        /\ \A g \in Files \ {f} : tree'[g] = tree[g]
    BY <1>2, <2>2, <2>4
  <2> QED  BY <2>6, <2>7, <2>8, <2>9 DEF new
<1> QED  BY <1>1, <1>3, <1>4

(* What a tool other than rename has decided to write.                     *)
Changes(f, k, s, kind, new) ==
    /\ k \in DOMAIN tree[f]
    /\ s \in tree[f][k].symbols
    /\ \/ /\ kind = "delete"
          /\ ~ tree[f][k].paren
          /\ \A site \in Sites(index, s) : site[1] \in TestFiles
          /\ new = Deleted(tree[f], k)
       \/ /\ kind = "replace"
          /\ \E used \in Usable(tree, f) : new = Replaced(tree[f], k, <<used>>)
       \/ /\ kind = "insert"
          /\ \E after \in BOOLEAN, name \in Names :
                /\ <<s[1], name>> \notin Declared(tree)
                /\ new = Inserted(tree[f], k, after, <<s[1], name>>)

LEMMA ChangeEffect ==
  ASSUME TypeOK, NEW s \in Declared(index), Change(s)
  PROVE  \E f, kind, k, new :
            /\ f \in Files /\ kind \in {"delete", "replace", "insert"}
            /\ Changes(f, k, s, kind, new)
            /\ call' = Writing("write", [g \in {f} |-> tree[f]], [g \in {f} |-> new],
                               <<kind, s>>, FALSE)
<1>1. PICK f \in Files : \E j \in DOMAIN index[f] : DeclarationSite(index, s) = <<f, j, 0>>
  BY DeclarationSiteAt
<1>2. PICK j \in DOMAIN index[f] : DeclarationSite(index, s) = <<f, j, 0>>  BY <1>1
<1>3. DeclarationSite(index, s)[1] = f /\ DeclarationSite(index, s)[2] = j  BY <1>2
<1> DEFINE k == Span(tree[f], f, j, s)
<1>4. /\ k # 0
      /\ \/ \E allowExported, allowTestOnly \in BOOLEAN :
               /\ ~ DeleteRefused(s, tree[f], k, allowExported, allowTestOnly)
               /\ Writes(f, tree[f], Deleted(tree[f], k), <<"delete", s>>)
         \/ \E used \in Usable(tree, f) :
               /\ ~ Grouped(tree[f], k)
               /\ Writes(f, tree[f], Replaced(tree[f], k, <<used>>), <<"replace", s>>)
         \/ \E after \in BOOLEAN, name \in Names :
               /\ <<s[1], name>> \notin Declared(tree)
               /\ Writes(f, tree[f], Inserted(tree[f], k, after, <<s[1], name>>),
                         <<"insert", s>>)
  BY <1>3 DEF Change
<1>5. k \in DOMAIN tree[f] /\ s \in tree[f][k].symbols  BY <1>4, SpanAt
<1> HIDE DEF k
<1>6. ASSUME NEW allowExported \in BOOLEAN, NEW allowTestOnly \in BOOLEAN,
             ~ DeleteRefused(s, tree[f], k, allowExported, allowTestOnly),
             Writes(f, tree[f], Deleted(tree[f], k), <<"delete", s>>)
      PROVE  /\ Changes(f, k, s, "delete", Deleted(tree[f], k))
             /\ call' = Writing("write", [g \in {f} |-> tree[f]],
                                [g \in {f} |-> Deleted(tree[f], k)], <<"delete", s>>, FALSE)
  <2>1. ~ tree[f][k].paren  BY <1>6 DEF DeleteRefused, Grouped
  <2>2. Sites(index, s) = {} \/ TestOnly(s)  BY <1>6 DEF DeleteRefused
  <2>3. \A site \in Sites(index, s) : site[1] \in TestFiles  BY <2>2 DEF TestOnly
  <2> QED  BY <1>5, <1>6, <2>1, <2>3 DEF Changes, Writes
<1>7. ASSUME NEW used \in Usable(tree, f),
             Writes(f, tree[f], Replaced(tree[f], k, <<used>>), <<"replace", s>>)
      PROVE  /\ Changes(f, k, s, "replace", Replaced(tree[f], k, <<used>>))
             /\ call' = Writing("write", [g \in {f} |-> tree[f]],
                                [g \in {f} |-> Replaced(tree[f], k, <<used>>)],
                                <<"replace", s>>, FALSE)
  BY <1>5, <1>7 DEF Changes, Writes
<1>8. ASSUME NEW after \in BOOLEAN, NEW name \in Names, <<s[1], name>> \notin Declared(tree),
             Writes(f, tree[f], Inserted(tree[f], k, after, <<s[1], name>>), <<"insert", s>>)
      PROVE  /\ Changes(f, k, s, "insert", Inserted(tree[f], k, after, <<s[1], name>>))
             /\ call' = Writing("write", [g \in {f} |-> tree[f]],
                                [g \in {f} |-> Inserted(tree[f], k, after, <<s[1], name>>)],
                                <<"insert", s>>, FALSE)
  BY <1>5, <1>8 DEF Changes, Writes
<1> DEFINE Effect(kind, new) ==
             /\ Changes(f, k, s, kind, new)
             /\ call' = Writing("write", [g \in {f} |-> tree[f]], [g \in {f} |-> new],
                                <<kind, s>>, FALSE)
<1>9. \E kind \in {"delete", "replace", "insert"} : \E new : Effect(kind, new)
  BY <1>4, <1>6, <1>7, <1>8
<1> HIDE DEF Effect
<1>10. PICK kind \in {"delete", "replace", "insert"} : \E new : Effect(kind, new)
  BY <1>9
<1>11. PICK new : Effect(kind, new)
  BY <1>10
<1> QED
  BY <1>11 DEF Effect

LEMMA ChangesTyped ==
  ASSUME TypeOK, NEW f \in Files, NEW s \in Symbol,
         NEW kind \in {"delete", "replace", "insert"}, NEW k, NEW new,
         Changes(f, k, s, kind, new)
  PROVE  new \in Seq(Declarations)
<1>1. tree \in [Files -> Seq(Declarations)]  BY DEF TypeOK
<1>2. tree[f] \in Seq(Declarations) /\ k \in DOMAIN tree[f]  BY <1>1 DEF Changes
<1>3. CASE new = Deleted(tree[f], k)  BY <1>2, <1>3, DeletedParts
<1>4. ASSUME NEW used \in Usable(tree, f), new = Replaced(tree[f], k, <<used>>)
      PROVE  new \in Seq(Declarations)
  <2>1. used \in Symbol  BY <1>1, DeclaredSymbol DEF Usable
  <2>2. <<used>> \in Seq(Symbol)  BY <2>1
  <2> QED  BY <1>2, <1>4, <2>2, ReplacedParts
<1>5. ASSUME NEW after \in BOOLEAN, NEW name \in Names,
             new = Inserted(tree[f], k, after, <<s[1], name>>)
      PROVE  new \in Seq(Declarations)
  <2>1. <<s[1], name>> \in Symbol  BY SymbolParts
  <2> QED  BY <1>2, <1>5, <2>1, InsertedParts
<1> QED  BY <1>3, <1>4, <1>5 DEF Changes

LEMMA RenameSitesAt ==
  ASSUME NEW s \in Declared(index), NEW site \in RenameSites(s)
  PROVE  site[1] \in Files
<1>1. CASE site \in Sites(index, s)
  <2>1. PICK f \in Files : \E k \in DOMAIN index[f] : \E c \in DOMAIN index[f][k].uses :
           site = <<f, k, c>>
    BY <1>1, SitesAt
  <2> QED  BY <2>1
<1>2. CASE site = DeclarationSite(index, s)
  <2>1. PICK f \in Files : \E k \in DOMAIN index[f] : site = <<f, k, 0>>
    BY <1>2, DeclarationSiteAt
  <2> QED  BY <2>1
<1> QED  BY <1>1, <1>2 DEF RenameSites

(* What a rename has planned.                                              *)
LEMMA PlanEffect ==
  ASSUME TypeOK, NEW s \in Declared(index), NEW name \in Names, Plan(s, name)
  PROVE  \E files \in SUBSET Files : \E data, new :
            /\ files = {site[1] : site \in RenameSites(s)}
            /\ data = [f \in files |-> tree[f]]
            /\ new = [f \in files |-> Renamed(tree[f], f, RenameSites(s), s, name)]
            /\ data \in [files -> Seq(Declarations)] /\ new \in [files -> Seq(Declarations)]
            /\ call' = Writing("planned", data, new, <<"rename", s, name>>, FALSE)
<1> DEFINE files == {site[1] : site \in RenameSites(s)}
           data == [f \in files |-> tree[f]]
           new == [f \in files |-> Renamed(tree[f], f, RenameSites(s), s, name)]
<1>1. files \in SUBSET Files  BY RenameSitesAt
<1>2. call' = Writing("planned", data, new, <<"rename", s, name>>, FALSE)  BY DEF Plan
<1>3. index \in [Files -> Seq(Declarations)] /\ tree \in [Files -> Seq(Declarations)]
  BY DEF TypeOK
<1>4. s \in Symbol  BY <1>3, DeclaredSymbol
<1>5. \A f \in files : tree[f] \in Seq(Declarations)  BY <1>1, <1>3
<1>6. \A f \in files : Renamed(tree[f], f, RenameSites(s), s, name) \in Seq(Declarations)
  <2>1. ASSUME NEW f \in files
        PROVE  RenamingOf(tree[f], f, RenameSites(s), s, name,
                          Renamed(tree[f], f, RenameSites(s), s, name))
    BY <1>4, <1>5, RenamedParts
  <2> QED  BY <2>1 DEF RenamingOf
<1> HIDE DEF files
<1>7. data \in [files -> Seq(Declarations)] /\ new \in [files -> Seq(Declarations)]
  BY <1>5, <1>6
<1> QED  BY <1>1, <1>2, <1>7 DEF files

LEMMA HoldingTyped ==
  ASSUME NEW c, NEW files \in SUBSET Files,
         \/ c \in Holding(files, {"planned", "checked"}, {"rename"} \X Symbol \X Names)
         \/ c \in Holding(files, {"write"}, {"delete", "replace", "insert"} \X Symbol)
  PROVE  \E held \in SUBSET Files :
            \/ c \in Holding(held, {"planned", "checked"}, {"rename"} \X Symbol \X Names)
            \/ c \in Holding(held, {"write"}, {"delete", "replace", "insert"} \X Symbol)
OBVIOUS

(* One file is written; the call ends or holds the others.                 *)
LEMMA WriteEffect ==
  ASSUME TypeOK, WriteFile
  PROVE  \E f \in DOMAIN call.data :
            /\ f \in Files
            /\ tree' = [tree EXCEPT ![f] = call.new[f]]
            /\ tree' \in [Files -> Seq(Declarations)]
            /\ excused' = excused \cup (Edits(call.data[f]) \ Edits(call.new[f]))
            /\ dropped' = dropped \cup Siblings(call.data[f], call.new[f], call.tool)
            /\ hidden' = hidden \cup Hidden(call.tool)
            /\ \/ DOMAIN call.data = {f} /\ call' = [at |-> "reindex"]
               \/ LET rest == DOMAIN call.data \ {f} IN
                  /\ rest # {}
                  /\ call' = Writing(call.at, [g \in rest |-> call.data[g]],
                                     [g \in rest |-> call.new[g]], call.tool, TRUE)
<1>1. call.at \in {"write", "checked"} /\ call.at \in {"planned", "checked", "write"}
  BY DEF WriteFile
<1>2. /\ DOMAIN call.data \subseteq Files
      /\ DOMAIN call.new = DOMAIN call.data
      /\ \A f \in DOMAIN call.data : call.new[f] \in Seq(Declarations)
  BY <1>1, CallParts
<1>3. tree \in [Files -> Seq(Declarations)]  BY DEF TypeOK
<1>4. PICK f \in DOMAIN call.new :
         LET rest == DOMAIN call.new \ {f} IN
         /\ tree' = [tree EXCEPT ![f] = call.new[f]]
         /\ excused' = excused \cup (Edits(call.data[f]) \ Edits(call.new[f]))
         /\ dropped' = dropped \cup Siblings(call.data[f], call.new[f], call.tool)
         /\ hidden' = hidden \cup Hidden(call.tool)
         /\ call' = IF rest = {} THEN [at |-> "reindex"]
                    ELSE Writing(call.at, [g \in rest |-> call.data[g]],
                                 [g \in rest |-> call.new[g]], call.tool, TRUE)
  BY DEF WriteFile
<1>5. f \in Files /\ f \in DOMAIN call.data /\ call.new[f] \in Seq(Declarations)  BY <1>2
<1>6. tree' \in [Files -> Seq(Declarations)]  BY <1>3, <1>4, <1>5
<1>7. \/ DOMAIN call.data = {f} /\ call' = [at |-> "reindex"]
      \/ /\ DOMAIN call.data \ {f} # {}
         /\ call' = Writing(call.at, [g \in DOMAIN call.data \ {f} |-> call.data[g]],
                            [g \in DOMAIN call.data \ {f} |-> call.new[g]], call.tool, TRUE)
  <2>1. CASE DOMAIN call.data \ {f} = {}  BY <2>1, <1>2, <1>4, <1>5
  <2>2. CASE DOMAIN call.data \ {f} # {}  BY <2>2, <1>2, <1>4
  <2> QED  BY <2>1, <2>2
<1> QED  BY <1>4, <1>5, <1>6, <1>7

LEMMA TypesStep ==
  ASSUME TypeOK, [Next]_vars
  PROVE  TypeOK'
<1> DEFINE Typed(c) ==
      \/ c \in [at : {"idle", "begun", "reindex"}]
      \/ \E files \in SUBSET Files :
            \/ c \in Holding(files, {"planned", "checked"}, {"rename"} \X Symbol \X Names)
            \/ c \in Holding(files, {"write"}, {"delete", "replace", "insert"} \X Symbol)
<1>1. TypeOK <=> /\ tree \in [Files -> Seq(Declarations)]
                 /\ index \in [Files -> Seq(Declarations)]
                 /\ edits \in Nat /\ unseen \in BOOLEAN /\ torn \in BOOLEAN
                 /\ Typed(call)
  BY DEF TypeOK
<1>2. TypeOK' <=> /\ tree' \in [Files -> Seq(Declarations)]
                  /\ index' \in [Files -> Seq(Declarations)]
                  /\ edits' \in Nat /\ unseen' \in BOOLEAN /\ torn' \in BOOLEAN
                  /\ Typed(call')
  BY DEF TypeOK
<1>3. Typed([at |-> "begun"]) /\ Typed([at |-> "reindex"]) /\ Typed(Idle)  BY DEF Idle
<1>4. \A c, files : /\ files \in SUBSET Files
                    /\ \/ c \in Holding(files, {"planned", "checked"},
                                        {"rename"} \X Symbol \X Names)
                       \/ c \in Holding(files, {"write"},
                                        {"delete", "replace", "insert"} \X Symbol)
                    => Typed(c)
  BY HoldingTyped
<1> HIDE DEF Typed
<1>5. CASE Edit
  <2>1. tree' \in [Files -> Seq(Declarations)]  BY <1>5, EditEffect
  <2>2. edits' \in Nat /\ unseen' \in BOOLEAN  BY <1>1, <1>5 DEF Edit
  <2> QED  BY <1>1, <1>2, <1>5, <2>1, <2>2 DEF Edit
<1>6. CASE Begin  BY <1>1, <1>2, <1>3, <1>6 DEF Begin
<1>7. CASE Refuse  BY <1>1, <1>2, <1>3, <1>7 DEF Refuse, history
<1>8. CASE Decide
  <2>1. UNCHANGED <<tree, index, edits, unseen, torn>>  BY <1>8 DEF Decide, history
  <2>2. PICK s \in Declared(index) : Change(s) \/ \E name \in Names : Plan(s, name)
    BY <1>8 DEF Decide
  <2>3. s \in Symbol  BY <1>1, DeclaredSymbol
  <2>4. CASE Change(s)
    <3>1. PICK f, kind, k, new :
             /\ f \in Files /\ kind \in {"delete", "replace", "insert"}
             /\ Changes(f, k, s, kind, new)
             /\ call' = Writing("write", [g \in {f} |-> tree[f]], [g \in {f} |-> new],
                                <<kind, s>>, FALSE)
      BY <2>4, ChangeEffect
    <3>2. new \in Seq(Declarations)  BY <2>3, <3>1, ChangesTyped
    <3> DEFINE d == [g \in {f} |-> tree[f]]
               n == [g \in {f} |-> new]
    <3>3. d \in [{f} -> Seq(Declarations)] /\ n \in [{f} -> Seq(Declarations)]
      BY <1>1, <3>1, <3>2
    <3>4. <<kind, s>> \in {"delete", "replace", "insert"} \X Symbol  BY <2>3, <3>1
    <3>5. call' = Writing("write", d, n, <<kind, s>>, FALSE) /\ {f} \in SUBSET Files
      BY <3>1
    <3> HIDE DEF d, n
    <3>6. call' \in Holding({f}, {"write"}, {"delete", "replace", "insert"} \X Symbol)
      BY <3>3, <3>4, <3>5, WritingTyped
    <3>7. Typed(call')  BY <3>5, <3>6, <1>4
    <3> QED  BY <1>1, <1>2, <2>1, <3>7
  <2>5. ASSUME NEW name \in Names, Plan(s, name)
        PROVE  TypeOK'
    <3>1. PICK files, data, new :
             /\ files \in SUBSET Files
             /\ data \in [files -> Seq(Declarations)] /\ new \in [files -> Seq(Declarations)]
             /\ call' = Writing("planned", data, new, <<"rename", s, name>>, FALSE)
      BY <2>5, PlanEffect
    <3>2. <<"rename", s, name>> \in {"rename"} \X Symbol \X Names  BY <2>3
    <3>3. call' \in Holding(files, {"planned", "checked"}, {"rename"} \X Symbol \X Names)
      BY <3>1, <3>2, WritingTyped
    <3>4. Typed(call')  BY <3>1, <3>3, <1>4
    <3> QED  BY <1>1, <1>2, <2>1, <3>4
  <2> QED  BY <2>2, <2>4, <2>5
<1>9. CASE Recheck
  <2>1. UNCHANGED <<tree, index, edits, unseen, torn>>  BY <1>9 DEF Recheck, history
  <2>2. CASE call' = Idle  BY <1>1, <1>2, <1>3, <2>1, <2>2
  <2>3. CASE call' = Writing("checked", call.data, call.new, call.tool, call.part)
    <3>1. call.at = "planned" /\ call.at \in {"planned", "checked", "write"}
      BY <1>9 DEF Recheck
    <3>2. PICK files \in SUBSET Files :
             call \in Holding(files, {"planned", "checked"}, {"rename"} \X Symbol \X Names)
      <4>1. call \notin [at : {"idle", "begun", "reindex"}]  BY <3>1
      <4>2. \A files : call \notin Holding(files, {"write"},
                                           {"delete", "replace", "insert"} \X Symbol)
        BY <3>1 DEF Holding
      <4> QED  BY <4>1, <4>2, <1>1 DEF Typed
    <3>3. /\ call.data \in [files -> Seq(Declarations)]
          /\ call.new \in [files -> Seq(Declarations)]
          /\ call.tool \in {"rename"} \X Symbol \X Names /\ call.part \in BOOLEAN
      BY <3>2 DEF Holding
    <3>4. call' \in Holding(files, {"planned", "checked"}, {"rename"} \X Symbol \X Names)
      BY <2>3, <3>3, WritingTyped
    <3>5. Typed(call')  BY <3>4, <1>4
    <3> QED  BY <1>1, <1>2, <2>1, <3>5
  <2> QED  BY <1>9, <2>2, <2>3 DEF Recheck
<1>10. CASE WriteFile
  <2>1. UNCHANGED <<index, edits, unseen, torn>>  BY <1>10 DEF WriteFile
  <2>2. PICK f \in DOMAIN call.data :
           /\ tree' \in [Files -> Seq(Declarations)]
           /\ \/ DOMAIN call.data = {f} /\ call' = [at |-> "reindex"]
              \/ call' = Writing(call.at, [g \in DOMAIN call.data \ {f} |-> call.data[g]],
                                 [g \in DOMAIN call.data \ {f} |-> call.new[g]],
                                 call.tool, TRUE)
    BY <1>10, WriteEffect
  <2>3. CASE call' = [at |-> "reindex"]  BY <1>1, <1>2, <1>3, <2>1, <2>2, <2>3
  <2>4. CASE call' = Writing(call.at, [g \in DOMAIN call.data \ {f} |-> call.data[g]],
                             [g \in DOMAIN call.data \ {f} |-> call.new[g]],
                             call.tool, TRUE)
    <3> DEFINE rest == DOMAIN call.data \ {f}
               d == [g \in rest |-> call.data[g]]
               n == [g \in rest |-> call.new[g]]
    <3>1. call.at \in {"write", "checked"} /\ call.at \in {"planned", "checked", "write"}
      BY <1>10 DEF WriteFile
    <3>2. /\ DOMAIN call.data \subseteq Files
          /\ \A g \in DOMAIN call.data : /\ call.data[g] \in Seq(Declarations)
                                         /\ call.new[g] \in Seq(Declarations)
          /\ call.at \in {"planned", "checked"} =>
                call.tool \in {"rename"} \X Symbol \X Names
          /\ call.at = "write" => call.tool \in {"delete", "replace", "insert"} \X Symbol
      BY <3>1, CallParts
    <3>3. d \in [rest -> Seq(Declarations)] /\ n \in [rest -> Seq(Declarations)]  BY <3>2
    <3>4. rest \in SUBSET Files  BY <3>2
    <3>5. call' = Writing(call.at, d, n, call.tool, TRUE)  BY <2>4
    <3> HIDE DEF d, n, rest
    <3>6. CASE call.at = "write"
      <4>1. call' \in Holding(rest, {"write"}, {"delete", "replace", "insert"} \X Symbol)
        BY <3>2, <3>3, <3>4, <3>5, <3>6, WritingTyped
      <4> QED  BY <4>1, <3>4, <1>4, <1>1, <1>2, <2>1, <2>2
    <3>7. CASE call.at = "checked"
      <4>1. call' \in Holding(rest, {"planned", "checked"},
                              {"rename"} \X Symbol \X Names)
        BY <3>2, <3>3, <3>4, <3>5, <3>7, WritingTyped
      <4> QED  BY <4>1, <3>4, <1>4, <1>1, <1>2, <2>1, <2>2
    <3> QED  BY <3>1, <3>6, <3>7
  <2> QED  BY <2>2, <2>3, <2>4
<1>11. CASE WriteFails
  <2>1. torn' \in BOOLEAN
    <3>1. call.part \in BOOLEAN  BY <1>11, CallParts DEF WriteFails
    <3> QED  BY <1>1, <1>11, <3>1 DEF WriteFails
  <2> QED  BY <1>1, <1>2, <1>3, <1>11, <2>1 DEF WriteFails
<1>12. CASE Reindex
  <2>1. index' \in [Files -> Seq(Declarations)]  BY <1>1, <1>12 DEF Reindex
  <2> QED  BY <1>1, <1>2, <1>3, <1>12, <2>1 DEF Reindex, history
<1>13. CASE UNCHANGED vars  BY <1>1, <1>2, <1>13 DEF vars, history
<1> QED  BY <1>5, <1>6, <1>7, <1>8, <1>9, <1>10, <1>11, <1>12, <1>13 DEF Next

LEMMA TypesInit ==
  ASSUME Init
  PROVE  TypeOK
BY SourceAssumption DEF Init, Idle, TypeOK

-----------------------------------------------------------------------------
(* No edit is lost.                                                        *)

(* An element of a sequence but the removed one is still in it.            *)
LEMMA StaysIn ==
  ASSUME NEW t \in Seq(Declarations), NEW k \in DOMAIN t, NEW j \in DOMAIN t, j # k
  PROVE  \E i \in DOMAIN Deleted(t, k) : Deleted(t, k)[i] = t[j]
<1>1. DOMAIN t = 1 .. Len(t) /\ Len(t) \in Nat  BY DomainOfText
<1>2. /\ DOMAIN Deleted(t, k) = 1 .. Len(t) - 1
      /\ \A i \in 1 .. Len(t) - 1 : Deleted(t, k)[i] = IF i < k THEN t[i] ELSE t[i + 1]
  BY DeletedParts
<1>3. CASE j < k
  <2>1. j \in 1 .. Len(t) - 1  BY <1>1, <1>3
  <2> QED  BY <2>1, <1>2, <1>3
<1>4. CASE j > k
  <2>0. j - 1 \in 1 .. Len(t) - 1 /\ (j - 1) + 1 = j /\ ~(j - 1 < k)  BY <1>1, <1>4
  <2>1. PICK i \in 1 .. Len(t) - 1 : i + 1 = j /\ ~(i < k)  BY <2>0
  <2>2. Deleted(t, k)[i] = t[j]  BY <2>1, <1>2
  <2> QED  BY <2>1, <2>2, <1>2
<1> QED  BY <1>1, <1>3, <1>4

(* What goes with a declaration that stands alone stood in no group.       *)
LEMMA LoneSiblings ==
  ASSUME NEW t \in Seq(Declarations), NEW new, NEW tool, LoneDeleted(t, new)
  PROVE  \A d \in Siblings(t, new, tool) : ~ d.paren
<1>1. PICK k \in DOMAIN t : ~ t[k].paren /\ new = Deleted(t, k)  BY DEF LoneDeleted
<1>2. ASSUME NEW o \in Symbols(t) \ Symbols(new), NEW j \in DOMAIN t,
             t[j].paren, o \in t[j].symbols
      PROVE  FALSE
  <2>1. j # k  BY <1>1, <1>2
  <2>2. PICK i \in DOMAIN new : new[i] = t[j]  BY <1>1, <2>1, StaysIn
  <2>3. o \in Symbols(new)  BY <2>2, <1>2, SymbolsAt
  <2> QED  BY <2>3
<1>3. \A d \in Siblings(t, new, tool) :
         \E o \in Symbols(t) \ Symbols(new) :
            d = [symbol |-> o, paren |-> \E j \in DOMAIN t : t[j].paren /\ o \in t[j].symbols]
  BY DEF Siblings
<1> QED  BY <1>2, <1>3

LEMMA EditsStep ==
  ASSUME TypeOK, EditsInv, [Next]_vars
  PROVE  EditsInv'
<1> DEFINE Kept(e) == e \in excused \/ \E f \in Files : e \in Edits(tree[f])
           Held(f) == Edits(tree[f]) \subseteq Edits(call.data[f]) \cup excused
<1>1. /\ \A e \in 1 .. edits : Kept(e)
      /\ \A d \in dropped : ~ d.paren
      /\ call.at \in {"write", "checked"} => \A f \in DOMAIN call.data : Held(f)
      /\ call.at = "write" /\ call.tool[1] = "delete" =>
            \A f \in DOMAIN call.data : LoneDeleted(call.data[f], call.new[f])
  BY DEF EditsInv, NothingLost
<1>2. SUFFICES /\ \A e \in 1 .. edits' : Kept(e)'
               /\ \A d \in dropped' : ~ d.paren
               /\ call'.at \in {"write", "checked"} => \A f \in DOMAIN call'.data : Held(f)'
               /\ call'.at = "write" /\ call'.tool[1] = "delete" =>
                     \A f \in DOMAIN call'.data : LoneDeleted(call'.data[f], call'.new[f])
  BY DEF EditsInv, NothingLost
<1>3. tree \in [Files -> Seq(Declarations)] /\ edits \in Nat  BY DEF TypeOK
<1>4. ASSUME UNCHANGED <<tree, edits, excused, dropped>>
      PROVE  /\ \A e \in 1 .. edits' : Kept(e)'
             /\ \A d \in dropped' : ~ d.paren
  BY <1>1, <1>4
<1>5. CASE Edit
  <2>1. PICK g \in Files :
           /\ \A f \in Files \ {g} : tree'[f] = tree[f]
           /\ Edits(tree'[g]) = Edits(tree[g]) \cup {edits'}
           /\ excused' = IF MayLose(g) THEN excused \cup {edits'} ELSE excused
    BY <1>5, EditEffect
  <2>2. edits' = edits + 1 /\ call' = call /\ dropped' = dropped  BY <1>5 DEF Edit
  <2>3. \A f \in Files : Edits(tree[f]) \subseteq Edits(tree'[f])
    <3>1. ASSUME NEW f \in Files  PROVE Edits(tree[f]) \subseteq Edits(tree'[f])
      <4>1. CASE f = g  BY <2>1, <4>1
      <4>2. CASE f # g
        <5>1. tree'[f] = tree[f]  BY <2>1, <4>2
        <5> QED  BY <5>1
      <4> QED  BY <4>1, <4>2
    <3> QED  BY <3>1
  <2>4. excused \subseteq excused'  BY <2>1
  <2>5. ASSUME NEW e \in 1 .. edits'  PROVE Kept(e)'
    <3>1. CASE e = edits'  BY <2>1, <3>1
    <3>2. CASE e # edits'
      <4>1. e \in 1 .. edits  BY <3>2, <2>2, <1>3
      <4>2. Kept(e)  BY <4>1, <1>1
      <4> QED  BY <4>2, <2>3, <2>4
    <3> QED  BY <3>1, <3>2
  <2>6. ASSUME call.at \in {"write", "checked"}, NEW f \in DOMAIN call.data
        PROVE  Held(f)'
    <3>1. Held(f)  BY <1>1, <2>6
    <3>2. f \in Files  BY <2>6, CallParts
    <3>3. CASE f = g
      <4>1. MayLose(g) /\ excused' = excused \cup {edits'}  BY <2>1, <2>6, <3>3 DEF MayLose
      <4>2. Edits(tree'[f]) \subseteq Edits(tree[f]) \cup {edits'}
        BY <2>1, <3>3
      <4> QED  BY <3>1, <4>1, <4>2, <2>2
    <3>4. CASE f # g
      <4>1. tree'[f] = tree[f]  BY <2>1, <3>2, <3>4
      <4> QED  BY <3>1, <4>1, <2>2, <2>4
    <3> QED  BY <3>3, <3>4
  <2> QED  BY <1>1, <2>2, <2>5, <2>6
<1>6. CASE Begin
  <2>1. call'.at = "begun"  BY <1>6 DEF Begin
  <2> QED  BY <1>4, <1>6, <2>1 DEF Begin
<1>7. CASE Refuse
  <2>1. call'.at = "idle"  BY <1>7 DEF Refuse, Idle
  <2> QED  BY <1>4, <1>7, <2>1 DEF Refuse, history
<1>8. CASE Decide
  <2>1. UNCHANGED <<tree, edits, excused, dropped>>  BY <1>8 DEF Decide, history
  <2>2. PICK s \in Declared(index) : Change(s) \/ \E name \in Names : Plan(s, name)
    BY <1>8 DEF Decide
  <2>3. CASE Change(s)
    <3>1. PICK f, kind, k, new :
             /\ f \in Files /\ kind \in {"delete", "replace", "insert"}
             /\ Changes(f, k, s, kind, new)
             /\ call' = Writing("write", [g \in {f} |-> tree[f]], [g \in {f} |-> new],
                                <<kind, s>>, FALSE)
      BY <2>3, ChangeEffect
    <3>2. /\ call'.at = "write" /\ call'.data = [g \in {f} |-> tree[f]]
          /\ call'.new = [g \in {f} |-> new] /\ call'.tool = <<kind, s>>
      BY <3>1 DEF Writing
    <3>3. \A g \in DOMAIN call'.data : Held(g)'  BY <2>1, <3>2
    <3>4. ASSUME call'.tool[1] = "delete"
          PROVE  \A g \in DOMAIN call'.data : LoneDeleted(call'.data[g], call'.new[g])
      <4>1. kind = "delete"  BY <3>2, <3>4
      <4>2. LoneDeleted(tree[f], new)  BY <3>1, <4>1 DEF Changes, LoneDeleted
      <4> QED  BY <3>2, <4>2
    <3> QED  BY <1>4, <2>1, <3>3, <3>4
  <2>4. ASSUME NEW name \in Names, Plan(s, name)
        PROVE  call'.at = "planned"
    BY <2>4 DEF Plan, Writing
  <2> QED  BY <1>4, <2>1, <2>2, <2>3, <2>4
<1>9. CASE Recheck
  <2>1. UNCHANGED <<tree, edits, excused, dropped>>  BY <1>9 DEF Recheck, history
  <2>2. CASE SameAsPlanned
    <3>1. call' = Writing("checked", call.data, call.new, call.tool, call.part)
      BY <1>9, <2>2 DEF Recheck
    <3>2. call'.at = "checked" /\ call'.data = call.data  BY <3>1 DEF Writing
    <3>3. \A f \in DOMAIN call'.data : Held(f)'  BY <2>1, <2>2, <3>2 DEF SameAsPlanned
    <3> QED  BY <1>4, <2>1, <3>2, <3>3
  <2>3. CASE ~ SameAsPlanned
    <3>1. call'.at = "idle"  BY <1>9, <2>3 DEF Recheck, Idle
    <3> QED  BY <1>4, <2>1, <3>1
  <2> QED  BY <2>2, <2>3
<1>10. CASE WriteFile
  <2>1. PICK f \in DOMAIN call.data :
            /\ f \in Files
            /\ tree' = [tree EXCEPT ![f] = call.new[f]]
            /\ excused' = excused \cup (Edits(call.data[f]) \ Edits(call.new[f]))
            /\ dropped' = dropped \cup Siblings(call.data[f], call.new[f], call.tool)
            /\ \/ DOMAIN call.data = {f} /\ call' = [at |-> "reindex"]
               \/ LET rest == DOMAIN call.data \ {f} IN
                  /\ rest # {}
                  /\ call' = Writing(call.at, [g \in rest |-> call.data[g]],
                                     [g \in rest |-> call.new[g]], call.tool, TRUE)
    BY <1>10, WriteEffect
  <2>2. call.at \in {"write", "checked"} /\ call.at \in {"planned", "checked", "write"}
        /\ edits' = edits
    BY <1>10 DEF WriteFile
  <2>3. Held(f) /\ call.data[f] \in Seq(Declarations)  BY <1>1, <2>2, CallParts
  <2>4. tree'[f] = call.new[f] /\ \A g \in Files \ {f} : tree'[g] = tree[g]
    BY <1>3, <2>1
  <2>5. ASSUME NEW e \in 1 .. edits'  PROVE Kept(e)'
    <3>1. Kept(e)  BY <1>1, <2>2, <2>5
    <3>2. CASE e \in excused  BY <2>1, <3>2
    <3>3. CASE e \in Edits(tree[f])
      <4>1. e \in Edits(call.data[f]) \cup excused  BY <2>3, <3>3
      <4> QED  BY <2>1, <2>4, <4>1
    <3>4. ASSUME NEW g \in Files, g # f, e \in Edits(tree[g])
          PROVE  Kept(e)'
      <4>1. tree'[g] = tree[g]  BY <2>4, <3>4
      <4> QED  BY <3>4, <4>1
    <3> QED  BY <3>1, <3>2, <3>3, <3>4
  <2>6. \A d \in dropped' : ~ d.paren
    <3>1. CASE call.tool[1] = "delete"
      <4>1. call.at = "write"
        <5>1. call.at \in {"planned", "checked"} =>
                 call.tool \in {"rename"} \X Symbol \X Names
          BY <2>2, CallParts
        <5> QED  BY <2>2, <3>1, <5>1
      <4>2. LoneDeleted(call.data[f], call.new[f])  BY <1>1, <3>1, <4>1
      <4>3. \A d \in Siblings(call.data[f], call.new[f], call.tool) : ~ d.paren
        BY <2>3, <4>2, LoneSiblings
      <4> QED  BY <1>1, <2>1, <4>3
    <3>2. CASE call.tool[1] # "delete"
      <4>1. Siblings(call.data[f], call.new[f], call.tool) = {}  BY <3>2 DEF Siblings
      <4> QED  BY <1>1, <2>1, <4>1
    <3> QED  BY <3>1, <3>2
  <2>7. CASE call' = [at |-> "reindex"]
    <3>1. call'.at = "reindex"  BY <2>7
    <3> QED  BY <2>5, <2>6, <3>1
  <2>8. CASE call' = Writing(call.at, [g \in DOMAIN call.data \ {f} |-> call.data[g]],
                             [g \in DOMAIN call.data \ {f} |-> call.new[g]], call.tool, TRUE)
    <3>1. /\ call'.at = call.at /\ call'.tool = call.tool
          /\ call'.data = [g \in DOMAIN call.data \ {f} |-> call.data[g]]
          /\ call'.new = [g \in DOMAIN call.data \ {f} |-> call.new[g]]
      BY <2>8 DEF Writing
    <3>2. DOMAIN call'.data = DOMAIN call.data \ {f}  BY <3>1
    <3>3. ASSUME NEW g \in DOMAIN call'.data
          PROVE  /\ g \in DOMAIN call.data /\ g # f
                 /\ call'.data[g] = call.data[g] /\ call'.new[g] = call.new[g]
      BY <3>1, <3>2, <3>3
    <3>4. ASSUME NEW g \in DOMAIN call'.data  PROVE Held(g)'
      <4>1. Held(g)  BY <1>1, <2>2, <3>3
      <4>2. g \in Files  BY <2>2, <3>3, CallParts
      <4>3. tree'[g] = tree[g]  BY <2>4, <3>3, <4>2
      <4>4. excused \subseteq excused'  BY <2>1
      <4> QED  BY <3>3, <4>1, <4>3, <4>4
    <3>5. ASSUME call'.at = "write", call'.tool[1] = "delete", NEW g \in DOMAIN call'.data
          PROVE  LoneDeleted(call'.data[g], call'.new[g])
      BY <1>1, <3>1, <3>3, <3>5
    <3> QED  BY <2>5, <2>6, <3>4, <3>5
  <2> QED  BY <2>1, <2>7, <2>8
<1>11. CASE WriteFails
  <2>1. call'.at = "idle"  BY <1>11 DEF WriteFails, Idle
  <2> QED  BY <1>4, <1>11, <2>1 DEF WriteFails
<1>12. CASE Reindex
  <2>1. call'.at = "idle"  BY <1>12 DEF Reindex, Idle
  <2> QED  BY <1>4, <1>12, <2>1 DEF Reindex, history
<1>13. CASE UNCHANGED vars  BY <1>1, <1>13 DEF vars, history
<1> QED  BY <1>5, <1>6, <1>7, <1>8, <1>9, <1>10, <1>11, <1>12, <1>13 DEF Next

LEMMA EditsInit ==
  ASSUME Init
  PROVE  EditsInv
BY DEF Init, Idle, EditsInv, NothingLost

-----------------------------------------------------------------------------
(* What a rename makes of the tree.                                        *)
SubstitutionOf(t, s, name, new) ==
    /\ new \in Seq(Declarations)
    /\ DOMAIN new = DOMAIN t
    /\ \A k \in DOMAIN t :
          /\ new[k].symbols = IF s \in t[k].symbols
                              THEN (t[k].symbols \ {s}) \cup {<<s[1], name>>}
                              ELSE t[k].symbols
          /\ DOMAIN new[k].uses = DOMAIN t[k].uses
          /\ \A c \in DOMAIN t[k].uses :
                /\ t[k].uses[c] = s => new[k].uses[c] = <<s[1], name>>
                /\ t[k].uses[c] # s => new[k].uses[c] = t[k].uses[c]
          /\ new[k].paren = t[k].paren /\ new[k].edit = t[k].edit

LEMMA SubstitutedParts ==
  ASSUME NEW files \in [Files -> Seq(Declarations)], NEW s \in Symbol, NEW name \in Names,
         NEW f \in Files
  PROVE  SubstitutionOf(files[f], s, name, Substituted(files, s, name)[f])
<1> DEFINE t == files[f]
           o(k) == {IF x = s THEN <<s[1], name>> ELSE x : x \in t[k].symbols}
           u(k) == [c \in DOMAIN t[k].uses |->
                      IF t[k].uses[c] = s THEN <<s[1], name>> ELSE t[k].uses[c]]
           d(k) == [t[k] EXCEPT !.symbols = o(k), !.uses = u(k)]
           new == [k \in DOMAIN t |-> d(k)]
<1>0. t \in Seq(Declarations)  OBVIOUS
<1>1. ASSUME NEW k \in DOMAIN t
      PROVE  /\ d(k) \in Declarations
             /\ d(k).symbols = o(k) /\ d(k).uses = u(k)
             /\ d(k).paren = t[k].paren /\ d(k).edit = t[k].edit
  <2> HIDE DEF t
  <2>1. t[k] \in Declarations  BY <1>0, DomainOfText
  <2>2. t[k].symbols \in SUBSET Symbol /\ t[k].uses \in Seq(Symbol)  BY <2>1 DEF Declarations
  <2>3. o(k) \in SUBSET Symbol  BY <2>2, SymbolParts
  <2>4. u(k) \in Seq(Symbol)
    <3>1. Len(t[k].uses) \in Nat /\ DOMAIN t[k].uses = 1 .. Len(t[k].uses)
      BY <2>2, LenProperties
    <3>2. \A c \in DOMAIN t[k].uses : t[k].uses[c] \in Symbol  BY <2>2, <3>1, ElementOfSeq
    <3>3. u(k) \in [1 .. Len(t[k].uses) -> Symbol]  BY <3>1, <3>2, SymbolParts
    <3> QED  BY <3>1, <3>3, SequenceIs
  <2> HIDE DEF o, u
  <2> QED  BY <2>1, <2>3, <2>4 DEF Declarations
<1>2. Substituted(files, s, name)[f] = new  BY DEF Substituted
<1>3. DOMAIN new = DOMAIN t /\ \A k \in DOMAIN t : new[k] = d(k)  OBVIOUS
<1>4. new \in Seq(Declarations)
  <2> HIDE DEF d, t
  <2>1. new \in [1 .. Len(t) -> Declarations] /\ Len(t) \in Nat  BY <1>0, <1>1, DomainOfText
  <2> QED  BY <2>1, SequenceIs
<1>5. \A k \in DOMAIN t :
         /\ DOMAIN u(k) = DOMAIN t[k].uses
         /\ \A c \in DOMAIN t[k].uses :
               /\ t[k].uses[c] = s => u(k)[c] = <<s[1], name>>
               /\ t[k].uses[c] # s => u(k)[c] = t[k].uses[c]
  OBVIOUS
<1>6. ASSUME NEW k \in DOMAIN t
      PROVE  o(k) = IF s \in t[k].symbols
                    THEN (t[k].symbols \ {s}) \cup {<<s[1], name>>} ELSE t[k].symbols
  <2>1. CASE s \in t[k].symbols  BY <2>1
  <2>2. CASE s \notin t[k].symbols  BY <2>2
  <2> QED  BY <2>1, <2>2
<1> HIDE DEF u, d, o, new, t
<1>7. ASSUME NEW k \in DOMAIN t
      PROVE  /\ new[k].symbols = o(k) /\ new[k].uses = u(k)
             /\ new[k].paren = t[k].paren /\ new[k].edit = t[k].edit
  BY <1>1, <1>3
<1>8. SubstitutionOf(t, s, name, new)
  BY <1>3, <1>4, <1>5, <1>6, <1>7 DEF SubstitutionOf
<1> QED  BY <1>2, <1>8 DEF t

LEMMA SameText ==
  ASSUME NEW t \in Seq(Declarations), NEW u \in Seq(Declarations),
         DOMAIN t = DOMAIN u, \A k \in DOMAIN t : t[k] = u[k]
  PROVE  t = u
<1>1. t \in [1 .. Len(t) -> Declarations] /\ DOMAIN t = 1 .. Len(t)  BY LenProperties
<1>2. u \in [1 .. Len(u) -> Declarations] /\ DOMAIN u = 1 .. Len(u)  BY LenProperties
<1>3. t \in [DOMAIN t -> Declarations]  BY <1>1
<1>4. u \in [DOMAIN t -> Declarations]  BY <1>2
<1> QED  BY <1>3, <1>4

(* Where every symbol is declared once, the sites of a symbol are all the  *)
(* places where it stands, ...                                             *)
LEMMA SitesOfSymbol ==
  ASSUME index \in [Files -> Seq(Declarations)], DeclaredOnce(index),
         NEW s \in Declared(index), NEW f \in Files, NEW k \in DOMAIN index[f]
  PROVE  /\ <<f, k, 0>> \in RenameSites(s) <=> s \in index[f][k].symbols
         /\ \A c \in DOMAIN index[f][k].uses :
               <<f, k, c>> \in RenameSites(s) <=> index[f][k].uses[c] = s
<1>1. PICK g, j : /\ g \in Files /\ j \in DOMAIN index[g]
                  /\ DeclarationSite(index, s) = <<g, j, 0>> /\ s \in index[g][j].symbols
  BY DeclarationSiteAt
<1>2. \A h \in Files : \A i \in DOMAIN index[h] :
         index[h][i].uses \in Seq(Symbol) /\ 0 \notin DOMAIN index[h][i].uses
  <2>1. ASSUME NEW h \in Files, NEW i \in DOMAIN index[h]
        PROVE  index[h][i].uses \in Seq(Symbol) /\ 0 \notin DOMAIN index[h][i].uses
    <3>1. index[h] \in Seq(Declarations)  OBVIOUS
    <3>2. index[h][i] \in Declarations  BY <3>1, DomainOfText
    <3>3. index[h][i].uses \in Seq(Symbol)  BY <3>2 DEF Declarations
    <3>4. DOMAIN index[h][i].uses = 1 .. Len(index[h][i].uses)  BY <3>3, LenProperties
    <3> QED  BY <3>3, <3>4
  <2> QED  BY <2>1
<1>3. ASSUME <<f, k, 0>> \in RenameSites(s)
      PROVE  s \in index[f][k].symbols
  <2>1. CASE <<f, k, 0>> \in Sites(index, s)
    <3>1. PICK h \in Files : \E i \in DOMAIN index[h] : \E c \in DOMAIN index[h][i].uses :
             <<f, k, 0>> = <<h, i, c>>
      BY <2>1, SitesAt
    <3> QED  BY <3>1, <1>2
  <2>2. CASE <<f, k, 0>> = DeclarationSite(index, s)
    <3>1. f = g /\ k = j  BY <2>2, <1>1
    <3> QED  BY <3>1, <1>1
  <2> QED  BY <1>3, <2>1, <2>2 DEF RenameSites
<1>4. ASSUME s \in index[f][k].symbols
      PROVE  <<f, k, 0>> \in RenameSites(s)
  <2>1. index[f][k].symbols \cap index[g][j].symbols # {}  BY <1>1, <1>4
  <2>2. f = g /\ k = j  BY <2>1, <1>1 DEF DeclaredOnce
  <2> QED  BY <2>2, <1>1 DEF RenameSites
<1>5. ASSUME NEW c \in DOMAIN index[f][k].uses, <<f, k, c>> \in RenameSites(s)
      PROVE  index[f][k].uses[c] = s
  <2>1. CASE <<f, k, c>> \in Sites(index, s)
    <3>1. PICK h \in Files : \E i \in DOMAIN index[h] : \E b \in DOMAIN index[h][i].uses :
             <<f, k, c>> = <<h, i, b>> /\ index[h][i].uses[b] = s
      BY <2>1, SitesAt
    <3> QED  BY <3>1
  <2>2. CASE <<f, k, c>> = DeclarationSite(index, s)
    <3>1. c = 0  BY <2>2, <1>1
    <3> QED  BY <3>1, <1>2, <1>5
  <2> QED  BY <1>5, <2>1, <2>2 DEF RenameSites
<1>6. ASSUME NEW c \in DOMAIN index[f][k].uses, index[f][k].uses[c] = s
      PROVE  <<f, k, c>> \in RenameSites(s)
  <2>1. <<f, k, c>> \in Sites(index, s)  BY <1>6, SitesAt
  <2> QED  BY <2>1 DEF RenameSites
<1> QED  BY <1>3, <1>4, <1>5, <1>6

LEMMA SameUses ==
  ASSUME NEW t \in Seq(Symbol), NEW u \in Seq(Symbol),
         DOMAIN t = DOMAIN u, \A c \in DOMAIN t : t[c] = u[c]
  PROVE  t = u
<1>1. t \in [1 .. Len(t) -> Symbol] /\ DOMAIN t = 1 .. Len(t)  BY LenProperties
<1>2. u \in [1 .. Len(u) -> Symbol] /\ DOMAIN u = 1 .. Len(u)  BY LenProperties
<1>3. t \in [DOMAIN t -> Symbol]  BY <1>1
<1>4. u \in [DOMAIN t -> Symbol]  BY <1>2
<1> QED  BY <1>3, <1>4

LEMMA SameSubstitution ==
  ASSUME NEW t \in Seq(Declarations), NEW f, NEW sites, NEW s \in Symbol, NEW name,
         NEW a, RenamingOf(t, f, sites, s, name, a),
         NEW b, SubstitutionOf(t, s, name, b),
         \A k \in DOMAIN t : <<f, k, 0>> \in sites <=> s \in t[k].symbols,
         \A k \in DOMAIN t : \A c \in DOMAIN t[k].uses :
            <<f, k, c>> \in sites <=> t[k].uses[c] = s
  PROVE  a = b
<1>1. a \in Seq(Declarations) /\ b \in Seq(Declarations)
      /\ DOMAIN a = DOMAIN t /\ DOMAIN b = DOMAIN t
  BY DEF RenamingOf, SubstitutionOf
<1>2. ASSUME NEW k \in DOMAIN t
      PROVE  a[k] = b[k]
  <2>1. a[k].symbols = b[k].symbols  BY DEF RenamingOf, SubstitutionOf
  <2>2. a[k] \in Declarations /\ b[k] \in Declarations  BY <1>1, DomainOfText
  <2>3. a[k].uses \in Seq(Symbol) /\ b[k].uses \in Seq(Symbol)  BY <2>2 DEF Declarations
  <2>4. ASSUME NEW c \in DOMAIN t[k].uses
        PROVE  a[k].uses[c] = b[k].uses[c]
    <3>1. CASE t[k].uses[c] = s
      <4>1. a[k].uses[c] = <<t[k].uses[c][1], name>>  BY <3>1 DEF RenamingOf
      <4>2. b[k].uses[c] = <<s[1], name>>  BY <3>1 DEF SubstitutionOf
      <4> QED  BY <3>1, <4>1, <4>2
    <3>2. CASE t[k].uses[c] # s
      <4>1. a[k].uses[c] = t[k].uses[c]  BY <3>2 DEF RenamingOf
      <4>2. b[k].uses[c] = t[k].uses[c]  BY <3>2 DEF SubstitutionOf
      <4> QED  BY <4>1, <4>2
    <3> QED  BY <3>1, <3>2
  <2>5. DOMAIN a[k].uses = DOMAIN t[k].uses /\ DOMAIN b[k].uses = DOMAIN t[k].uses
    BY DEF RenamingOf, SubstitutionOf
  <2>6. a[k].uses = b[k].uses  BY <2>3, <2>4, <2>5, SameUses
  <2>7. a[k].paren = b[k].paren /\ a[k].edit = b[k].edit  BY DEF RenamingOf, SubstitutionOf
  <2> QED  BY <2>1, <2>2, <2>6, <2>7, SameDeclaration
<1> QED  BY <1>1, <1>2, SameText

LEMMA NothingSubstituted ==
  ASSUME NEW t \in Seq(Declarations), NEW s \in Symbol, NEW name,
         NEW b, SubstitutionOf(t, s, name, b),
         \A k \in DOMAIN t : s \notin t[k].symbols,
         \A k \in DOMAIN t : \A c \in DOMAIN t[k].uses : t[k].uses[c] # s
  PROVE  t = b
<1>1. b \in Seq(Declarations) /\ DOMAIN b = DOMAIN t  BY DEF SubstitutionOf
<1>2. ASSUME NEW k \in DOMAIN t
      PROVE  t[k] = b[k]
  <2>1. t[k].symbols = b[k].symbols  BY DEF SubstitutionOf
  <2>2. t[k] \in Declarations /\ b[k] \in Declarations  BY <1>1, DomainOfText
  <2>3. t[k].uses \in Seq(Symbol) /\ b[k].uses \in Seq(Symbol)  BY <2>2 DEF Declarations
  <2>4. \A c \in DOMAIN t[k].uses : t[k].uses[c] = b[k].uses[c]  BY DEF SubstitutionOf
  <2>5. DOMAIN t[k].uses = DOMAIN b[k].uses  BY DEF SubstitutionOf
  <2>6. t[k].uses = b[k].uses  BY <2>3, <2>4, <2>5, SameUses
  <2>7. t[k].paren = b[k].paren /\ t[k].edit = b[k].edit  BY DEF SubstitutionOf
  <2> QED  BY <2>1, <2>2, <2>6, <2>7, SameDeclaration
<1> QED  BY <1>1, <1>2, SameText

(* ... so what is planned is the substitution, ...                         *)
LEMMA RenamedIsSubstituted ==
  ASSUME index \in [Files -> Seq(Declarations)], DeclaredOnce(index),
         NEW s \in Declared(index), NEW name \in Names, NEW f \in Files
  PROVE  Renamed(index[f], f, RenameSites(s), s, name) = Substituted(index, s, name)[f]
<1>1. s \in Symbol /\ index[f] \in Seq(Declarations)  BY DeclaredSymbol
<1>2. SubstitutionOf(index[f], s, name, Substituted(index, s, name)[f])
  BY <1>1, SubstitutedParts
<1>3. RenamingOf(index[f], f, RenameSites(s), s, name,
                 Renamed(index[f], f, RenameSites(s), s, name))
  BY <1>1, RenamedParts
<1>4. \A k \in DOMAIN index[f] : <<f, k, 0>> \in RenameSites(s) <=> s \in index[f][k].symbols
  BY SitesOfSymbol
<1>5. \A k \in DOMAIN index[f] : \A c \in DOMAIN index[f][k].uses :
         <<f, k, c>> \in RenameSites(s) <=> index[f][k].uses[c] = s
  BY SitesOfSymbol
<1> QED  BY <1>1, <1>2, <1>3, <1>4, <1>5, SameSubstitution

(* ... and a file without a site is as it was.                             *)
LEMMA UntouchedIsSubstituted ==
  ASSUME index \in [Files -> Seq(Declarations)], DeclaredOnce(index),
         NEW s \in Declared(index), NEW name \in Names, NEW f \in Files,
         f \notin {site[1] : site \in RenameSites(s)}
  PROVE  index[f] = Substituted(index, s, name)[f]
<1>1. s \in Symbol /\ index[f] \in Seq(Declarations)  BY DeclaredSymbol
<1>2. SubstitutionOf(index[f], s, name, Substituted(index, s, name)[f])
  BY <1>1, SubstitutedParts
<1>3. \A site \in RenameSites(s) : site[1] # f  OBVIOUS
<1>4. ASSUME NEW k \in DOMAIN index[f], s \in index[f][k].symbols
      PROVE  FALSE
  <2>1. <<f, k, 0>> \in RenameSites(s)  BY <1>4, SitesOfSymbol
  <2>2. <<f, k, 0>>[1] = f  OBVIOUS
  <2> QED  BY <1>3, <2>1, <2>2
<1>5. ASSUME NEW k \in DOMAIN index[f], NEW c \in DOMAIN index[f][k].uses,
             index[f][k].uses[c] = s
      PROVE  FALSE
  <2>1. <<f, k, c>> \in RenameSites(s)  BY <1>5, SitesOfSymbol
  <2>2. <<f, k, c>>[1] = f  OBVIOUS
  <2> QED  BY <1>3, <2>1, <2>2
<1> QED  BY <1>1, <1>2, <1>4, <1>5, NothingSubstituted

(* With any of its files substituted, the tree declares a symbol once.     *)
LEMMA SubstitutedSymbols ==
  ASSUME NEW t \in Seq(Declarations), NEW s, NEW name, NEW new,
         new = t \/ SubstitutionOf(t, s, name, new),
         NEW k \in DOMAIN new, NEW o \in new[k].symbols
  PROVE  /\ k \in DOMAIN t
         /\ o \in t[k].symbols \/ (o = <<s[1], name>> /\ s \in t[k].symbols)
<1>1. k \in DOMAIN t  BY DEF SubstitutionOf
<1>2. CASE new = t  BY <1>1, <1>2
<1>3. CASE SubstitutionOf(t, s, name, new)
  <2>1. new[k].symbols = IF s \in t[k].symbols
                         THEN (t[k].symbols \ {s}) \cup {<<s[1], name>>}
                         ELSE t[k].symbols
    BY <1>1, <1>3 DEF SubstitutionOf
  <2> QED  BY <1>1, <2>1
<1> QED  BY <1>2, <1>3

LEMMA SubstitutedDeclaredOnce ==
  ASSUME NEW old \in [Files -> Seq(Declarations)], DeclaredOnce(old),
         NEW s, NEW name, <<s[1], name>> \notin Declared(old),
         NEW files,
         \A f \in Files : files[f] = old[f] \/ SubstitutionOf(old[f], s, name, files[f])
  PROVE  DeclaredOnce(files)
<1> DEFINE new == <<s[1], name>>
<1>1. \A f \in Files : \A k \in DOMAIN old[f] : new \notin old[f][k].symbols  BY DeclaredAt
<1> HIDE DEF new
<1>2. ASSUME NEW f \in Files, NEW k \in DOMAIN files[f], NEW o \in files[f][k].symbols
      PROVE  /\ k \in DOMAIN old[f]
             /\ o \in old[f][k].symbols \/ (o = new /\ s \in old[f][k].symbols)
  <2>1. old[f] \in Seq(Declarations)  OBVIOUS
  <2> QED  BY <2>1, SubstitutedSymbols DEF new
<1>3. ASSUME NEW f \in Files, NEW g \in Files, NEW k \in DOMAIN files[f],
             NEW j \in DOMAIN files[g], NEW o, o \in files[f][k].symbols,
             o \in files[g][j].symbols
      PROVE  f = g /\ k = j
  <2>1. k \in DOMAIN old[f] /\ j \in DOMAIN old[g]  BY <1>2, <1>3
  <2>2. o \in old[f][k].symbols \/ (o = new /\ s \in old[f][k].symbols)  BY <1>2, <1>3
  <2>3. o \in old[g][j].symbols \/ (o = new /\ s \in old[g][j].symbols)  BY <1>2, <1>3
  <2>4. old[f][k].symbols \cap old[g][j].symbols # {}  BY <2>1, <2>2, <2>3, <1>1
  <2> QED  BY <2>1, <2>4 DEF DeclaredOnce
<1> QED  BY <1>3 DEF DeclaredOnce

(* With all of its files substituted, the tree uses what it declares.      *)
LEMMA SubstitutedUses ==
  ASSUME NEW t \in Seq(Declarations), NEW s, NEW name, NEW new,
         SubstitutionOf(t, s, name, new), NEW k \in DOMAIN new, NEW u \in Range(new[k].uses)
  PROVE  /\ k \in DOMAIN t
         /\ \/ u \in Range(t[k].uses) /\ u # s
            \/ u = <<s[1], name>>
<1>1. k \in DOMAIN t /\ DOMAIN new[k].uses = DOMAIN t[k].uses  BY DEF SubstitutionOf
<1>2. PICK c \in DOMAIN t[k].uses : u = new[k].uses[c]  BY <1>1 DEF Range
<1>3. CASE t[k].uses[c] = s  BY <1>1, <1>2, <1>3 DEF SubstitutionOf
<1>4. CASE t[k].uses[c] # s
  <2>1. new[k].uses[c] = t[k].uses[c]  BY <1>1, <1>4 DEF SubstitutionOf
  <2> QED  BY <1>1, <1>2, <1>4, <2>1 DEF Range
<1> QED  BY <1>3, <1>4

LEMMA SubstitutedUsesDeclared ==
  ASSUME NEW old \in [Files -> Seq(Declarations)], NEW gone, UsesDeclared(old, gone),
         NEW s \in Declared(old), NEW name, NEW files,
         \A f \in Files : SubstitutionOf(old[f], s, name, files[f])
  PROVE  UsesDeclared(files, gone)
<1> DEFINE new == <<s[1], name>>
<1>1. ASSUME NEW o \in Declared(old)
      PROVE  IF o = s THEN new \in Declared(files) ELSE o \in Declared(files)
  <2>1. PICK g, j : g \in Files /\ j \in DOMAIN old[g] /\ o \in old[g][j].symbols
    BY DeclaredAt
  <2>2. SubstitutionOf(old[g], s, name, files[g])  BY <2>1
  <2>3. /\ j \in DOMAIN files[g]
        /\ files[g][j].symbols = IF s \in old[g][j].symbols
                                 THEN (old[g][j].symbols \ {s}) \cup {new}
                                 ELSE old[g][j].symbols
    BY <2>1, <2>2 DEF SubstitutionOf
  <2>4. CASE o = s
    <3>1. new \in files[g][j].symbols  BY <2>1, <2>3, <2>4
    <3> HIDE DEF new
    <3> QED  BY <2>1, <2>3, <2>4, <3>1, DeclaredAt
  <2>5. CASE o # s
    <3>1. o \in files[g][j].symbols  BY <2>1, <2>3, <2>5
    <3> QED  BY <2>1, <2>3, <2>5, <3>1, DeclaredAt
  <2> QED  BY <2>4, <2>5
<1>2. ASSUME NEW f \in Files \ TestFiles, NEW k \in DOMAIN files[f],
             NEW u \in Range(files[f][k].uses)
      PROVE  u \in Declared(files) \cup gone
  <2>1. old[f] \in Seq(Declarations) /\ SubstitutionOf(old[f], s, name, files[f])  OBVIOUS
  <2> DEFINE t == old[f]
             b == files[f]
  <2>2. t \in Seq(Declarations) /\ SubstitutionOf(t, s, name, b)
        /\ k \in DOMAIN b /\ u \in Range(b[k].uses)
    BY <2>1
  <2> HIDE DEF t, b
  <2>5. k \in DOMAIN t /\ ((u \in Range(t[k].uses) /\ u # s) \/ u = new)
    BY <2>2, SubstitutedUses
  <2>3. new \in Declared(files)  BY <1>1
  <2>4. CASE u \in Range(t[k].uses) /\ u # s
    <3>1. u \in Declared(old) \cup gone  BY <2>4, <2>5 DEF UsesDeclared, t
    <3> QED  BY <3>1, <2>4, <1>1
  <2> QED  BY <2>3, <2>4, <2>5
<1> QED  BY <1>2 DEF UsesDeclared

-----------------------------------------------------------------------------
(* One file with another text.                                             *)

(* Its declarations but the i-th are, each in a place of its own, those of *)
(* the old text, and the i-th declares what nobody declared.               *)
Redeclares(files, f, new, i, fresh, m) ==
    /\ \A j \in DOMAIN new : j # i =>
          m[j] \in DOMAIN files[f] /\ new[j].symbols \subseteq files[f][m[j]].symbols
    /\ \A j, k \in DOMAIN new : j # i /\ k # i /\ m[j] = m[k] => j = k
    /\ i \in DOMAIN new => new[i].symbols \subseteq {fresh} /\ fresh \notin Declared(files)

LEMMA OneFileDeclaredOnce ==
  ASSUME NEW files \in [Files -> Seq(Declarations)], DeclaredOnce(files),
         NEW f \in Files, NEW new, NEW i, NEW fresh, NEW m,
         Redeclares(files, f, new, i, fresh, m)
  PROVE  DeclaredOnce([files EXCEPT ![f] = new])
<1>0. /\ \A j \in DOMAIN new : j # i =>
            m[j] \in DOMAIN files[f] /\ new[j].symbols \subseteq files[f][m[j]].symbols
      /\ \A j, k \in DOMAIN new : j # i /\ k # i /\ m[j] = m[k] => j = k
      /\ i \in DOMAIN new => new[i].symbols \subseteq {fresh} /\ fresh \notin Declared(files)
  BY DEF Redeclares
<1> DEFINE after == [files EXCEPT ![f] = new]
<1>1. after[f] = new /\ \A g \in Files : g # f => after[g] = files[g]  OBVIOUS
<1> HIDE DEF after
<1>2. \A g \in Files : \A k \in DOMAIN files[g] :
         i \in DOMAIN new => fresh \notin files[g][k].symbols
  BY <1>0, DeclaredAt
<1>3. ASSUME NEW g \in Files, NEW h \in Files, NEW k \in DOMAIN after[g],
             NEW j \in DOMAIN after[h], NEW o, o \in after[g][k].symbols,
             o \in after[h][j].symbols
      PROVE  g = h /\ k = j
  <2>1. CASE g # f /\ h # f
    <3>1. after[g] = files[g] /\ after[h] = files[h]  BY <1>1, <2>1
    <3>2. files[g][k].symbols \cap files[h][j].symbols # {}  BY <1>3, <3>1
    <3> QED  BY <1>3, <3>1, <3>2 DEF DeclaredOnce
  <2>2. ASSUME NEW a \in Files, a # f, NEW b \in DOMAIN files[a], NEW c \in DOMAIN new,
               o \in files[a][b].symbols, o \in new[c].symbols
        PROVE  FALSE
    <3>1. CASE c = i  BY <1>0, <1>2, <2>2, <3>1
    <3>2. CASE c # i
      <4>1. m[c] \in DOMAIN files[f] /\ o \in files[f][m[c]].symbols  BY <1>0, <2>2, <3>2
      <4>2. files[a][b].symbols \cap files[f][m[c]].symbols # {}  BY <2>2, <4>1
      <4> QED  BY <2>2, <4>1, <4>2 DEF DeclaredOnce
    <3> QED  BY <3>1, <3>2
  <2>3. CASE g # f /\ h = f
    <3>1. after[g] = files[g] /\ after[h] = new  BY <1>1, <2>3
    <3> QED  BY <1>3, <2>2, <2>3, <3>1
  <2>4. CASE g = f /\ h # f
    <3>1. after[h] = files[h] /\ after[g] = new  BY <1>1, <2>4
    <3> QED  BY <1>3, <2>2, <2>4, <3>1
  <2>5. CASE g = f /\ h = f
    <3>1. after[g] = new /\ after[h] = new  BY <1>1, <2>5
    <3>2. k \in DOMAIN new /\ j \in DOMAIN new /\ o \in new[k].symbols /\ o \in new[j].symbols
      BY <1>3, <3>1
    <3>3. CASE k = i /\ j # i
      <4>1. o = fresh /\ m[j] \in DOMAIN files[f] /\ o \in files[f][m[j]].symbols
        BY <1>0, <3>2, <3>3
      <4> QED  BY <1>0, <4>1, <3>2, <3>3, <1>2
    <3>4. CASE k # i /\ j = i
      <4>1. o = fresh /\ m[k] \in DOMAIN files[f] /\ o \in files[f][m[k]].symbols
        BY <1>0, <3>2, <3>4
      <4> QED  BY <1>0, <4>1, <3>2, <3>4, <1>2
    <3>5. CASE k # i /\ j # i
      <4>1. /\ m[k] \in DOMAIN files[f] /\ o \in files[f][m[k]].symbols
            /\ m[j] \in DOMAIN files[f] /\ o \in files[f][m[j]].symbols
        BY <1>0, <3>2, <3>5
      <4>2. files[f][m[k]].symbols \cap files[f][m[j]].symbols # {}  BY <4>1
      <4>3. m[k] = m[j]  BY <4>1, <4>2 DEF DeclaredOnce
      <4> QED  BY <1>0, <2>5, <3>2, <3>5, <4>3
    <3>6. CASE k = i /\ j = i  BY <2>5, <3>6
    <3> QED  BY <3>3, <3>4, <3>5, <3>6
  <2> QED  BY <2>1, <2>3, <2>4, <2>5
<1> QED  BY <1>3 DEF DeclaredOnce, after

(* What it uses is declared, or was used before, and what it no longer     *)
(* declares is excepted or not used.                                       *)
LEMMA OneFileUsesDeclared ==
  ASSUME NEW files \in [Files -> Seq(Declarations)], NEW gone, UsesDeclared(files, gone),
         NEW f \in Files, NEW new, NEW all, gone \subseteq all,
         \A j \in DOMAIN new : \A u \in Range(new[j].uses) :
            \/ u \in Declared([files EXCEPT ![f] = new])
            \/ \E k \in DOMAIN files[f] : u \in Range(files[f][k].uses),
         \A o \in Symbols(files[f]) \ Symbols(new) :
            \/ o \in all
            \/ \A g \in Files \ TestFiles : \A k \in DOMAIN files[g] :
                  o \notin Range(files[g][k].uses)
  PROVE  UsesDeclared([files EXCEPT ![f] = new], all)
<1> DEFINE after == [files EXCEPT ![f] = new]
<1>1. after[f] = new /\ \A g \in Files : g # f => after[g] = files[g]  OBVIOUS
<1>2. \A j \in DOMAIN new : \A u \in Range(new[j].uses) :
         \/ u \in Declared(after)
         \/ \E k \in DOMAIN files[f] : u \in Range(files[f][k].uses)
  OBVIOUS
<1> HIDE DEF after
<1>3. ASSUME NEW o \in Declared(files), NEW g \in Files \ TestFiles,
             NEW k \in DOMAIN files[g], o \in Range(files[g][k].uses)
      PROVE  o \in Declared(after) \cup all
  <2>1. PICK h, j : h \in Files /\ j \in DOMAIN files[h] /\ o \in files[h][j].symbols
    BY DeclaredAt
  <2>2. CASE h # f
    <3>1. after[h] = files[h]  BY <1>1, <2>1, <2>2
    <3> QED  BY <2>1, <3>1, DeclaredAt
  <2>3. CASE h = f
    <3>1. o \in Symbols(files[f])  BY <2>1, <2>3, SymbolsAt
    <3>2. CASE o \in Symbols(new)
      <4>1. PICK b \in DOMAIN new : o \in new[b].symbols  BY <3>2, SymbolsAt
      <4> QED  BY <1>1, <4>1, DeclaredAt
    <3>3. CASE o \notin Symbols(new)  BY <1>3, <3>1, <3>3
    <3> QED  BY <3>2, <3>3
  <2> QED  BY <2>2, <2>3
<1>4. ASSUME NEW g \in Files \ TestFiles, NEW k \in DOMAIN files[g],
             NEW u \in Range(files[g][k].uses)
      PROVE  u \in Declared(after) \cup all
  <2>1. u \in Declared(files) \cup gone  BY DEF UsesDeclared
  <2>2. CASE u \in Declared(files)  BY <1>3, <2>2
  <2>3. CASE u \in gone  BY <2>3
  <2> QED  BY <2>1, <2>2, <2>3
<1>5. ASSUME NEW g \in Files \ TestFiles, NEW k \in DOMAIN after[g],
             NEW u \in Range(after[g][k].uses)
      PROVE  u \in Declared(after) \cup all
  <2>1. CASE g # f
    <3>1. after[g] = files[g]  BY <1>1, <2>1
    <3> QED  BY <1>4, <3>1
  <2>2. CASE g = f
    <3>1. k \in DOMAIN new /\ u \in Range(new[k].uses)  BY <1>1, <2>2
    <3>2. CASE u \in Declared(after)  BY <3>2
    <3>3. ASSUME NEW j \in DOMAIN files[f], u \in Range(files[f][j].uses)
          PROVE  u \in Declared(after) \cup all
      BY <1>4, <2>2, <3>3
    <3> QED  BY <1>2, <3>1, <3>2, <3>3
  <2> QED  BY <2>1, <2>2
<1> QED  BY <1>5 DEF UsesDeclared, after

-----------------------------------------------------------------------------
(* A rename under way.                                                     *)
LEMMA PlanRenames ==
  ASSUME TypeOK, CodeInv, call.at = "begun", ~ unseen, NEW s \in Declared(index),
         NEW name \in Names, Plan(s, name), UNCHANGED <<tree, index, unseen, torn, dropped>>
  PROVE  RenameInv'
<1>1. /\ index \in [Files -> Seq(Declarations)] /\ index = tree
      /\ DeclaredOnce(index)
      /\ ~ torn => UsesDeclared(index, Gone)
  BY DEF TypeOK, CodeInv
<1>2. PICK files, data, new :
         /\ files \in SUBSET Files
         /\ files = {site[1] : site \in RenameSites(s)}
         /\ data = [f \in files |-> tree[f]]
         /\ new = [f \in files |-> Renamed(tree[f], f, RenameSites(s), s, name)]
         /\ call' = Writing("planned", data, new, <<"rename", s, name>>, FALSE)
  BY PlanEffect
<1>3. /\ call'.at = "planned" /\ call'.new = new
      /\ call'.tool[2] = s /\ call'.tool[3] = name /\ ~ call'.part
  BY <1>2 DEF Writing
<1>4. <<s[1], name>> \notin Declared(index)  BY DEF Plan, Collides
<1>5. ASSUME NEW f \in DOMAIN new
      PROVE  tree[f] = index[f] /\ new[f] = Substituted(index, s, name)[f]
  <2>1. f \in files /\ f \in Files  BY <1>2
  <2>2. new[f] = Renamed(index[f], f, RenameSites(s), s, name)  BY <1>1, <1>2, <2>1
  <2>3. Renamed(index[f], f, RenameSites(s), s, name) = Substituted(index, s, name)[f]
    BY <1>1, <2>1, RenamedIsSubstituted
  <2> QED  BY <1>1, <2>2, <2>3
<1>6. ASSUME NEW f \in Files \ DOMAIN new
      PROVE  tree[f] = Substituted(index, s, name)[f]
  <2>1. f \notin {site[1] : site \in RenameSites(s)}  BY <1>2
  <2>2. index[f] = Substituted(index, s, name)[f]  BY <1>1, <2>1, UntouchedIsSubstituted
  <2> QED  BY <1>1, <2>2
<1>7. Gone' = Gone  BY DEF Gone
<1>8. /\ tree' = tree /\ index' = index /\ torn' = torn  OBVIOUS
<1>9. /\ DeclaredOnce(index') /\ (~ torn' => UsesDeclared(index', Gone'))
      /\ Declared(index') = Declared(index)
  BY <1>1, <1>7, <1>8
<1>10. /\ \A f \in DOMAIN call'.new :
             /\ tree'[f] = index'[f]
             /\ call'.new[f] = Substituted(index', call'.tool[2], call'.tool[3])[f]
       /\ \A f \in Files \ DOMAIN call'.new :
             tree'[f] = Substituted(index', call'.tool[2], call'.tool[3])[f]
  BY <1>3, <1>5, <1>6, <1>8
<1> QED  BY <1>1, <1>3, <1>4, <1>8, <1>9, <1>10 DEF RenameInv

(* Another file of the rename is written, and it deletes nothing.          *)
LEMMA RenameWrites ==
  ASSUME TypeOK, RenameInv, WriteFile, call.at = "checked", ~ unseen
  PROVE  /\ dropped' = dropped
         /\ LET s == call.tool[2]
                name == call.tool[3]
            IN  /\ DeclaredOnce(index)
                /\ s \in Declared(index)
                /\ <<s[1], name>> \notin Declared(index)
                /\ ~ torn => UsesDeclared(index, Gone)
                /\ tree' \in [Files -> Seq(Declarations)]
                /\ \E f \in DOMAIN call.new :
                      LET rest == DOMAIN call.new \ {f} IN
                      /\ \A g \in Files \ rest : tree'[g] = Substituted(index, s, name)[g]
                      /\ \A g \in rest : /\ tree'[g] = index[g]
                                         /\ call.new[g] = Substituted(index, s, name)[g]
                      /\ \/ rest = {} /\ call' = [at |-> "reindex"]
                         \/ call' = Writing("checked", [g \in rest |-> call.data[g]],
                                            [g \in rest |-> call.new[g]], call.tool, TRUE)
<1> DEFINE s == call.tool[2]
           name == call.tool[3]
<1>1. /\ DOMAIN call.data \subseteq Files /\ DOMAIN call.new = DOMAIN call.data
      /\ call.tool \in {"rename"} \X Symbol \X Names
  BY CallParts
<1>2. /\ DeclaredOnce(index) /\ s \in Declared(index)
      /\ <<s[1], name>> \notin Declared(index)
      /\ ~ torn => UsesDeclared(index, Gone)
      /\ \A f \in DOMAIN call.new :
            tree[f] = index[f] /\ call.new[f] = Substituted(index, s, name)[f]
      /\ \A f \in Files \ DOMAIN call.new : tree[f] = Substituted(index, s, name)[f]
  BY DEF RenameInv
<1> HIDE DEF s, name
<1>3. PICK f \in DOMAIN call.data :
         /\ f \in Files
         /\ tree' = [tree EXCEPT ![f] = call.new[f]]
         /\ tree' \in [Files -> Seq(Declarations)]
         /\ dropped' = dropped \cup Siblings(call.data[f], call.new[f], call.tool)
         /\ \/ DOMAIN call.data = {f} /\ call' = [at |-> "reindex"]
            \/ call' = Writing(call.at, [g \in DOMAIN call.data \ {f} |-> call.data[g]],
                               [g \in DOMAIN call.data \ {f} |-> call.new[g]],
                               call.tool, TRUE)
  BY WriteEffect
<1>4. dropped' = dropped
  <2>1. call.tool[1] = "rename"  BY <1>1
  <2>2. Siblings(call.data[f], call.new[f], call.tool) = {}  BY <2>1 DEF Siblings
  <2> QED  BY <1>3, <2>2
<1> DEFINE rest == DOMAIN call.new \ {f}
<1>5. tree \in [Files -> Seq(Declarations)]  BY DEF TypeOK
<1>6. tree'[f] = call.new[f] /\ \A g \in Files : g # f => tree'[g] = tree[g]
  BY <1>3, <1>5
<1>7. f \in DOMAIN call.new /\ rest \subseteq Files  BY <1>1, <1>3
<1>8. \A g \in Files \ rest : tree'[g] = Substituted(index, s, name)[g]
  BY <1>2, <1>6, <1>7
<1>9. \A g \in rest : tree'[g] = index[g] /\ call.new[g] = Substituted(index, s, name)[g]
  BY <1>2, <1>6, <1>7
<1>10. \/ rest = {} /\ call' = [at |-> "reindex"]
       \/ call' = Writing("checked", [g \in rest |-> call.data[g]],
                          [g \in rest |-> call.new[g]], call.tool, TRUE)
  BY <1>1, <1>3
<1> HIDE DEF rest
<1>11. /\ f \in DOMAIN call.new
       /\ \A g \in Files \ rest : tree'[g] = Substituted(index, s, name)[g]
       /\ \A g \in rest : tree'[g] = index[g] /\ call.new[g] = Substituted(index, s, name)[g]
       /\ \/ rest = {} /\ call' = [at |-> "reindex"]
          \/ call' = Writing("checked", [g \in rest |-> call.data[g]],
                             [g \in rest |-> call.new[g]], call.tool, TRUE)
  BY <1>7, <1>8, <1>9, <1>10
<1> QED  BY <1>2, <1>3, <1>4, <1>11 DEF rest, s, name

LEMMA RenameStep ==
  ASSUME TypeOK, RenameInv, CodeInv, [Next]_vars
  PROVE  RenameInv'
<1>1. ASSUME call'.at \notin {"planned", "checked"}
      PROVE  RenameInv'
  BY <1>1 DEF RenameInv
<1>2. ASSUME unseen'
      PROVE  RenameInv'
  BY <1>2 DEF RenameInv
<1>3. CASE Edit
  <2>1. CASE call = Idle
    <3>1. call'.at = "idle"  BY <1>3, <2>1 DEF Edit, Idle
    <3> QED  BY <1>1, <3>1
  <2>2. CASE call # Idle  BY <1>2, <1>3, <2>2 DEF Edit
  <2> QED  BY <2>1, <2>2
<1>4. CASE Begin
  <2>1. call'.at = "begun"  BY <1>4 DEF Begin
  <2> QED  BY <1>1, <2>1
<1>5. CASE Refuse \/ WriteFails \/ Reindex
  <2>1. call'.at = "idle"  BY <1>5 DEF Refuse, WriteFails, Reindex, Idle
  <2> QED  BY <1>1, <2>1
<1>6. CASE Decide
  <2>1. UNCHANGED <<tree, index, unseen, torn, dropped>> /\ call.at = "begun"
    BY <1>6 DEF Decide, history
  <2>2. PICK s \in Declared(index) : Change(s) \/ \E name \in Names : Plan(s, name)
    BY <1>6 DEF Decide
  <2>3. CASE Change(s)
    <3>1. PICK f, kind, k, new :
             /\ f \in Files /\ kind \in {"delete", "replace", "insert"}
             /\ call' = Writing("write", [g \in {f} |-> tree[f]], [g \in {f} |-> new],
                                <<kind, s>>, FALSE)
      BY <2>3, ChangeEffect
    <3>2. call'.at = "write"  BY <3>1 DEF Writing
    <3> QED  BY <1>1, <3>2
  <2>4. ASSUME NEW name \in Names, Plan(s, name)
        PROVE  RenameInv'
    <3>1. CASE unseen  BY <1>2, <2>1, <3>1
    <3>2. CASE ~ unseen  BY <2>1, <2>4, <3>2, PlanRenames
    <3> QED  BY <3>1, <3>2
  <2> QED  BY <2>2, <2>3, <2>4
<1>7. CASE Recheck
  <2>1. UNCHANGED <<tree, index, unseen, torn, dropped>> /\ call.at = "planned"
    BY <1>7 DEF Recheck, history
  <2>2. CASE call' = Idle
    <3>1. call'.at = "idle"  BY <2>2 DEF Idle
    <3> QED  BY <1>1, <3>1
  <2>3. CASE call' = Writing("checked", call.data, call.new, call.tool, call.part)
    <3>1. /\ call'.at = "checked" /\ call'.new = call.new
          /\ call'.tool = call.tool /\ call'.part = call.part
      BY <2>3 DEF Writing
    <3>2. Gone' = Gone  BY <2>1 DEF Gone
    <3>3. Declared(index') = Declared(index) /\ DeclaredOnce(index') = DeclaredOnce(index)
          /\ UsesDeclared(index', Gone') = UsesDeclared(index, Gone)
          /\ Substituted(index', call'.tool[2], call'.tool[3])
                = Substituted(index, call.tool[2], call.tool[3])
      BY <2>1, <3>1, <3>2
    <3> QED  BY <2>1, <3>1, <3>3 DEF RenameInv
  <2> QED  BY <1>7, <2>2, <2>3 DEF Recheck
<1>8. CASE WriteFile
  <2>1. call.at \in {"write", "checked"} /\ UNCHANGED <<index, unseen, torn>>
    BY <1>8 DEF WriteFile
  <2>2. CASE call.at = "write"
    <3>1. call'.at \in {"write", "reindex"}
      <4>1. PICK f \in DOMAIN call.data :
               \/ call' = [at |-> "reindex"]
               \/ call' = Writing(call.at, [g \in DOMAIN call.data \ {f} |-> call.data[g]],
                                  [g \in DOMAIN call.data \ {f} |-> call.new[g]],
                                  call.tool, TRUE)
        BY <1>8, WriteEffect
      <4> QED  BY <2>2, <4>1 DEF Writing
    <3> QED  BY <1>1, <3>1
  <2>3. CASE unseen  BY <1>2, <2>1, <2>3
  <2>4. CASE call.at = "checked" /\ ~ unseen
    <3> DEFINE s == call.tool[2]
               name == call.tool[3]
    <3>1. /\ DeclaredOnce(index) /\ s \in Declared(index)
          /\ <<s[1], name>> \notin Declared(index)
          /\ ~ torn => UsesDeclared(index, Gone)
          /\ dropped' = dropped
      BY <1>8, <2>4, RenameWrites
    <3>2. PICK f \in DOMAIN call.new :
             LET rest == DOMAIN call.new \ {f} IN
             /\ \A g \in Files \ rest : tree'[g] = Substituted(index, s, name)[g]
             /\ \A g \in rest : /\ tree'[g] = index[g]
                                /\ call.new[g] = Substituted(index, s, name)[g]
             /\ \/ rest = {} /\ call' = [at |-> "reindex"]
                \/ call' = Writing("checked", [g \in rest |-> call.data[g]],
                                   [g \in rest |-> call.new[g]], call.tool, TRUE)
      BY <1>8, <2>4, RenameWrites
    <3> DEFINE rest == DOMAIN call.new \ {f}
    <3>3. CASE call' = [at |-> "reindex"]
      <4>1. call'.at = "reindex"  BY <3>3
      <4> QED  BY <1>1, <4>1
    <3>4. CASE call' = Writing("checked", [g \in rest |-> call.data[g]],
                               [g \in rest |-> call.new[g]], call.tool, TRUE)
      <4>1. /\ call'.at = "checked" /\ call'.new = [g \in rest |-> call.new[g]]
            /\ call'.tool = call.tool /\ call'.part
        BY <3>4 DEF Writing
      <4>2. Gone' = Gone  BY <3>1 DEF Gone
      <4>3. Declared(index') = Declared(index) /\ DeclaredOnce(index') = DeclaredOnce(index)
            /\ UsesDeclared(index', Gone') = UsesDeclared(index, Gone)
            /\ Substituted(index', call'.tool[2], call'.tool[3])
                  = Substituted(index, s, name)
        BY <2>1, <4>1, <4>2
      <4>4. /\ \A g \in Files \ DOMAIN call'.new :
                  tree'[g] = Substituted(index, s, name)[g]
            /\ \A g \in DOMAIN call'.new :
                  tree'[g] = index'[g] /\ call'.new[g] = Substituted(index, s, name)[g]
        BY <2>1, <3>2, <4>1
      <4> QED  BY <2>1, <3>1, <4>1, <4>3, <4>4 DEF RenameInv
    <3> QED  BY <3>2, <3>3, <3>4
  <2> QED  BY <2>1, <2>2, <2>3, <2>4
<1>9. CASE UNCHANGED vars
  <2>1. UNCHANGED <<tree, index, call, unseen, torn, dropped>>  BY <1>9 DEF vars, history
  <2>2. Gone' = Gone  BY <2>1 DEF Gone
  <2> QED  BY <2>1, <2>2 DEF RenameInv
<1> QED  BY <1>3, <1>4, <1>5, <1>6, <1>7, <1>8, <1>9 DEF Next

(* Its last file written, the whole tree is the substituted one.           *)
LEMMA SubstitutedIs ==
  ASSUME NEW t \in [Files -> Seq(Declarations)], NEW files, NEW s, NEW name,
         \A f \in Files : t[f] = Substituted(files, s, name)[f]
  PROVE  t = Substituted(files, s, name)
<1> DEFINE u == Substituted(files, s, name)
<1>1. u = [f \in Files |-> u[f]]  BY DEF Substituted
<1>2. t = [f \in Files |-> t[f]]  OBVIOUS
<1> HIDE DEF u
<1>3. \A f \in Files : t[f] = u[f]  BY DEF u
<1>4. t = u  BY <1>1, <1>2, <1>3
<1> QED  BY <1>4 DEF u

LEMMA RenameEnds ==
  ASSUME TypeOK, RenameInv, [Next]_vars, call.at = "checked", call'.at = "reindex", ~ unseen
  PROVE  tree' = Substituted(index, call.tool[2], call.tool[3])
<1>1. WriteFile
  <2>1. ~ (Begin \/ Refuse \/ Decide \/ Recheck \/ Reindex)
    BY DEF Begin, Refuse, Decide, Recheck, Reindex, Idle
  <2>2. ~ WriteFails  BY DEF WriteFails, Idle
  <2>3. ~ Edit /\ ~ UNCHANGED vars  BY DEF Edit, vars
  <2> QED  BY <2>1, <2>2, <2>3 DEF Next
<1> DEFINE s == call.tool[2]
           name == call.tool[3]
<1>2. tree' \in [Files -> Seq(Declarations)]  BY <1>1, RenameWrites
<1>3. PICK f \in DOMAIN call.new :
         LET rest == DOMAIN call.new \ {f} IN
         /\ \A g \in Files \ rest : tree'[g] = Substituted(index, s, name)[g]
         /\ \/ rest = {} /\ call' = [at |-> "reindex"]
            \/ call' = Writing("checked", [g \in rest |-> call.data[g]],
                               [g \in rest |-> call.new[g]], call.tool, TRUE)
  BY <1>1, RenameWrites
<1>4. DOMAIN call.new \ {f} = {}
  <2>1. ASSUME call' = Writing("checked", [g \in DOMAIN call.new \ {f} |-> call.data[g]],
                               [g \in DOMAIN call.new \ {f} |-> call.new[g]],
                               call.tool, TRUE)
        PROVE  FALSE
    <3>1. call'.at = "checked"  BY <2>1 DEF Writing
    <3> QED  BY <3>1
  <2> QED  BY <1>3, <2>1
<1>5. \A g \in Files : tree'[g] = Substituted(index, s, name)[g]  BY <1>3, <1>4
<1> QED  BY <1>2, <1>5, SubstitutedIs

(* What a delete, a replacement or an insertion leaves declares a symbol   *)
(* once, ...                                                               *)
LEMMA ChangeDeclaredOnce ==
  ASSUME TypeOK, DeclaredOnce(tree), NEW f \in Files, NEW s \in Symbol, NEW k, NEW kind,
         NEW new, Changes(f, k, s, kind, new)
  PROVE  DeclaredOnce([tree EXCEPT ![f] = new])
<1> DEFINE t == tree[f]
<1>1. tree \in [Files -> Seq(Declarations)]  BY DEF TypeOK
<1>2. t \in Seq(Declarations) /\ k \in DOMAIN t  BY <1>1 DEF Changes
<1>3. Len(t) \in Nat /\ DOMAIN t = 1 .. Len(t)  BY <1>2, DomainOfText
<1>4. CASE new = Deleted(t, k)
  <2> DEFINE m == [j \in 1 .. Len(t) - 1 |-> IF j < k THEN j ELSE j + 1]
  <2> HIDE DEF t
  <2>1. /\ DOMAIN new = 1 .. Len(t) - 1
        /\ \A j \in 1 .. Len(t) - 1 : new[j] = IF j < k THEN t[j] ELSE t[j + 1]
    BY <1>2, <1>4, DeletedParts
  <2>2. \A j \in 1 .. Len(t) - 1 : /\ j < k => m[j] = j
                                   /\ ~(j < k) => m[j] = j + 1
    OBVIOUS
  <2> HIDE DEF m
  <2>3. \A j \in 1 .. Len(t) - 1 : m[j] \in DOMAIN t /\ new[j] = t[m[j]]
    BY <1>2, <1>3, <2>1, <2>2
  <2>4. \A j, i \in 1 .. Len(t) - 1 : m[j] = m[i] => j = i  BY <1>2, <1>3, <2>2
  <2>5. Redeclares(tree, f, new, 0, s, m)
    BY <2>1, <2>3, <2>4, <1>3 DEF Redeclares, t
  <2> QED  BY <1>1, <2>5, OneFileDeclaredOnce
<1>5. ASSUME NEW used \in Usable(tree, f), new = Replaced(t, k, <<used>>)
      PROVE  DeclaredOnce([tree EXCEPT ![f] = new])
  <2> DEFINE m == [j \in DOMAIN t |-> j]
  <2>0. used \in Declared(tree)  BY DEF Usable
  <2>1. <<used>> \in Seq(Symbol)  BY <1>1, <2>0, DeclaredSymbol
  <2> HIDE DEF t
  <2>2. DOMAIN new = DOMAIN t /\ \A j \in DOMAIN t : new[j].symbols = t[j].symbols
    BY <1>2, <1>5, <2>1, ReplacedParts
  <2>3. \A j \in DOMAIN t : m[j] = j  OBVIOUS
  <2> HIDE DEF m
  <2>4. Redeclares(tree, f, new, 0, s, m)  BY <1>3, <2>2, <2>3 DEF Redeclares, t
  <2> QED  BY <1>1, <2>4, OneFileDeclaredOnce
<1>6. ASSUME NEW after \in BOOLEAN, NEW name \in Names, <<s[1], name>> \notin Declared(tree),
             new = Inserted(t, k, after, <<s[1], name>>)
      PROVE  DeclaredOnce([tree EXCEPT ![f] = new])
  <2> DEFINE fresh == <<s[1], name>>
  <2>1. fresh \in Symbol  BY SymbolParts
  <2>2. fresh \notin Declared(tree) /\ new = Inserted(t, k, after, fresh)  BY <1>6
  <2> HIDE DEF t, fresh
  <2>3. DOMAIN new = 1 .. Len(t) + 1  BY <1>2, <2>1, <2>2, InsertedParts
  <2>10. PICK i \in 1 .. Len(t) + 1 : InsertionOf(t, i, fresh, new)
    BY <1>2, <2>1, <2>2, InsertedParts
  <2>4. \A j \in 1 .. Len(t) + 1 : /\ j < i => new[j] = t[j]
                                   /\ j = i => new[j] = Declaration(fresh, {})
                                   /\ j > i => new[j] = t[j - 1]
    BY <2>10 DEF InsertionOf
  <2> DEFINE m == [j \in 1 .. Len(t) + 1 |-> IF j < i THEN j ELSE j - 1]
  <2>5. \A j \in 1 .. Len(t) + 1 : /\ j < i => m[j] = j
                                   /\ ~(j < i) => m[j] = j - 1
    OBVIOUS
  <2> HIDE DEF m
  <2>6. \A j \in 1 .. Len(t) + 1 : j # i => m[j] \in DOMAIN t /\ new[j] = t[m[j]]
    BY <1>3, <2>4, <2>5
  <2>7. \A j, h \in 1 .. Len(t) + 1 : j # i /\ h # i /\ m[j] = m[h] => j = h
    BY <1>3, <2>5
  <2>8. new[i].symbols = {fresh}
    <3>1. new[i] = Declaration(fresh, {})  BY <1>3, <2>4
    <3> QED  BY <3>1 DEF Declaration
  <2>9. Redeclares(tree, f, new, i, fresh, m)
    BY <2>2, <2>3, <2>6, <2>7, <2>8 DEF Redeclares, t
  <2> QED  BY <1>1, <2>9, OneFileDeclaredOnce
<1> QED  BY <1>4, <1>5, <1>6 DEF Changes

(* ... and outside tests no symbol but what is declared, or has gone.      *)
LEMMA ChangeUsesDeclared ==
  ASSUME TypeOK, index = tree, NEW gone, UsesDeclared(tree, gone), NEW all, gone \subseteq all,
         NEW f \in Files, NEW s \in Symbol, NEW k, NEW kind, NEW new,
         Changes(f, k, s, kind, new),
         kind = "delete" => (Symbols(tree[f]) \ Symbols(new)) \ {s} \subseteq all
  PROVE  UsesDeclared([tree EXCEPT ![f] = new], all)
<1> DEFINE t == tree[f]
           after == [tree EXCEPT ![f] = new]
<1>1. tree \in [Files -> Seq(Declarations)]  BY DEF TypeOK
<1>2. t \in Seq(Declarations) /\ k \in DOMAIN t  BY <1>1 DEF Changes
<1>3. Len(t) \in Nat /\ DOMAIN t = 1 .. Len(t)  BY <1>2, DomainOfText
<1>4. after[f] = new /\ \A g \in Files : g # f => after[g] = tree[g]  BY <1>1
<1>5. SUFFICES
         /\ \A j \in DOMAIN new : \A u \in Range(new[j].uses) :
               \/ u \in Declared(after)
               \/ \E i \in DOMAIN t : u \in Range(t[i].uses)
         /\ \A o \in Symbols(t) \ Symbols(new) :
               \/ o \in all
               \/ \A g \in Files \ TestFiles : \A i \in DOMAIN tree[g] :
                     o \notin Range(tree[g][i].uses)
  BY <1>1, OneFileUsesDeclared
<1> HIDE DEF t, after
<1>6. CASE kind = "delete"
  <2>0. /\ new = Deleted(t, k)
        /\ \A site \in Sites(index, s) : site[1] \in TestFiles
    BY <1>6 DEF Changes, t
  <2>1. /\ DOMAIN new = 1 .. Len(t) - 1
        /\ \A j \in 1 .. Len(t) - 1 : new[j] = IF j < k THEN t[j] ELSE t[j + 1]
    BY <1>2, <2>0, DeletedParts
  <2>2. \A j \in DOMAIN new : \E i \in DOMAIN t : new[j] = t[i]  BY <1>2, <1>3, <2>1
  <2>3. ASSUME NEW g \in Files \ TestFiles, NEW i \in DOMAIN tree[g],
               s \in Range(tree[g][i].uses)
        PROVE  FALSE
    <3>1. PICK c \in DOMAIN tree[g][i].uses : tree[g][i].uses[c] = s  BY <2>3 DEF Range
    <3>2. <<g, i, c>> \in Sites(index, s)  BY <3>1, SitesAt
    <3>3. <<g, i, c>>[1] = g  OBVIOUS
    <3> QED  BY <2>0, <3>2, <3>3
  <2>4. \A o \in Symbols(t) \ Symbols(new) : o = s \/ o \in all  BY <1>6 DEF t
  <2> QED  BY <2>2, <2>3, <2>4
<1>7. ASSUME NEW used \in Usable(tree, f), new = Replaced(t, k, <<used>>)
      PROVE  /\ \A j \in DOMAIN new : \A u \in Range(new[j].uses) :
                   \/ u \in Declared(after)
                   \/ \E i \in DOMAIN t : u \in Range(t[i].uses)
             /\ Symbols(t) \ Symbols(new) = {}
  <2>0. used \in Declared(tree)  BY DEF Usable
  <2>1. <<used>> \in Seq(Symbol)  BY <1>1, <2>0, DeclaredSymbol
  <2>2. /\ DOMAIN new = DOMAIN t
        /\ \A j \in DOMAIN t : new[j].symbols = t[j].symbols
        /\ new[k].uses = <<used>>
        /\ \A j \in DOMAIN t : j # k => new[j] = t[j]
    BY <1>2, <1>7, <2>1, ReplacedParts
  <2>3. Range(<<used>>) = {used}  BY DEF Range
  <2>4. used \in Declared(after)
    <3>1. PICK g, j : g \in Files /\ j \in DOMAIN tree[g] /\ used \in tree[g][j].symbols
      BY <2>0, DeclaredAt
    <3>2. CASE g = f
      <4>1. j \in DOMAIN after[g] /\ used \in after[g][j].symbols
        BY <1>4, <2>2, <3>1, <3>2 DEF t
      <4> QED  BY <3>1, <4>1, DeclaredAt
    <3>3. CASE g # f
      <4>1. after[g] = tree[g]  BY <1>4, <3>1, <3>3
      <4> QED  BY <3>1, <4>1, DeclaredAt
    <3> QED  BY <3>2, <3>3
  <2>5. ASSUME NEW j \in DOMAIN new, NEW u \in Range(new[j].uses)
        PROVE  u \in Declared(after) \/ \E i \in DOMAIN t : u \in Range(t[i].uses)
    <3>1. CASE j = k  BY <2>2, <2>3, <2>4, <2>5, <3>1
    <3>2. CASE j # k  BY <2>2, <2>5, <3>2
    <3> QED  BY <3>1, <3>2
  <2>6. \A o \in Symbols(t) : o \in Symbols(new)  BY <2>2, SymbolsAt
  <2> QED  BY <2>5, <2>6
<1>8. ASSUME NEW behind \in BOOLEAN, NEW name \in Names,
             new = Inserted(t, k, behind, <<s[1], name>>)
      PROVE  /\ \A j \in DOMAIN new : \A u \in Range(new[j].uses) :
                   \E i \in DOMAIN t : u \in Range(t[i].uses)
             /\ Symbols(t) \ Symbols(new) = {}
  <2> DEFINE fresh == <<s[1], name>>
  <2>1. fresh \in Symbol  BY SymbolParts
  <2>2. new = Inserted(t, k, behind, fresh)  BY <1>8
  <2> HIDE DEF fresh
  <2>3. DOMAIN new = 1 .. Len(t) + 1  BY <1>2, <2>1, <2>2, InsertedParts
  <2>10. PICK i \in 1 .. Len(t) + 1 : InsertionOf(t, i, fresh, new)
    BY <1>2, <2>1, <2>2, InsertedParts
  <2>4. \A j \in 1 .. Len(t) + 1 : /\ j < i => new[j] = t[j]
                                   /\ j = i => new[j] = Declaration(fresh, {})
                                   /\ j > i => new[j] = t[j - 1]
    BY <2>10 DEF InsertionOf
  <2>5. new[i].uses = << >>
    <3>1. new[i] = Declaration(fresh, {})  BY <1>3, <2>4
    <3> QED  BY <3>1 DEF Declaration
  <2>6. ASSUME NEW j \in DOMAIN new, NEW u \in Range(new[j].uses)
        PROVE  \E h \in DOMAIN t : u \in Range(t[h].uses)
    <3>0. \A x : x \notin Range(<< >>)  BY DEF Range
    <3>1. j # i  BY <2>5, <2>6, <3>0
    <3>2. \E h \in DOMAIN t : new[j] = t[h]  BY <1>3, <2>3, <2>4, <3>1
    <3> QED  BY <2>6, <3>2
  <2>7. ASSUME NEW o \in Symbols(t)  PROVE o \in Symbols(new)
    <3>1. PICK h \in DOMAIN t : o \in t[h].symbols  BY <2>7, SymbolsAt
    <3>2. CASE h < i
      <4>1. h \in DOMAIN new /\ new[h] = t[h]  BY <1>3, <2>3, <2>4, <3>1, <3>2
      <4> QED  BY <3>1, <4>1, SymbolsAt
    <3>3. CASE ~(h < i)
      <4>1. PICK j \in 1 .. Len(t) + 1 : j - 1 = h /\ ~(j < i) /\ j # i
        <5>1. h + 1 \in 1 .. Len(t) + 1 /\ (h + 1) - 1 = h /\ ~(h + 1 < i) /\ h + 1 # i
          BY <1>3, <3>1, <3>3
        <5> QED  BY <5>1
      <4>2. new[j] = t[h]  BY <2>4, <4>1
      <4> QED  BY <2>3, <3>1, <4>1, <4>2, SymbolsAt
    <3> QED  BY <3>2, <3>3
  <2> QED  BY <2>6, <2>7
<1> QED  BY <1>6, <1>7, <1>8 DEF Changes, t

-----------------------------------------------------------------------------
(* What is about to be written compiles.                                   *)
LEMMA ChangeWrites ==
  ASSUME TypeOK, CodeInv, call.at = "begun", ~ unseen, NEW s \in Declared(index), Change(s),
         UNCHANGED <<tree, torn, dropped>>
  PROVE  WriteInv'
<1>1. /\ index = tree /\ DeclaredOnce(tree) /\ tree \in [Files -> Seq(Declarations)]
      /\ ~ torn => UsesDeclared(tree, Gone)
  BY DEF TypeOK, CodeInv
<1>2. s \in Symbol  BY <1>1, DeclaredSymbol
<1>3. PICK f, kind, k, new :
         /\ f \in Files /\ kind \in {"delete", "replace", "insert"}
         /\ Changes(f, k, s, kind, new)
         /\ call' = Writing("write", [g \in {f} |-> tree[f]], [g \in {f} |-> new],
                            <<kind, s>>, FALSE)
  BY ChangeEffect
<1>4. /\ call'.at = "write" /\ call'.data = [g \in {f} |-> tree[f]]
      /\ call'.new = [g \in {f} |-> new] /\ call'.tool = <<kind, s>> /\ ~ call'.part
  BY <1>3 DEF Writing
<1>5. call'.data[f] = tree[f] /\ call'.new[f] = new /\ DOMAIN call'.new = {f}  BY <1>4
<1> DEFINE lost == Siblings(tree[f], new, <<kind, s>>)
           all == Gone \cup {d.symbol : d \in lost}
<1>6. kind = "delete" => (Symbols(tree[f]) \ Symbols(new)) \ {s} \subseteq all
  <2>1. ASSUME kind = "delete", NEW o \in (Symbols(tree[f]) \ Symbols(new)) \ {s}
        PROVE  o \in {d.symbol : d \in lost}
    <3> DEFINE d == [symbol |-> o, paren |-> \E j \in DOMAIN tree[f] :
                                     tree[f][j].paren /\ o \in tree[f][j].symbols]
    <3>1. d \in lost  BY <2>1 DEF Siblings
    <3>2. d.symbol = o  OBVIOUS
    <3> HIDE DEF d, lost
    <3> QED  BY <3>1, <3>2
  <2> QED  BY <2>1
<1> HIDE DEF lost
<1>7. DeclaredOnce([tree EXCEPT ![f] = new])  BY <1>1, <1>2, <1>3, ChangeDeclaredOnce
<1>8. ~ torn => UsesDeclared([tree EXCEPT ![f] = new], all)
  <2>1. Gone \subseteq all  OBVIOUS
  <2> HIDE DEF all
  <2> QED  BY <1>1, <1>2, <1>3, <1>6, <2>1, ChangeUsesDeclared
<1>9. Gone' = Gone  BY DEF Gone
<1>10. Gone' \cup {d.symbol : d \in Siblings(call'.data[f], call'.new[f], call'.tool)} = all
  BY <1>4, <1>5, <1>9 DEF lost
<1>11. [tree' EXCEPT ![f] = call'.new[f]] = [tree EXCEPT ![f] = new]  BY <1>5
<1> HIDE DEF all
<1> QED  BY <1>3, <1>4, <1>5, <1>7, <1>8, <1>10, <1>11 DEF WriteInv

LEMMA WriteStep ==
  ASSUME TypeOK, WriteInv, CodeInv, [Next]_vars
  PROVE  WriteInv'
<1>1. ASSUME call'.at # "write"
      PROVE  WriteInv'
  BY <1>1 DEF WriteInv
<1>2. ASSUME unseen'
      PROVE  WriteInv'
  BY <1>2 DEF WriteInv
<1>3. CASE Edit
  <2>1. CASE call = Idle
    <3>1. call'.at = "idle"  BY <1>3, <2>1 DEF Edit, Idle
    <3> QED  BY <1>1, <3>1
  <2>2. CASE call # Idle  BY <1>2, <1>3, <2>2 DEF Edit
  <2> QED  BY <2>1, <2>2
<1>4. CASE Begin
  <2>1. call'.at = "begun"  BY <1>4 DEF Begin
  <2> QED  BY <1>1, <2>1
<1>5. CASE Refuse \/ WriteFails \/ Reindex
  <2>1. call'.at = "idle"  BY <1>5 DEF Refuse, WriteFails, Reindex, Idle
  <2> QED  BY <1>1, <2>1
<1>6. CASE Decide
  <2>1. UNCHANGED <<tree, index, unseen, torn, dropped>> /\ call.at = "begun"
    BY <1>6 DEF Decide, history
  <2>2. PICK s \in Declared(index) : Change(s) \/ \E name \in Names : Plan(s, name)
    BY <1>6 DEF Decide
  <2>3. CASE Change(s)
    <3>1. CASE unseen  BY <1>2, <2>1, <3>1
    <3>2. CASE ~ unseen  BY <2>1, <2>3, <3>2, ChangeWrites
    <3> QED  BY <3>1, <3>2
  <2>4. ASSUME NEW name \in Names, Plan(s, name)
        PROVE  WriteInv'
    <3>1. call'.at = "planned"  BY <2>4 DEF Plan, Writing
    <3> QED  BY <1>1, <3>1
  <2> QED  BY <2>2, <2>3, <2>4
<1>7. CASE Recheck
  <2>1. call'.at \in {"idle", "checked"}  BY <1>7 DEF Recheck, Writing, Idle
  <2> QED  BY <1>1, <2>1
<1>8. CASE WriteFile
  <2>1. call.at \in {"write", "checked"} /\ UNCHANGED unseen  BY <1>8 DEF WriteFile
  <2>2. PICK f \in DOMAIN call.data :
           \/ DOMAIN call.data = {f} /\ call' = [at |-> "reindex"]
           \/ LET rest == DOMAIN call.data \ {f} IN
              /\ rest # {}
              /\ call' = Writing(call.at, [g \in rest |-> call.data[g]],
                                 [g \in rest |-> call.new[g]], call.tool, TRUE)
    BY <1>8, WriteEffect
  <2>3. CASE call' = [at |-> "reindex"]
    <3>1. call'.at = "reindex"  BY <2>3
    <3> QED  BY <1>1, <3>1
  <2>4. ASSUME DOMAIN call.data \ {f} # {},
               call' = Writing(call.at, [g \in DOMAIN call.data \ {f} |-> call.data[g]],
                               [g \in DOMAIN call.data \ {f} |-> call.new[g]],
                               call.tool, TRUE)
        PROVE  WriteInv'
    <3>1. call'.at = call.at  BY <2>4 DEF Writing
    <3>2. DOMAIN call.new = DOMAIN call.data  BY <2>1, CallParts
    <3>3. CASE call.at = "write" /\ ~ unseen
      <4>1. \E g : DOMAIN call.new = {g}  BY <3>3 DEF WriteInv
      <4>2. FALSE  BY <2>4, <3>2, <4>1
      <4> QED  BY <4>2
    <3> QED  BY <1>1, <1>2, <2>1, <3>1, <3>3
  <2> QED  BY <2>2, <2>3, <2>4
<1>9. CASE UNCHANGED vars
  <2>1. UNCHANGED <<tree, call, unseen, torn, dropped>>  BY <1>9 DEF vars, history
  <2>2. Gone' = Gone  BY <2>1 DEF Gone
  <2> QED  BY <2>1, <2>2 DEF WriteInv
<1> QED  BY <1>3, <1>4, <1>5, <1>6, <1>7, <1>8, <1>9 DEF Next

-----------------------------------------------------------------------------
(* The code goes on compiling: an edit, ...                                *)
LEMMA StillDeclared ==
  ASSUME NEW files \in [Files -> Seq(Declarations)], NEW f \in Files, NEW new,
         Symbols(files[f]) \subseteq Symbols(new), NEW o \in Declared(files)
  PROVE  o \in Declared([files EXCEPT ![f] = new])
<1> DEFINE after == [files EXCEPT ![f] = new]
<1>1. after[f] = new /\ \A g \in Files : g # f => after[g] = files[g]  OBVIOUS
<1> HIDE DEF after
<1>2. PICK g, j : g \in Files /\ j \in DOMAIN files[g] /\ o \in files[g][j].symbols
  BY DeclaredAt
<1>3. CASE g = f
  <2>1. o \in Symbols(new)  BY <1>2, <1>3, SymbolsAt
  <2>2. PICK i \in DOMAIN new : o \in new[i].symbols  BY <2>1, SymbolsAt
  <2>3. o \in Declared(after)  BY <1>1, <2>2, DeclaredAt
  <2> QED  BY <2>3 DEF after
<1>4. CASE g # f
  <2>1. after[g] = files[g]  BY <1>1, <1>2, <1>4
  <2>2. o \in Declared(after)  BY <1>2, <2>1, DeclaredAt
  <2> QED  BY <2>2 DEF after
<1> QED  BY <1>3, <1>4

LEMMA EditCompiles ==
  ASSUME TypeOK, Edit, DeclaredOnce(tree)
  PROVE  /\ DeclaredOnce(tree')
         /\ \A gone : UsesDeclared(tree, gone) => UsesDeclared(tree', gone)
<1>1. tree \in [Files -> Seq(Declarations)] /\ edits' \in Nat  BY DEF TypeOK, Edit
<1>2. PICK f \in Files :
         /\ tree' \in [Files -> Seq(Declarations)]
         /\ \A g \in Files \ {f} : tree'[g] = tree[g]
         /\ \/ \E k \in DOMAIN tree[f], s \in Usable(tree, f) :
                  tree'[f] = UseAdded(tree[f], k, s, edits')
            \/ \E name \in Names :
                  /\ <<Package(f), name>> \notin Declared(tree)
                  /\ tree'[f] = DeclarationAdded(tree[f], <<Package(f), name>>, edits')
  BY EditEffect
<1>3. PICK new : new = tree'[f]  OBVIOUS
<1>4. tree' = [tree EXCEPT ![f] = new]  BY <1>1, <1>2, <1>3
<1> DEFINE t == tree[f]
           after == [tree EXCEPT ![f] = new]
<1>5. t \in Seq(Declarations)  BY <1>1
<1>6. Len(t) \in Nat /\ DOMAIN t = 1 .. Len(t)  BY <1>5, DomainOfText
<1>7. ASSUME \A j \in DOMAIN new : \A u \in Range(new[j].uses) :
                \/ u \in Declared(tree)
                \/ \E i \in DOMAIN t : u \in Range(t[i].uses),
             Symbols(t) \subseteq Symbols(new), NEW gone, UsesDeclared(tree, gone)
      PROVE  UsesDeclared(after, gone)
  <2>1. \A o \in Declared(tree) : o \in Declared(after)  BY <1>1, <1>7, StillDeclared
  <2>2. \A j \in DOMAIN new : \A u \in Range(new[j].uses) :
           \/ u \in Declared(after)
           \/ \E i \in DOMAIN t : u \in Range(t[i].uses)
    <3> HIDE DEF after, t
    <3> QED  BY <1>7, <2>1
  <2>3. Symbols(t) \ Symbols(new) = {} /\ gone \subseteq gone  BY <1>7
  <2> QED  BY <1>1, <1>7, <2>2, <2>3, OneFileUsesDeclared
<1>8. ASSUME NEW k \in DOMAIN t, NEW s \in Usable(tree, f), new = UseAdded(t, k, s, edits')
      PROVE  /\ DeclaredOnce(after)
             /\ \A gone : UsesDeclared(tree, gone) => UsesDeclared(after, gone)
  <2> DEFINE m == [j \in DOMAIN t |-> j]
  <2>0. s \in Declared(tree)  BY DEF Usable
  <2>1. s \in Symbol  BY <1>1, <2>0, DeclaredSymbol
  <2> HIDE DEF t
  <2>2. /\ DOMAIN new = DOMAIN t
        /\ \A j \in DOMAIN t : new[j].symbols = t[j].symbols
        /\ \A j \in DOMAIN t : Range(new[j].uses) \subseteq Range(t[j].uses) \cup {s}
    <3>1. PICK e \in Nat : e = edits'  BY <1>1
    <3>2. new = UseAdded(t, k, s, e)  BY <1>8, <3>1
    <3>3. DOMAIN UseAdded(t, k, s, e) = DOMAIN t  BY <1>5, <2>1, UseAddedParts
    <3>4. SameSymbols(t, UseAdded(t, k, s, e))  BY <1>5, <2>1, UseAddedParts
    <3>5. \A j \in DOMAIN t :
             Range(UseAdded(t, k, s, e)[j].uses) \subseteq Range(t[j].uses) \cup {s}
      BY <1>5, <2>1, UseAddedParts
    <3> QED  BY <3>2, <3>3, <3>4, <3>5 DEF SameSymbols
  <2>3. \A j \in DOMAIN t : m[j] = j  OBVIOUS
  <2> HIDE DEF m
  <2>4. Redeclares(tree, f, new, 0, s, m)  BY <1>6, <2>2, <2>3 DEF Redeclares, t
  <2>5. DeclaredOnce(after)  BY <1>1, <2>4, OneFileDeclaredOnce
  <2>6. Symbols(t) \subseteq Symbols(new)  BY <2>2, SymbolsAt
  <2>7. \A j \in DOMAIN new : \A u \in Range(new[j].uses) :
           u \in Declared(tree) \/ \E i \in DOMAIN t : u \in Range(t[i].uses)
    BY <2>0, <2>2
  <2> QED  BY <1>7, <2>5, <2>6, <2>7
<1>9. ASSUME NEW name \in Names, <<Package(f), name>> \notin Declared(tree),
             new = DeclarationAdded(t, <<Package(f), name>>, edits')
      PROVE  /\ DeclaredOnce(after)
             /\ \A gone : UsesDeclared(tree, gone) => UsesDeclared(after, gone)
  <2> DEFINE fresh == <<Package(f), name>>
             m == [j \in 1 .. Len(t) + 1 |-> j - 1]
  <2>1. fresh \in Symbol  BY PackageSymbol
  <2>2. fresh \notin Declared(tree) /\ new = DeclarationAdded(t, fresh, edits')  BY <1>9
  <2> HIDE DEF t, fresh
  <2>3. /\ DOMAIN new = 1 .. Len(t) + 1
        /\ new[1] = Declaration(fresh, {edits'})
        /\ \A j \in 2 .. Len(t) + 1 : new[j] = t[j - 1]
    BY <1>1, <1>5, <2>1, <2>2, DeclarationAddedParts
  <2>4. \A j \in 1 .. Len(t) + 1 : m[j] = j - 1  OBVIOUS
  <2> HIDE DEF m
  <2>5. \A j \in DOMAIN new : j # 1 => m[j] \in DOMAIN t /\ new[j] = t[m[j]]
    BY <1>6, <2>3, <2>4
  <2>6. \A j, i \in DOMAIN new : m[j] = m[i] => j = i  BY <1>6, <2>3, <2>4
  <2>7. new[1].symbols = {fresh} /\ new[1].uses = << >>  BY <2>3 DEF Declaration
  <2>8. Redeclares(tree, f, new, 1, fresh, m)
    BY <2>2, <2>5, <2>6, <2>7 DEF Redeclares, t
  <2>9. DeclaredOnce(after)  BY <1>1, <2>8, OneFileDeclaredOnce
  <2>10. ASSUME NEW j \in DOMAIN new, NEW u \in Range(new[j].uses)
         PROVE  \E i \in DOMAIN t : u \in Range(t[i].uses)
    <3>1. \A x : x \notin Range(<< >>)  BY DEF Range
    <3>2. j # 1  BY <2>7, <2>10, <3>1
    <3> QED  BY <2>5, <2>10, <3>2
  <2>11. ASSUME NEW o \in Symbols(t)  PROVE o \in Symbols(new)
    <3>1. PICK h \in DOMAIN t : o \in t[h].symbols  BY <2>11, SymbolsAt
    <3>2. PICK j \in 2 .. Len(t) + 1 : j - 1 = h
      <4>1. h + 1 \in 2 .. Len(t) + 1 /\ (h + 1) - 1 = h  BY <1>6, <3>1
      <4> QED  BY <4>1
    <3>3. new[j] = t[h] /\ j \in DOMAIN new  BY <1>6, <2>3, <3>2
    <3> QED  BY <3>1, <3>3, SymbolsAt
  <2>12. Symbols(t) \subseteq Symbols(new)  BY <2>11
  <2>13. \A j \in DOMAIN new : \A u \in Range(new[j].uses) :
            u \in Declared(tree) \/ \E i \in DOMAIN t : u \in Range(t[i].uses)
    BY <2>10
  <2> QED  BY <1>7, <2>9, <2>12, <2>13
<1> QED  BY <1>2, <1>3, <1>4, <1>8, <1>9

(* ... a file written by a rename, ...                                     *)
LEMMA RenameCompiles ==
  ASSUME TypeOK, RenameInv, WriteFile, call.at = "checked", ~ unseen
  PROVE  /\ DeclaredOnce(tree')
         /\ ~ torn /\ call'.at = "reindex" => UsesDeclared(tree', Gone')
<1> DEFINE s == call.tool[2]
           name == call.tool[3]
<1>1. index \in [Files -> Seq(Declarations)]  BY DEF TypeOK
<1>2. s \in Symbol /\ name \in Names
  <2>1. call.tool \in {"rename"} \X Symbol \X Names  BY CallParts
  <2> QED  BY <2>1
<1>3. /\ DeclaredOnce(index) /\ s \in Declared(index)
      /\ <<s[1], name>> \notin Declared(index)
      /\ ~ torn => UsesDeclared(index, Gone)
      /\ dropped' = dropped
  BY RenameWrites
<1>4. PICK f \in DOMAIN call.new :
         LET rest == DOMAIN call.new \ {f} IN
         /\ \A g \in Files \ rest : tree'[g] = Substituted(index, s, name)[g]
         /\ \A g \in rest : tree'[g] = index[g]
         /\ \/ rest = {} /\ call' = [at |-> "reindex"]
            \/ call' = Writing("checked", [g \in rest |-> call.data[g]],
                               [g \in rest |-> call.new[g]], call.tool, TRUE)
  BY RenameWrites
<1> HIDE DEF s, name
<1>5. \A g \in Files : SubstitutionOf(index[g], s, name, Substituted(index, s, name)[g])
  BY <1>1, <1>2, SubstitutedParts
<1>6. PICK files : files = tree'  OBVIOUS
<1>7. \A g \in Files : files[g] = index[g] \/ SubstitutionOf(index[g], s, name, files[g])
  BY <1>4, <1>5, <1>6
<1>8. DeclaredOnce(files)  BY <1>1, <1>3, <1>7, SubstitutedDeclaredOnce
<1>9. ASSUME ~ torn, call'.at = "reindex"
      PROVE  UsesDeclared(files, Gone)
  <2>1. DOMAIN call.new \ {f} = {}
    <3>1. ASSUME call' = Writing("checked", [g \in DOMAIN call.new \ {f} |-> call.data[g]],
                                 [g \in DOMAIN call.new \ {f} |-> call.new[g]],
                                 call.tool, TRUE)
          PROVE  FALSE
      <4>1. call'.at = "checked"  BY <3>1 DEF Writing
      <4> QED  BY <4>1, <1>9
    <3> QED  BY <1>4, <3>1
  <2>2. \A g \in Files : SubstitutionOf(index[g], s, name, files[g])
    BY <1>4, <1>5, <1>6, <2>1
  <2> QED  BY <1>1, <1>3, <1>9, <2>2, SubstitutedUsesDeclared
<1>10. Gone' = Gone  BY <1>3 DEF Gone
<1> QED  BY <1>6, <1>8, <1>9, <1>10

(* ... a file written by another tool, ...                                 *)
LEMMA WriteCompiles ==
  ASSUME TypeOK, WriteInv, WriteFile, call.at = "write", ~ unseen
  PROVE  /\ call'.at = "reindex"
         /\ DeclaredOnce(tree')
         /\ ~ torn => UsesDeclared(tree', Gone')
<1>1. PICK g \in Files :
         /\ DOMAIN call.new = {g}
         /\ DeclaredOnce([tree EXCEPT ![g] = call.new[g]])
         /\ ~ torn => UsesDeclared([tree EXCEPT ![g] = call.new[g]],
                 Gone \cup {d.symbol : d \in Siblings(call.data[g], call.new[g], call.tool)})
  BY DEF WriteInv
<1>2. DOMAIN call.new = DOMAIN call.data  BY CallParts
<1>3. PICK f \in DOMAIN call.data :
         /\ tree' = [tree EXCEPT ![f] = call.new[f]]
         /\ dropped' = dropped \cup Siblings(call.data[f], call.new[f], call.tool)
         /\ \/ DOMAIN call.data = {f} /\ call' = [at |-> "reindex"]
            \/ DOMAIN call.data \ {f} # {}
  BY WriteEffect
<1>4. f = g  BY <1>1, <1>2, <1>3
<1>5. call' = [at |-> "reindex"]  BY <1>1, <1>2, <1>3, <1>4
<1>6. Gone' = Gone \cup {d.symbol : d \in Siblings(call.data[g], call.new[g], call.tool)}
  <2> DEFINE lost == Siblings(call.data[g], call.new[g], call.tool)
  <2>1. dropped' = dropped \cup lost  BY <1>3, <1>4
  <2> HIDE DEF lost
  <2>2. Gone' = Gone \cup {d.symbol : d \in lost}  BY <2>1 DEF Gone
  <2> QED  BY <2>2 DEF lost
<1>7. tree' = [tree EXCEPT ![g] = call.new[g]]  BY <1>3, <1>4
<1>8. call'.at = "reindex"  BY <1>5
<1> QED  BY <1>1, <1>6, <1>7, <1>8

(* ... and every step keeps that so.                                       *)
LEMMA CodeStep ==
  ASSUME TypeOK, RenameInv, WriteInv, CodeInv, [Next]_vars
  PROVE  CodeInv'
<1>1. /\ ~ unseen => DeclaredOnce(tree)
      /\ ~ unseen /\ call.at = "begun" => index = tree
      /\ ~ unseen /\ ~ torn /\ call.at # "checked" => UsesDeclared(tree, Gone)
  BY DEF CodeInv
<1>2. ASSUME UNCHANGED <<tree, unseen, torn, dropped>>,
             call.at # "checked" \/ call'.at = "checked",
             call'.at = "begun" => (index' = tree' \/ UNCHANGED <<index, call>>)
      PROVE  CodeInv'
  <2>1. Gone' = Gone  BY <1>2 DEF Gone
  <2> QED  BY <1>1, <1>2, <2>1 DEF CodeInv
<1>3. CASE Edit
  <2>1. unseen' = (unseen \/ call # Idle) /\ UNCHANGED <<call, torn, dropped>>
    BY <1>3 DEF Edit
  <2>2. CASE unseen'  BY <2>2 DEF CodeInv
  <2>3. CASE ~ unseen'
    <3>1. ~ unseen /\ call = Idle  BY <2>1, <2>3
    <3>2. call.at = "idle" /\ call'.at = "idle"  BY <2>1, <3>1 DEF Idle
    <3>3. Gone' = Gone  BY <2>1 DEF Gone
    <3>4. DeclaredOnce(tree')  BY <1>1, <1>3, <3>1, EditCompiles
    <3>5. ~ torn => UsesDeclared(tree', Gone)  BY <1>1, <1>3, <3>1, <3>2, EditCompiles
    <3> QED  BY <2>1, <3>2, <3>3, <3>4, <3>5 DEF CodeInv
  <2> QED  BY <2>2, <2>3
<1>4. CASE Begin
  <2>1. call.at = "idle" /\ index' = tree /\ UNCHANGED <<tree, unseen, torn, dropped>>
    BY <1>4 DEF Begin, Idle
  <2> QED  BY <1>2, <2>1
<1>5. CASE Refuse
  <2>1. call.at \in {"begun", "planned"} /\ call'.at = "idle"
        /\ UNCHANGED <<tree, unseen, torn, dropped>>
    BY <1>5 DEF Refuse, Idle, history
  <2> QED  BY <1>2, <2>1
<1>6. CASE Decide
  <2>1. call.at = "begun" /\ UNCHANGED <<tree, unseen, torn, dropped>>
    BY <1>6 DEF Decide, history
  <2>2. PICK s \in Declared(index) : Change(s) \/ \E name \in Names : Plan(s, name)
    BY <1>6 DEF Decide
  <2>3. CASE Change(s)
    <3>1. PICK f, kind, k, new :
             /\ f \in Files /\ kind \in {"delete", "replace", "insert"}
             /\ call' = Writing("write", [g \in {f} |-> tree[f]], [g \in {f} |-> new],
                                <<kind, s>>, FALSE)
      BY <2>3, ChangeEffect
    <3>2. call'.at = "write"  BY <3>1 DEF Writing
    <3> QED  BY <1>2, <2>1, <3>2
  <2>4. ASSUME NEW name \in Names, Plan(s, name)
        PROVE  CodeInv'
    <3>1. call'.at = "planned"  BY <2>4 DEF Plan, Writing
    <3> QED  BY <1>2, <2>1, <3>1
  <2> QED  BY <2>2, <2>3, <2>4
<1>7. CASE Recheck
  <2>1. /\ call.at = "planned" /\ call'.at \in {"idle", "checked"}
        /\ UNCHANGED <<tree, unseen, torn, dropped>>
    BY <1>7 DEF Recheck, Writing, Idle, history
  <2> QED  BY <1>2, <2>1
<1>8. CASE WriteFile
  <2>1. call.at \in {"write", "checked"} /\ UNCHANGED <<unseen, torn>>
    BY <1>8 DEF WriteFile
  <2>2. call'.at # "begun"
    <3>1. PICK f \in DOMAIN call.data :
             \/ call' = [at |-> "reindex"]
             \/ call' = Writing(call.at, [g \in DOMAIN call.data \ {f} |-> call.data[g]],
                                [g \in DOMAIN call.data \ {f} |-> call.new[g]],
                                call.tool, TRUE)
      BY <1>8, WriteEffect
    <3> QED  BY <2>1, <3>1 DEF Writing
  <2>3. CASE unseen  BY <2>1, <2>3 DEF CodeInv
  <2>4. CASE call.at = "write" /\ ~ unseen
    <3>1. DeclaredOnce(tree') /\ (~ torn => UsesDeclared(tree', Gone'))
      BY <1>8, <2>4, WriteCompiles
    <3> QED  BY <2>1, <2>2, <3>1 DEF CodeInv
  <2>5. CASE call.at = "checked" /\ ~ unseen
    <3>1. DeclaredOnce(tree')  BY <1>8, <2>5, RenameCompiles
    <3>2. ~ torn /\ call'.at = "reindex" => UsesDeclared(tree', Gone')
      BY <1>8, <2>5, RenameCompiles
    <3>3. call'.at \in {"checked", "reindex"}
      <4>1. PICK f \in DOMAIN call.data :
               \/ call' = [at |-> "reindex"]
               \/ call' = Writing(call.at, [g \in DOMAIN call.data \ {f} |-> call.data[g]],
                                  [g \in DOMAIN call.data \ {f} |-> call.new[g]],
                                  call.tool, TRUE)
        BY <1>8, WriteEffect
      <4> QED  BY <2>5, <4>1 DEF Writing
    <3> QED  BY <2>1, <2>2, <3>1, <3>2, <3>3 DEF CodeInv
  <2> QED  BY <2>1, <2>3, <2>4, <2>5
<1>9. CASE WriteFails
  <2>1. /\ call.at \in {"write", "checked"} /\ call'.at = "idle"
        /\ torn' = (torn \/ call.part) /\ UNCHANGED <<tree, index, unseen, dropped>>
    BY <1>9 DEF WriteFails, Idle
  <2>2. Gone' = Gone  BY <2>1 DEF Gone
  <2>3. CASE unseen  BY <2>1, <2>3 DEF CodeInv
  <2>4. CASE call.at = "write"  BY <1>1, <2>1, <2>2, <2>4 DEF CodeInv
  <2>5. CASE call.at = "checked" /\ ~ unseen
    <3>1. ~ call.part => tree = index  BY <2>5 DEF RenameInv
    <3>2. ~ torn => UsesDeclared(index, Gone)  BY <2>5 DEF RenameInv
    <3> QED  BY <1>1, <2>1, <2>2, <2>5, <3>1, <3>2 DEF CodeInv
  <2> QED  BY <2>1, <2>3, <2>4, <2>5
<1>10. CASE Reindex
  <2>1. call.at = "reindex" /\ call'.at = "idle" /\ UNCHANGED <<tree, unseen, torn, dropped>>
    BY <1>10 DEF Reindex, Idle, history
  <2> QED  BY <1>2, <2>1
<1>11. CASE UNCHANGED vars
  <2>1. UNCHANGED <<tree, index, call, unseen, torn, dropped>>  BY <1>11 DEF vars, history
  <2> QED  BY <1>2, <2>1
<1> QED  BY <1>3, <1>4, <1>5, <1>6, <1>7, <1>8, <1>9, <1>10, <1>11 DEF Next

-----------------------------------------------------------------------------
(* Every use sees its symbol.                                              *)
LEMMA MoreShown ==
  ASSUME NEW f, NEW t, NEW shown, NEW all, VisibleIn(f, t, shown), shown \subseteq all
  PROVE  VisibleIn(f, t, all)
BY DEF VisibleIn

(* What uses nothing new but what it sees.                                 *)
LEMMA StaysVisible ==
  ASSUME NEW f, NEW t, NEW new, NEW shown, VisibleIn(f, t, shown),
         \A j \in DOMAIN new : \A u \in Range(new[j].uses) :
            Visible(f, u) \/ \E k \in DOMAIN t : u \in Range(t[k].uses)
  PROVE  VisibleIn(f, new, shown)
BY DEF VisibleIn

LEMMA EditVisible ==
  ASSUME TypeOK, Edit, UsesVisible(tree, hidden)
  PROVE  UsesVisible(tree', hidden)
<1>1. tree \in [Files -> Seq(Declarations)] /\ edits' \in Nat  BY DEF TypeOK, Edit
<1>2. PICK f \in Files :
         /\ \A g \in Files \ {f} : tree'[g] = tree[g]
         /\ \/ \E k \in DOMAIN tree[f], s \in Usable(tree, f) :
                  tree'[f] = UseAdded(tree[f], k, s, edits')
            \/ \E name \in Names :
                  /\ <<Package(f), name>> \notin Declared(tree)
                  /\ tree'[f] = DeclarationAdded(tree[f], <<Package(f), name>>, edits')
  BY EditEffect
<1> DEFINE t == tree[f]
<1>3. t \in Seq(Declarations)  BY <1>1
<1>4. Len(t) \in Nat /\ DOMAIN t = 1 .. Len(t)  BY <1>3, DomainOfText
<1>5. PICK new : new = tree'[f]  OBVIOUS
<1>6. PICK e \in Nat : e = edits'  BY <1>1
<1>7. ASSUME NEW k \in DOMAIN t, NEW s \in Usable(tree, f), new = UseAdded(t, k, s, e)
      PROVE  \A j \in DOMAIN new : \A u \in Range(new[j].uses) :
                Visible(f, u) \/ \E i \in DOMAIN t : u \in Range(t[i].uses)
  <2>1. s \in Symbol /\ Visible(f, s)  BY <1>1, DeclaredSymbol DEF Usable
  <2> HIDE DEF t
  <2>2. DOMAIN UseAdded(t, k, s, e) = DOMAIN t  BY <1>3, <2>1, UseAddedParts
  <2>3. \A j \in DOMAIN t :
           Range(UseAdded(t, k, s, e)[j].uses) \subseteq Range(t[j].uses) \cup {s}
    BY <1>3, <2>1, UseAddedParts
  <2> QED  BY <1>7, <2>1, <2>2, <2>3
<1>8. ASSUME NEW name \in Names, new = DeclarationAdded(t, <<Package(f), name>>, e)
      PROVE  \A j \in DOMAIN new : \A u \in Range(new[j].uses) :
                Visible(f, u) \/ \E i \in DOMAIN t : u \in Range(t[i].uses)
  <2> DEFINE fresh == <<Package(f), name>>
  <2>1. fresh \in Symbol /\ new = DeclarationAdded(t, fresh, e)  BY <1>8, PackageSymbol
  <2> HIDE DEF t, fresh
  <2>2. /\ DOMAIN new = 1 .. Len(t) + 1
        /\ new[1] = Declaration(fresh, {e})
        /\ \A j \in 2 .. Len(t) + 1 : new[j] = t[j - 1]
    BY <1>3, <2>1, DeclarationAddedParts
  <2>3. new[1].uses = << >>  BY <2>2 DEF Declaration
  <2>4. \A x : x \notin Range(<< >>)  BY DEF Range
  <2>5. ASSUME NEW j \in DOMAIN new, NEW u \in Range(new[j].uses)
        PROVE  \E i \in DOMAIN t : u \in Range(t[i].uses)
    <3>1. j # 1  BY <2>3, <2>4, <2>5
    <3>2. PICK i \in DOMAIN t : i = j - 1  BY <1>4, <2>2, <3>1
    <3>3. new[j] = t[i]  BY <1>4, <2>2, <3>1, <3>2
    <3> QED  BY <2>5, <3>3
  <2> QED  BY <2>5
<1>9. \A j \in DOMAIN new : \A u \in Range(new[j].uses) :
         Visible(f, u) \/ \E i \in DOMAIN t : u \in Range(t[i].uses)
  BY <1>2, <1>5, <1>6, <1>7, <1>8
<1> HIDE DEF t
<1>10. ASSUME NEW g \in Files \ TestFiles
       PROVE  VisibleIn(g, tree'[g], hidden)
  <2>1. VisibleIn(g, tree[g], hidden)  BY DEF UsesVisible
  <2>2. CASE g = f
    <3>1. VisibleIn(f, t, hidden)  BY <2>1, <2>2 DEF t
    <3>2. VisibleIn(f, new, hidden)  BY <1>9, <3>1, StaysVisible
    <3> QED  BY <1>5, <2>2, <3>2
  <2>3. CASE g # f  BY <1>2, <2>1, <2>3
  <2> QED  BY <2>2, <2>3
<1> QED  BY <1>10 DEF UsesVisible

(* A deletion, a replacement and an insertion use what they see.           *)
LEMMA ChangeVisible ==
  ASSUME TypeOK, NEW shown, NEW f \in Files, VisibleIn(f, tree[f], shown),
         NEW s \in Symbol, NEW k, NEW kind, NEW new, Changes(f, k, s, kind, new)
  PROVE  VisibleIn(f, new, shown)
<1> DEFINE t == tree[f]
<1>1. tree \in [Files -> Seq(Declarations)]  BY DEF TypeOK
<1>2. t \in Seq(Declarations) /\ k \in DOMAIN t  BY <1>1 DEF Changes
<1>3. Len(t) \in Nat /\ DOMAIN t = 1 .. Len(t)  BY <1>2, DomainOfText
<1>4. SUFFICES \A j \in DOMAIN new : \A u \in Range(new[j].uses) :
                  Visible(f, u) \/ \E i \in DOMAIN t : u \in Range(t[i].uses)
  BY StaysVisible
<1> HIDE DEF t
<1>5. CASE new = Deleted(t, k)
  <2>1. /\ DOMAIN new = 1 .. Len(t) - 1
        /\ \A j \in 1 .. Len(t) - 1 : new[j] = IF j < k THEN t[j] ELSE t[j + 1]
    BY <1>2, <1>5, DeletedParts
  <2>2. \A j \in DOMAIN new : \E i \in DOMAIN t : new[j] = t[i]  BY <1>2, <1>3, <2>1
  <2> QED  BY <2>2
<1>6. ASSUME NEW used \in Usable(tree, f), new = Replaced(t, k, <<used>>)
      PROVE  \A j \in DOMAIN new : \A u \in Range(new[j].uses) :
                Visible(f, u) \/ \E i \in DOMAIN t : u \in Range(t[i].uses)
  <2>1. used \in Symbol /\ Visible(f, used)  BY <1>1, DeclaredSymbol DEF Usable
  <2>2. <<used>> \in Seq(Symbol)  BY <2>1
  <2>3. /\ DOMAIN new = DOMAIN t
        /\ new[k].uses = <<used>>
        /\ \A j \in DOMAIN t : j # k => new[j] = t[j]
    BY <1>2, <1>6, <2>2, ReplacedParts
  <2>4. Range(<<used>>) = {used}  BY DEF Range
  <2>5. ASSUME NEW j \in DOMAIN new, NEW u \in Range(new[j].uses)
        PROVE  Visible(f, u) \/ \E i \in DOMAIN t : u \in Range(t[i].uses)
    <3>1. CASE j = k  BY <2>1, <2>3, <2>4, <2>5, <3>1
    <3>2. CASE j # k  BY <2>3, <2>5, <3>2
    <3> QED  BY <3>1, <3>2
  <2> QED  BY <2>5
<1>7. ASSUME NEW behind \in BOOLEAN, NEW name \in Names,
             new = Inserted(t, k, behind, <<s[1], name>>)
      PROVE  \A j \in DOMAIN new : \A u \in Range(new[j].uses) :
                \E i \in DOMAIN t : u \in Range(t[i].uses)
  <2> DEFINE fresh == <<s[1], name>>
  <2>1. fresh \in Symbol  BY SymbolParts
  <2>2. new = Inserted(t, k, behind, fresh)  BY <1>7
  <2> HIDE DEF fresh
  <2>3. DOMAIN new = 1 .. Len(t) + 1  BY <1>2, <2>1, <2>2, InsertedParts
  <2>4. PICK i \in 1 .. Len(t) + 1 : InsertionOf(t, i, fresh, new)
    BY <1>2, <2>1, <2>2, InsertedParts
  <2>5. \A j \in 1 .. Len(t) + 1 : /\ j < i => new[j] = t[j]
                                   /\ j = i => new[j] = Declaration(fresh, {})
                                   /\ j > i => new[j] = t[j - 1]
    BY <2>4 DEF InsertionOf
  <2>6. new[i].uses = << >>
    <3>1. new[i] = Declaration(fresh, {})  BY <1>3, <2>5
    <3> QED  BY <3>1 DEF Declaration
  <2>7. ASSUME NEW j \in DOMAIN new, NEW u \in Range(new[j].uses)
        PROVE  \E h \in DOMAIN t : u \in Range(t[h].uses)
    <3>0. \A x : x \notin Range(<< >>)  BY DEF Range
    <3>1. j # i  BY <2>6, <2>7, <3>0
    <3>2. \E h \in DOMAIN t : new[j] = t[h]  BY <1>3, <2>3, <2>5, <3>1
    <3> QED  BY <2>7, <3>2
  <2> QED  BY <2>7
<1> QED  BY <1>5, <1>6, <1>7 DEF Changes, t

(* A renamed use sees the new name, or the rename hides it.                *)
LEMMA SubstitutedVisible ==
  ASSUME NEW files \in [Files -> Seq(Declarations)], NEW s \in Symbol, NEW name \in Names,
         NEW f \in Files, NEW shown, NEW all, VisibleIn(f, files[f], shown),
         shown \subseteq all,
         \A k \in DOMAIN files[f] : \A c \in DOMAIN files[f][k].uses :
            files[f][k].uses[c] = s =>
               Visible(f, <<s[1], name>>) \/ <<s[1], name>> \in all
  PROVE  VisibleIn(f, Substituted(files, s, name)[f], all)
<1> DEFINE t == files[f]
<1>1. PICK new : new = Substituted(files, s, name)[f]  OBVIOUS
<1>2. SubstitutionOf(t, s, name, new)  BY <1>1, SubstitutedParts
<1> HIDE DEF t
<1>3. ASSUME NEW k \in DOMAIN new, NEW u \in Range(new[k].uses)
      PROVE  Visible(f, u) \/ u \in all
  <2>1. k \in DOMAIN t /\ DOMAIN new[k].uses = DOMAIN t[k].uses  BY <1>2 DEF SubstitutionOf
  <2>2. PICK c \in DOMAIN t[k].uses : u = new[k].uses[c]  BY <1>3, <2>1 DEF Range
  <2>3. CASE t[k].uses[c] = s
    <3>1. u = <<s[1], name>>  BY <1>2, <2>1, <2>2, <2>3 DEF SubstitutionOf
    <3> QED  BY <2>1, <2>3, <3>1 DEF t
  <2>4. CASE t[k].uses[c] # s
    <3>1. u = t[k].uses[c]  BY <1>2, <2>1, <2>2, <2>4 DEF SubstitutionOf
    <3>2. u \in Range(t[k].uses)  BY <3>1 DEF Range
    <3>3. Visible(f, u) \/ u \in shown  BY <2>1, <3>2 DEF VisibleIn, t
    <3> QED  BY <3>3
  <2> QED  BY <2>3, <2>4
<1> QED  BY <1>1, <1>3 DEF VisibleIn

LEMMA PlanVisible ==
  ASSUME TypeOK, CodeInv, VisibleInv, RenameInv', call.at = "begun", ~ unseen,
         NEW s \in Declared(index), NEW name \in Names, Plan(s, name),
         UNCHANGED <<tree, index, unseen, hidden>>
  PROVE  \A f \in DOMAIN call'.new \ TestFiles :
            VisibleIn(f, call'.new[f], hidden \cup Hidden(call.tool)')
<1>1. /\ index \in [Files -> Seq(Declarations)] /\ index = tree
      /\ UsesVisible(tree, hidden)
  BY DEF TypeOK, CodeInv, VisibleInv
<1>2. s \in Symbol  BY <1>1, DeclaredSymbol
<1>3. PICK files, data, new :
         /\ files \in SUBSET Files
         /\ new \in [files -> Seq(Declarations)]
         /\ call' = Writing("planned", data, new, <<"rename", s, name>>, FALSE)
  BY PlanEffect
<1>4. /\ call'.at = "planned" /\ call'.new = new /\ DOMAIN new = files
      /\ call'.tool = <<"rename", s, name>>
  BY <1>3 DEF Writing
<1>5. \A f \in files : new[f] = Substituted(index, s, name)[f]
  BY <1>4 DEF RenameInv
<1> DEFINE all == hidden \cup Hidden(<<"rename", s, name>>)
<1>6. ASSUME NEW f \in Files, NEW k \in DOMAIN index[f], NEW c \in DOMAIN index[f][k].uses,
             index[f][k].uses[c] = s
      PROVE  Visible(f, <<s[1], name>>) \/ <<s[1], name>> \in all
  <2>1. <<f, k, c>> \in Sites(index, s)  BY <1>6, SitesAt
  <2>2. <<f, k, c>>[1] = f  OBVIOUS
  <2>3. CASE Package(f) = s[1]  BY <2>3 DEF Visible
  <2>4. CASE Package(f) # s[1]
    <3>1. UsedElsewhere(s)  BY <2>1, <2>2, <2>4 DEF UsedElsewhere
    <3>2. s[2] \in Exported  BY <3>1 DEF Plan, Invisible
    <3>3. CASE name \in Exported  BY <3>3 DEF Visible
    <3>4. CASE name \notin Exported
      <4>1. Hidden(<<"rename", s, name>>) = {<<s[1], name>>}
        BY <3>1, <3>2, <3>4 DEF Hidden
      <4> QED  BY <4>1
    <3> QED  BY <3>3, <3>4
  <2> QED  BY <2>3, <2>4
<1>7. Hidden(call.tool)' = Hidden(<<"rename", s, name>>)
  BY <1>4 DEF Hidden, UsedElsewhere
<1>8. hidden \subseteq all  OBVIOUS
<1> HIDE DEF all
<1>9. ASSUME NEW f \in files \ TestFiles
      PROVE  VisibleIn(f, new[f], all)
  <2>1. f \in Files  BY <1>3
  <2>2. VisibleIn(f, index[f], hidden)  BY <1>1, <2>1 DEF UsesVisible
  <2>3. VisibleIn(f, Substituted(index, s, name)[f], all)
    BY <1>1, <1>2, <1>6, <1>8, <2>1, <2>2, SubstitutedVisible
  <2> QED  BY <1>5, <2>3
<1> QED  BY <1>4, <1>7, <1>9 DEF all

(* A file is written, and what the rename hides is noted.                  *)
LEMMA WriteVisible ==
  ASSUME TypeOK, VisibleInv, WriteFile, ~ unseen
  PROVE  VisibleInv'
<1>1. /\ call.at \in {"planned", "checked", "write"}
      /\ index' = index /\ unseen' = unseen
  BY DEF WriteFile
<1>2. /\ UsesVisible(tree, hidden)
      /\ \A f \in DOMAIN call.new \ TestFiles :
            VisibleIn(f, call.new[f], hidden \cup Hidden(call.tool))
  BY <1>1 DEF VisibleInv
<1>3. tree \in [Files -> Seq(Declarations)] /\ DOMAIN call.new = DOMAIN call.data
  BY <1>1, CallParts DEF TypeOK
<1>4. PICK f \in DOMAIN call.data :
         /\ f \in Files
         /\ tree' = [tree EXCEPT ![f] = call.new[f]]
         /\ hidden' = hidden \cup Hidden(call.tool)
         /\ \/ DOMAIN call.data = {f} /\ call' = [at |-> "reindex"]
            \/ call' = Writing(call.at, [g \in DOMAIN call.data \ {f} |-> call.data[g]],
                               [g \in DOMAIN call.data \ {f} |-> call.new[g]],
                               call.tool, TRUE)
  BY WriteEffect
<1>5. ASSUME NEW g \in Files \ TestFiles
      PROVE  VisibleIn(g, tree'[g], hidden')
  <2>1. CASE g = f  BY <1>2, <1>3, <1>4, <2>1
  <2>2. CASE g # f
    <3>1. VisibleIn(g, tree[g], hidden) /\ tree'[g] = tree[g]
      BY <1>2, <1>3, <1>4, <2>2 DEF UsesVisible
    <3>2. hidden \subseteq hidden'  BY <1>4
    <3> QED  BY <3>1, <3>2, MoreShown
  <2> QED  BY <2>1, <2>2
<1>6. UsesVisible(tree', hidden')  BY <1>5 DEF UsesVisible
<1>7. CASE call' = [at |-> "reindex"]
  <2>1. call'.at = "reindex"  BY <1>7
  <2> QED  BY <1>6, <2>1 DEF VisibleInv
<1>8. CASE call' = Writing(call.at, [g \in DOMAIN call.data \ {f} |-> call.data[g]],
                           [g \in DOMAIN call.data \ {f} |-> call.new[g]],
                           call.tool, TRUE)
  <2>1. /\ call'.tool = call.tool
        /\ call'.new = [g \in DOMAIN call.data \ {f} |-> call.new[g]]
    BY <1>8 DEF Writing
  <2>2. Hidden(call.tool)' = Hidden(call.tool)
    BY <1>1, <2>1 DEF Hidden, UsedElsewhere
  <2>3. hidden' \cup Hidden(call.tool)' = hidden \cup Hidden(call.tool)  BY <1>4, <2>2
  <2>4. \A g \in DOMAIN call'.new \ TestFiles :
           VisibleIn(g, call'.new[g], hidden \cup Hidden(call.tool))
    BY <1>2, <1>3, <2>1
  <2>5. \A g \in DOMAIN call'.new \ TestFiles :
           VisibleIn(g, call'.new[g], hidden' \cup Hidden(call.tool)')
    BY <2>3, <2>4
  <2> QED  BY <1>6, <2>5 DEF VisibleInv
<1> QED  BY <1>4, <1>7, <1>8

LEMMA VisibleStep ==
  ASSUME TypeOK, CodeInv, RenameInv', VisibleInv, [Next]_vars
  PROVE  VisibleInv'
<1>1. ASSUME unseen'
      PROVE  VisibleInv'
  BY <1>1 DEF VisibleInv
<1>2. ~ unseen => UsesVisible(tree, hidden)  BY DEF VisibleInv
<1>3. ASSUME UNCHANGED <<tree, unseen, hidden>>,
             call'.at \notin {"planned", "checked", "write"}
      PROVE  VisibleInv'
  BY <1>2, <1>3 DEF VisibleInv
<1>4. CASE Edit
  <2>1. unseen' = (unseen \/ call # Idle) /\ UNCHANGED <<call, hidden>>
    BY <1>4 DEF Edit
  <2>2. CASE ~ unseen'
    <3>1. ~ unseen /\ call = Idle  BY <2>1, <2>2
    <3>2. call'.at = "idle"  BY <2>1, <3>1 DEF Idle
    <3>3. UsesVisible(tree', hidden)  BY <1>2, <1>4, <3>1, EditVisible
    <3> QED  BY <2>1, <3>2, <3>3 DEF VisibleInv
  <2> QED  BY <1>1, <2>2
<1>5. CASE Begin
  <2>1. call'.at = "begun" /\ UNCHANGED <<tree, unseen, hidden>>  BY <1>5 DEF Begin
  <2> QED  BY <1>3, <2>1
<1>6. CASE Refuse \/ WriteFails \/ Reindex
  <2>1. call'.at = "idle" /\ UNCHANGED <<tree, unseen, hidden>>
    BY <1>6 DEF Refuse, WriteFails, Reindex, Idle, history
  <2> QED  BY <1>3, <2>1
<1>7. CASE Decide
  <2>1. UNCHANGED <<tree, index, unseen, hidden>> /\ call.at = "begun"
    BY <1>7 DEF Decide, history
  <2>2. PICK s \in Declared(index) : Change(s) \/ \E name \in Names : Plan(s, name)
    BY <1>7 DEF Decide
  <2>3. CASE unseen  BY <1>1, <2>1, <2>3
  <2>4. CASE Change(s) /\ ~ unseen
    <3>1. PICK f, kind, k, new :
             /\ f \in Files /\ kind \in {"delete", "replace", "insert"}
             /\ Changes(f, k, s, kind, new)
             /\ call' = Writing("write", [g \in {f} |-> tree[f]], [g \in {f} |-> new],
                                <<kind, s>>, FALSE)
      BY <2>4, ChangeEffect
    <3>2. s \in Symbol  BY DeclaredSymbol DEF TypeOK
    <3>3. /\ call'.new = [g \in {f} |-> new] /\ DOMAIN call'.new = {f}
          /\ call'.new[f] = new
      BY <3>1 DEF Writing
    <3>4. ASSUME f \notin TestFiles
          PROVE  VisibleIn(f, new, hidden)
      <4>1. VisibleIn(f, tree[f], hidden)  BY <1>2, <2>4, <3>1, <3>4 DEF UsesVisible
      <4> QED  BY <3>1, <3>2, <4>1, ChangeVisible
    <3>5. ASSUME NEW g \in DOMAIN call'.new \ TestFiles
          PROVE  VisibleIn(g, call'.new[g], hidden' \cup Hidden(call.tool)')
      <4>1. g = f /\ call'.new[g] = new  BY <3>3
      <4>2. VisibleIn(g, call'.new[g], hidden)  BY <3>4, <3>5, <4>1
      <4>3. hidden \subseteq hidden' \cup Hidden(call.tool)'  BY <2>1
      <4> QED  BY <4>2, <4>3, MoreShown
    <3> QED  BY <1>2, <2>1, <2>4, <3>5 DEF VisibleInv
  <2>5. ASSUME NEW name \in Names, Plan(s, name), ~ unseen
        PROVE  VisibleInv'
    <3>1. \A f \in DOMAIN call'.new \ TestFiles :
             VisibleIn(f, call'.new[f], hidden \cup Hidden(call.tool)')
      BY <2>1, <2>5, PlanVisible
    <3>2. \A f \in DOMAIN call'.new \ TestFiles :
             VisibleIn(f, call'.new[f], hidden' \cup Hidden(call.tool)')
      BY <2>1, <3>1
    <3> QED  BY <1>2, <2>1, <2>5, <3>2 DEF VisibleInv
  <2> QED  BY <2>2, <2>3, <2>4, <2>5
<1>8. CASE Recheck
  <2>1. UNCHANGED <<tree, index, unseen, hidden>> /\ call.at = "planned"
    BY <1>8 DEF Recheck, history
  <2>2. CASE call' = Idle
    <3>1. call'.at = "idle"  BY <2>2 DEF Idle
    <3> QED  BY <1>3, <2>1, <3>1
  <2>3. CASE call' = Writing("checked", call.data, call.new, call.tool, call.part)
    <3>1. call'.new = call.new /\ call'.tool = call.tool  BY <2>3 DEF Writing
    <3>2. Hidden(call.tool)' = Hidden(call.tool)
      BY <2>1, <3>1 DEF Hidden, UsedElsewhere
    <3>3. hidden' \cup Hidden(call.tool)' = hidden \cup Hidden(call.tool)
      BY <2>1, <3>2
    <3>4. ~ unseen => \A f \in DOMAIN call.new \ TestFiles :
                         VisibleIn(f, call.new[f], hidden \cup Hidden(call.tool))
      BY <2>1 DEF VisibleInv
    <3>5. ~ unseen => \A f \in DOMAIN call'.new \ TestFiles :
                 VisibleIn(f, call'.new[f], hidden' \cup Hidden(call.tool)')
      BY <3>1, <3>3, <3>4
    <3> QED  BY <1>2, <2>1, <3>5 DEF VisibleInv
  <2> QED  BY <1>8, <2>2, <2>3 DEF Recheck
<1>9. CASE WriteFile
  <2>1. unseen' = unseen  BY <1>9 DEF WriteFile
  <2> QED  BY <1>1, <1>9, <2>1, WriteVisible
<1>10. CASE UNCHANGED vars
  <2>1. UNCHANGED <<tree, index, call, unseen, hidden>>  BY <1>10 DEF vars, history
  <2>2. Hidden(call.tool)' = Hidden(call.tool)  BY <2>1 DEF Hidden, UsedElsewhere
  <2> QED  BY <2>1, <2>2 DEF VisibleInv
<1> QED  BY <1>4, <1>5, <1>6, <1>7, <1>8, <1>9, <1>10 DEF Next

LEMMA WritesInit ==
  ASSUME Init
  PROVE  WritesInv
<1>1. call.at = "idle" /\ dropped = {} /\ hidden = {}  BY DEF Init, Idle
<1>2. RenameInv /\ WriteInv  BY <1>1 DEF RenameInv, WriteInv
<1>3. CodeInv
  <2>1. Gone = {}  BY <1>1 DEF Gone
  <2>2. tree = Source  BY DEF Init
  <2> QED  BY <1>1, <2>1, <2>2, SourceAssumption DEF CodeInv
<1>4. VisibleInv
  <2>1. tree = Source  BY DEF Init
  <2> QED  BY <1>1, <2>1, SourceAssumption DEF VisibleInv
<1> QED  BY <1>2, <1>3, <1>4, TypesInit, EditsInit DEF WritesInv

LEMMA WritesStep ==
  ASSUME WritesInv, [Next]_vars
  PROVE  WritesInv'
<1>1. TypeOK /\ EditsInv /\ RenameInv /\ WriteInv /\ CodeInv /\ VisibleInv
  BY DEF WritesInv
<1>2. TypeOK' /\ EditsInv'  BY <1>1, TypesStep, EditsStep
<1>3. RenameInv' /\ WriteInv' /\ CodeInv'  BY <1>1, RenameStep, WriteStep, CodeStep
<1>4. VisibleInv'  BY <1>1, <1>3, VisibleStep
<1> QED  BY <1>2, <1>3, <1>4 DEF WritesInv

-----------------------------------------------------------------------------
(* Theorems.                                                               *)

(* No edit is lost but one that came after the last look a call took at    *)
(* its file or was made in what the call replaces, and a delete drops no   *)
(* sibling of a group in parentheses (rename.go:141, write.go:231).        *)
THEOREM EditsAreKept == Spec => []NothingLost
<1>1. Init => WritesInv  BY WritesInit
<1>2. WritesInv /\ [Next]_vars => WritesInv'  BY WritesStep
<1>3. WritesInv => NothingLost  BY DEF WritesInv, EditsInv
<1> QED  BY <1>1, <1>2, <1>3, PTL DEF Spec

(* Whatever is deleted, replaced, inserted and renamed, the code outside   *)
(* tests uses what is declared and what it sees, and declares nothing      *)
(* twice, as long as no edit falls into a call and no rename stops between *)
(* two files; but for what went with a deleted declaration and for the     *)
(* names a rename has hidden (write.go: DeleteSymbol, ReplaceSymbol,       *)
(* InsertSymbol; rename.go).                                               *)
THEOREM CodeGoesOnCompiling == Spec => []CodeCompiles
<1>1. Init => WritesInv  BY WritesInit
<1>2. WritesInv /\ [Next]_vars => WritesInv'  BY WritesStep
<1>3. WritesInv => CodeCompiles
  <2>1. ASSUME WritesInv, call = Idle, ~ unseen, ~ torn
        PROVE  /\ DeclaredOnce(tree)
               /\ UsesDeclared(tree, {d.symbol : d \in dropped})
               /\ UsesVisible(tree, hidden)
    <3>1. call.at = "idle"  BY <2>1 DEF Idle
    <3> QED  BY <2>1, <3>1 DEF WritesInv, CodeInv, VisibleInv, Gone
  <2> QED  BY <2>1 DEF CodeCompiles
<1> QED  BY <1>1, <1>2, <1>3, PTL DEF Spec

(* A rename that runs through with no edit meanwhile leaves the indexed    *)
(* tree with the symbol replaced wherever it stands, and nothing else      *)
(* changed: one edge position for every use is what that rests on          *)
(* (rename.go: PlanRename, ApplyRename).                                   *)
THEOREM RenamesAreExact == Spec => RenameExact
<1>1. Init => WritesInv  BY WritesInit
<1>2. WritesInv /\ [Next]_vars => WritesInv'  BY WritesStep
<1>3. WritesInv /\ [Next]_vars =>
         [(call.at = "checked" /\ call'.at = "reindex" /\ ~ unseen) =>
             tree' = Substituted(index, call.tool[2], call.tool[3])]_vars
  BY RenameEnds DEF WritesInv
<1> QED  BY <1>1, <1>2, <1>3, PTL DEF Spec, RenameExact
=============================================================================
