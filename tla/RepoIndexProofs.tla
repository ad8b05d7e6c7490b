--------------------------- MODULE RepoIndexProofs ---------------------------
(***************************************************************************)
(* Three results about the index of a repository: what a fingerprint or a search    *)
(* says of a file is so; the types, and with them how many rows a file has; and that  *)
(* _chunk_text leaves no line out.                                             *)
(*                                                                         *)
(* The first is for any files, processes, collections, edits, budgets, failures and   *)
(* restarts.  The argument: a version is given once, so a fingerprint that names the    *)
(* version of the tree comes from a call that walked after the last edit.  A call that    *)
(* is under way since before has, by the time that one saves, the file in its `stale',    *)
(* for the collection both are on or for another; and then its own collection is one      *)
(* that the fingerprint passed over (`elsewhere').                                *)
(***************************************************************************)
EXTENDS MCRepoIndex, TLAPS

Files(s, f) == {r \in s : r.file = f}   \* the rows of f in s

Calls == [pc : {"idle", "read", "open", "write", "record", "answer"},
          coll : Coll, search : BOOLEAN, new : [File -> Version],
          changed : SUBSET File, removed : SUBSET File,
          text : [File -> Version], col : SUBSET Row]

TypeInv ==
  /\ src \in [File -> Version] /\ edits \in Version
  /\ rows \in [Coll -> SUBSET Row]
  /\ fp \in [Proc -> [File -> Version]] /\ fpfile \in [File -> Version]
  /\ call \in [Proc -> Calls]
  /\ passed \in [Proc -> SUBSET File] /\ stale \in [Proc -> SUBSET (Coll \X File)]

(* No version is from the future.                                             *)
Past(vs) == \A f \in File : vs[f] <= edits
InPast ==
  /\ Past(src) /\ Past(fpfile)
  /\ \A p \in Proc : Past(fp[p]) /\ Past(call[p].new) /\ Past(call[p].text)

(* A search indexes into the default collection.                                 *)
SearchesDefault == \A p \in Proc : call[p].search => call[p].coll = Default

IsUnsaved(p) == call[p].pc \in Unsaved
HasText(p, f) == call[p].pc \in {"open", "write"} /\ call[p].text[f] # 0

(* What a call has found out: what it does not count as changed has the old stamp.  *)
WalkRight ==
  \A p \in Proc : IsUnsaved(p) => \A f \in File :
    /\ f \in call[p].changed => call[p].new[f] # 0
    /\ f \in call[p].removed => call[p].new[f] = 0
    /\ call[p].new[f] # 0 /\ f \notin call[p].changed => fp[p][f] = call[p].new[f]

StampRight ==
  \A p \in Proc : IsUnsaved(p) \/ call[p].pc = "record" =>
    \A f \in File \ passed[p] : call[p].new[f] = src[f]

TextRight ==
  \A p \in Proc : \A f \in File :
    /\ HasText(p, f) => f \in call[p].changed
    /\ HasText(p, f) /\ call[p].new[f] = src[f] => call[p].text[f] = src[f]

(* A fingerprint names the version of the tree, or is about to.                     *)
Named(f) ==
  \/ fpfile[f] = src[f]
  \/ \E p \in Proc : fp[p][f] = src[f] \/ (call[p].pc = "record" /\ call[p].new[f] = src[f])

NamedIsFresh == \A c \in Coll : \A f \in Present \ Excused(c) : Named(f) => Fresh(c, f)

(* What a call missed that has an old text of f: a save in its collection, or that of      *)
(* a call on another one, whose fingerprint passes over its collection.               *)
Missed(p, f) ==
  LET c == call[p].coll
  IN  <<c, f>> \in stale[p] \/ (<<c, f>> \in elsewhere /\ f \in Late(p))

OldTextIsStale ==
  \A f \in Present : Named(f) =>
    \A p \in Proc : HasText(p, f) /\ call[p].text[f] # src[f] => Missed(p, f)

(* A search that has saved, and one that saved with f gone.                         *)
Saved(p) == call[p].pc = "answer" \/ (call[p].pc = "record" /\ call[p].search)
Gone(f)  == src[f] = 0 /\ \E p \in Proc : Saved(p) /\ f \in call[p].removed \ passed[p]

(* The rows of f in c are what some call has promised.                             *)
Promised(c, f) == (f \in Present /\ Named(f)) \/ (c = Default /\ Gone(f))

(* The copy a call works on, but for what others wrote since.                      *)
CopyRight ==
  \A p \in Proc, c \in Coll : call[p].pc = "write" /\ call[p].coll = c =>
    \A f \in File \ Excused(c) :
      <<c, f>> \notin stale[p] /\ Promised(c, f) => Files(call[p].col, f) = RowsOf(c, f)

AnswerNamed ==
  \A p \in Proc : call[p].pc = "answer" => \A f \in Present \ passed[p] : fp[p][f] = src[f]

SavedIsFresh ==
  \A p \in Proc : Saved(p) =>
    \A f \in File \ (passed[p] \cup Excused(Default)) :
      f \in Present \cup call[p].removed => Fresh(Default, f)

(* A call that read a file before it went has to save over the search that saw it gone.  *)
RemovedIsStale ==
  \A f \in File : Gone(f) =>
    \A q \in Proc : HasText(q, f) /\ call[q].coll = Default => <<Default, f>> \in stale[q]

IInv ==
  /\ TypeInv /\ InPast /\ SearchesDefault /\ WalkRight /\ StampRight /\ TextRight
  /\ NamedIsFresh /\ OldTextIsStale /\ CopyRight
  /\ AnswerNamed /\ SavedIsFresh /\ RemovedIsStale

-----------------------------------------------------------------------------
(* The tree changes.                                                          *)

LEMMA TreeKeeps ==
  ASSUME IInv, NEW g \in File, NEW v \in Version, v = 0 \/ v > edits,
         src' = [src EXCEPT ![g] = v], edits' \in Version, edits <= edits', v <= edits', Touch(g)
  PROVE  IInv'
<1>1. /\ rows' = rows /\ fp' = fp /\ fpfile' = fpfile /\ call' = call /\ stale' = stale
      /\ \A c \in Coll, f \in File : f # g =>
           /\ <<c, f>> \in spoiled' <=> <<c, f>> \in spoiled
           /\ <<c, f>> \in elsewhere' <=> <<c, f>> \in elsewhere
      /\ passed' = [p \in Proc |-> IF call[p].pc = "idle" THEN {} ELSE passed[p] \cup {g}]
  BY DEF Touch, index
<1>2. /\ src \in [File -> Version] /\ edits \in Version /\ passed \in [Proc -> SUBSET File]
      /\ fpfile \in [File -> Version] /\ fp \in [Proc -> [File -> Version]]
      /\ \A p \in Proc : call[p] \in Calls
  BY DEF IInv, TypeInv
<1>3. src'[g] = v /\ \A f \in File : f # g => src'[f] = src[f]
  BY <1>2
<1>4. \A p \in Proc : call[p].pc # "idle" => passed'[p] = passed[p] \cup {g}
  BY <1>1
<1>5. /\ edits \in Nat /\ edits' \in Nat
      /\ \A f \in File : fpfile[f] \in Nat /\ fpfile[f] <= edits
      /\ \A p \in Proc, f \in File :
           /\ fp[p][f] \in Nat /\ fp[p][f] <= edits
           /\ call[p].new[f] \in Nat /\ call[p].new[f] <= edits
           /\ call[p].text[f] \in Nat /\ call[p].text[f] <= edits
  <2>1. \A p \in Proc : call[p].new \in [File -> Version] /\ call[p].text \in [File -> Version]
    BY <1>2 DEF Calls
  <2> QED BY <1>2, <2>1 DEF IInv, InPast, Past, Version
<1>6. \A f \in Present' : Named(f)' => f # g /\ f \in Present /\ Named(f)
  <2>1. SUFFICES ASSUME NEW f \in Present', Named(f)' PROVE f # g /\ f \in Present /\ Named(f)
    OBVIOUS
  <2>2. f # g
    <3>1. SUFFICES ASSUME f = g PROVE FALSE
      OBVIOUS
    <3>2. src'[g] > edits /\ src'[g] = v /\ v \in Nat
      BY <1>3, <2>1, <3>1 DEF Present, Version
    <3>3. fpfile[g] # v /\ \A p \in Proc : fp[p][g] # v /\ call[p].new[g] # v
      BY <1>5, <3>2
    <3> QED BY <1>1, <2>1, <3>1, <3>2, <3>3 DEF Named
  <2> QED BY <1>1, <1>3, <2>1, <2>2 DEF Named, Present
<1>7. TypeInv'
  <2>1. src' \in [File -> Version] /\ passed' \in [Proc -> SUBSET File]
    BY <1>1, <1>2
  <2>2. Calls' = Calls /\ Version' = Version /\ Row' = Row
    BY DEF Calls, Version, Row
  <2> QED BY <1>1, <2>1, <2>2 DEF IInv, TypeInv
<1>8. InPast'
  <2>1. \A f \in File : src'[f] <= edits'
    BY <1>2, <1>3 DEF IInv, InPast, Past, Version
  <2>2. /\ \A f \in File : fpfile[f] <= edits'
        /\ \A p \in Proc, f \in File :
             fp[p][f] <= edits' /\ call[p].new[f] <= edits' /\ call[p].text[f] <= edits'
    BY <1>5
  <2> QED BY <1>1, <2>1, <2>2 DEF InPast, Past
<1>9. WalkRight' /\ StampRight' /\ SearchesDefault'
  BY <1>1, <1>3, <1>4 DEF IInv, WalkRight, StampRight, SearchesDefault, IsUnsaved, Unsaved
<1>10. TextRight'
  <2>1. SUFFICES ASSUME NEW p \in Proc, NEW f \in File, HasText(p, f)
                 PROVE  /\ f \in call[p].changed
                        /\ call[p].new[f] = src'[f] => call[p].text[f] = src'[f]
    BY <1>1 DEF TextRight, HasText
  <2>2. f \in call[p].changed /\ call[p].new[f] # 0
    BY <2>1 DEF IInv, TextRight, WalkRight, HasText, IsUnsaved, Unsaved
  <2>3. CASE f = g
    BY <1>3, <1>5, <2>2, <2>3
  <2>4. CASE f # g
    BY <1>3, <2>1, <2>2, <2>4 DEF IInv, TextRight
  <2> QED BY <2>2, <2>3, <2>4
<1>11. /\ \A c \in Coll, f \in File : f # g =>
              /\ f \in Excused(c)' <=> f \in Excused(c)
              /\ Fresh(c, f)' <=> Fresh(c, f)
       /\ \A c \in Coll : RowsOf(c, g)' = RowsOf(c, g)
       /\ \A p \in Proc : Saved(p)' => Saved(p) /\ call[p].pc # "idle"
       /\ \A f \in File : f # g => (f \in Present' <=> f \in Present)
  BY <1>1, <1>3 DEF Excused, Spoiled, Fresh, RowsOf, Saved, Present
<1>12. \A f \in File : Gone(f)' => f # g /\ Gone(f)
  BY <1>1, <1>3, <1>4, <1>11 DEF Gone, Saved
<1>13. NamedIsFresh'
  BY <1>6, <1>11 DEF IInv, NamedIsFresh, Present
<1>14. OldTextIsStale'
  <2>1. SUFFICES ASSUME NEW f \in Present', Named(f)', NEW p \in Proc, HasText(p, f)',
                        call'[p].text[f] # src'[f]
                 PROVE  Missed(p, f)'
    BY DEF OldTextIsStale
  <2>2. f # g /\ f \in Present /\ f \in File /\ Named(f)
    BY <1>6, <2>1 DEF Present
  <2>3. HasText(p, f) /\ call[p].text[f] # src[f] /\ call[p].coll \in Coll
    BY <1>1, <1>2, <1>3, <2>1, <2>2 DEF HasText, Calls
  <2>4. Missed(p, f)
    BY <2>2, <2>3 DEF IInv, OldTextIsStale
  <2> QED BY <1>1, <2>2, <2>3, <2>4 DEF Missed, Late
<1>15. CopyRight'
  <2>1. SUFFICES ASSUME NEW p \in Proc, NEW c \in Coll, call[p].pc = "write", call[p].coll = c,
                        NEW f \in File, f \notin Excused(c)', <<c, f>> \notin stale[p],
                        Promised(c, f)'
                 PROVE  Files(call[p].col, f) = RowsOf(c, f)
    BY <1>1 DEF CopyRight, Files, RowsOf
  <2>2. f # g /\ Promised(c, f)
    BY <1>6, <1>12, <2>1 DEF Promised
  <2> QED BY <1>11, <2>1, <2>2 DEF IInv, CopyRight
<1>16. AnswerNamed'
  BY <1>1, <1>3, <1>4, <1>11 DEF IInv, AnswerNamed, Present
<1>17. SavedIsFresh'
  BY <1>1, <1>4, <1>11, ConstantsAssumption DEF IInv, SavedIsFresh
<1>18. RemovedIsStale'
  BY <1>1, <1>12 DEF IInv, RemovedIsStale, HasText
<1> QED BY <1>7, <1>8, <1>9, <1>10, <1>13, <1>14, <1>15, <1>16, <1>17, <1>18 DEF IInv

LEMMA EditKeeps ==
  ASSUME IInv, NEW g \in File, Edit(g)
  PROVE  IInv'
<1>1. edits < MaxEdits /\ edits' = edits + 1 /\ src' = [src EXCEPT ![g] = edits + 1] /\ Touch(g)
  BY DEF Edit
<1>2. edits \in Nat /\ edits + 1 \in Version /\ edits + 1 > edits /\ edits + 1 <= edits'
      /\ edits' \in Version /\ edits <= edits'
  BY <1>1, BoundsAssumption DEF IInv, TypeInv, Version
<1> QED BY <1>1, <1>2, TreeKeeps

LEMMA RemoveKeeps ==
  ASSUME IInv, NEW g \in File, Remove(g)
  PROVE  IInv'
<1>1. edits' = edits /\ src' = [src EXCEPT ![g] = 0] /\ Touch(g)
  BY DEF Remove
<1>2. 0 \in Version /\ 0 <= edits' /\ edits' \in Version /\ edits <= edits'
  BY <1>1, BoundsAssumption DEF IInv, TypeInv, Version
<1> QED BY <1>1, <1>2, TreeKeeps

-----------------------------------------------------------------------------
(* A step of a call on its own: the tree, the rows and the fingerprints stay.        *)

LocalStep(p, x) ==
  /\ x \in Calls /\ x.pc # "record" /\ call' = [call EXCEPT ![p] = x]
  /\ x.search => x.coll = Default
  /\ src' = src /\ edits' = edits /\ rows' = rows /\ fp' = fp /\ fpfile' = fpfile
  /\ spoiled' = spoiled /\ elsewhere' = elsewhere
  /\ passed' \in [Proc -> SUBSET File] /\ stale' \in [Proc -> SUBSET (Coll \X File)]
  /\ \A q \in Proc : q # p => passed'[q] = passed[q] /\ stale'[q] = stale[q]
  /\ Past(x.new) /\ Past(x.text)

LocalWalk(p, x) ==
  x.pc \in Unsaved => \A f \in File :
    /\ f \in x.changed => x.new[f] # 0
    /\ f \in x.removed => x.new[f] = 0
    /\ x.new[f] # 0 /\ f \notin x.changed => fp[p][f] = x.new[f]
    /\ f \notin passed'[p] => x.new[f] = src[f]

(* A text is new, of the file as it is, or the one the call had.                      *)
LocalText(p, x) ==
  x.pc \in {"open", "write"} => \A f \in File : x.text[f] # 0 =>
    /\ f \in x.changed
    /\ x.new[f] = src[f] => x.text[f] = src[f]
    /\ \/ x.text[f] = src[f]
       \/ /\ HasText(p, f) /\ x.text[f] = call[p].text[f]
          /\ x.coll = call[p].coll /\ stale'[p] = stale[p]

LocalCopy(x) ==
  x.pc = "write" => \A f \in File : Files(x.col, f) = RowsOf(x.coll, f)

LocalAnswer(p, x) ==
  x.pc = "answer" =>
    x.removed = {} /\ \A f \in Present \ passed'[p] : fp[p][f] = src[f]

LEMMA Local ==
  ASSUME IInv, NEW p \in Proc, NEW x, LocalStep(p, x), LocalWalk(p, x), LocalText(p, x),
         LocalCopy(x), LocalAnswer(p, x)
  PROVE  IInv'
<1>1. /\ src' = src /\ edits' = edits /\ rows' = rows /\ fp' = fp /\ fpfile' = fpfile
      /\ spoiled' = spoiled /\ elsewhere' = elsewhere
      /\ x.pc # "record" /\ x \in Calls
      /\ call \in [Proc -> Calls] /\ call' = [call EXCEPT ![p] = x]
  BY DEF LocalStep, IInv, TypeInv
<1>2. /\ call'[p] = x
      /\ \A q \in Proc : q # p => /\ call'[q] = call[q]
                                  /\ passed'[q] = passed[q] /\ stale'[q] = stale[q]
  BY <1>1 DEF LocalStep
<1>3. \A f : Named(f)' => Named(f)
  BY <1>1, <1>2 DEF Named
<1>4. /\ Present' = Present /\ \A c : Excused(c)' = Excused(c)
      /\ \A c, f : Fresh(c, f)' <=> Fresh(c, f)
  BY <1>1 DEF Present, Excused, Spoiled, Fresh, RowsOf
<1>5. TypeInv'
  <2>1. Calls' = Calls /\ Version' = Version /\ Row' = Row
    BY DEF Calls, Version, Row
  <2> QED BY <1>1, <2>1 DEF IInv, TypeInv, LocalStep
<1>6. InPast'
  BY <1>1, <1>2 DEF IInv, InPast, Past, LocalStep
<1>7. WalkRight' /\ StampRight' /\ SearchesDefault'
  <2>1. SearchesDefault'
    BY <1>2 DEF IInv, SearchesDefault, LocalStep
  <2>2. WalkRight'
    <3>1. SUFFICES ASSUME NEW q \in Proc, IsUnsaved(q)', NEW f \in File
                   PROVE  /\ f \in call'[q].changed => call'[q].new[f] # 0
                          /\ f \in call'[q].removed => call'[q].new[f] = 0
                          /\ call'[q].new[f] # 0 /\ f \notin call'[q].changed
                               => fp[q][f] = call'[q].new[f]
      BY <1>1 DEF WalkRight
    <3>2. CASE q = p
      BY <1>1, <1>2, <3>1, <3>2 DEF LocalWalk, IsUnsaved
    <3>3. CASE q # p
      BY <1>2, <3>1, <3>3 DEF IInv, WalkRight, IsUnsaved
    <3> QED BY <3>2, <3>3
  <2>3. StampRight'
    <3>1. SUFFICES ASSUME NEW q \in Proc, IsUnsaved(q)' \/ call'[q].pc = "record",
                          NEW f \in File \ passed'[q]
                   PROVE  call'[q].new[f] = src[f]
      BY <1>1 DEF StampRight
    <3>2. CASE q = p
      BY <1>1, <1>2, <3>1, <3>2 DEF LocalWalk, IsUnsaved
    <3>3. CASE q # p
      BY <1>2, <3>1, <3>3 DEF IInv, StampRight, IsUnsaved
    <3> QED BY <3>2, <3>3
  <2> QED BY <2>1, <2>2, <2>3
<1>8. TextRight'
  <2>1. SUFFICES ASSUME NEW q \in Proc, NEW f \in File, HasText(q, f)'
                 PROVE  /\ f \in call'[q].changed
                        /\ call'[q].new[f] = src[f] => call'[q].text[f] = src[f]
    BY <1>1 DEF TextRight
  <2>2. CASE q = p
    BY <1>2, <2>1, <2>2 DEF LocalText, HasText
  <2>3. CASE q # p
    BY <1>2, <2>1, <2>3 DEF IInv, TextRight, HasText
  <2> QED BY <2>2, <2>3
<1>9. NamedIsFresh'
  BY <1>3, <1>4 DEF IInv, NamedIsFresh
<1>10. OldTextIsStale'
  <2>1. SUFFICES ASSUME NEW f \in Present, Named(f), NEW q \in Proc, HasText(q, f)',
                        call'[q].text[f] # src[f]
                 PROVE  Missed(q, f)'
    BY <1>1, <1>3, <1>4 DEF OldTextIsStale
  <2>2. /\ HasText(q, f) /\ call[q].text[f] # src[f]
        /\ call'[q].coll = call[q].coll /\ stale'[q] = stale[q]
    <3>1. f \in File
      BY DEF Present
    <3>2. CASE q = p
      BY <1>2, <2>1, <3>1, <3>2 DEF LocalText, HasText
    <3>3. CASE q # p
      BY <1>2, <2>1, <3>3 DEF HasText
    <3> QED BY <3>2, <3>3
  <2>3. Missed(q, f)
    BY <2>1, <2>2 DEF IInv, OldTextIsStale
  <2> QED BY <1>1, <2>2, <2>3 DEF Missed, Late
<1>11. \A q \in Proc : Saved(q)' =>
         /\ q = p => x.pc = "answer" /\ x.removed = {}
         /\ q # p => Saved(q) /\ call'[q] = call[q] /\ passed'[q] = passed[q]
  BY <1>1, <1>2 DEF Saved, LocalAnswer
<1>12. \A f : Gone(f)' => Gone(f)
  BY <1>1, <1>2, <1>11 DEF Gone
<1>13. CopyRight'
  <2>1. SUFFICES ASSUME NEW q \in Proc, NEW c \in Coll, call'[q].pc = "write", call'[q].coll = c,
                        NEW f \in File, f \notin Excused(c), <<c, f>> \notin stale'[q],
                        Promised(c, f)
                 PROVE  Files(call'[q].col, f) = RowsOf(c, f)
    BY <1>1, <1>3, <1>4, <1>12 DEF CopyRight, Promised, Files, RowsOf
  <2>2. CASE q = p
    BY <1>2, <2>1, <2>2 DEF LocalCopy
  <2>3. CASE q # p
    BY <1>2, <2>1, <2>3 DEF IInv, CopyRight
  <2> QED BY <2>2, <2>3
<1>14. AnswerNamed'
  <2>1. SUFFICES ASSUME NEW q \in Proc, call'[q].pc = "answer", NEW f \in Present \ passed'[q]
                 PROVE  fp[q][f] = src[f]
    BY <1>1, <1>4 DEF AnswerNamed
  <2> QED BY <1>2, <2>1 DEF IInv, AnswerNamed, LocalAnswer
<1>15. SavedIsFresh'
  <2>1. SUFFICES ASSUME NEW q \in Proc, Saved(q)',
                        NEW f \in File \ (passed'[q] \cup Excused(Default)),
                        f \in Present \cup call'[q].removed
                 PROVE  Fresh(Default, f)
    BY <1>1, <1>4 DEF SavedIsFresh
  <2>2. CASE q = p
    <3>1. f \in Present /\ fp[p][f] = src[f]
      BY <1>2, <1>11, <2>1, <2>2 DEF LocalAnswer
    <3>2. Named(f)
      BY <3>1 DEF Named
    <3> QED BY <2>1, <3>1, <3>2, ConstantsAssumption DEF IInv, NamedIsFresh
  <2>3. CASE q # p
    BY <1>11, <2>1, <2>3 DEF IInv, SavedIsFresh
  <2> QED BY <2>2, <2>3
<1>16. RemovedIsStale'
  <2>1. SUFFICES ASSUME NEW f \in File, Gone(f), NEW r \in Proc, HasText(r, f)',
                        call'[r].coll = Default
                 PROVE  <<Default, f>> \in stale'[r]
    BY <1>12 DEF RemovedIsStale
  <2>2. CASE r = p
    <3>1. x.text[f] # src[f]
      BY <1>1, <1>2, <2>1, <2>2 DEF Gone, HasText
    <3>2. HasText(p, f) /\ x.coll = call[p].coll /\ stale'[p] = stale[p]
      BY <1>2, <2>1, <2>2, <3>1 DEF LocalText, HasText
    <3> QED BY <1>2, <2>1, <2>2, <3>2 DEF IInv, RemovedIsStale
  <2>3. CASE r # p
    BY <1>2, <2>1, <2>3 DEF IInv, RemovedIsStale, HasText
  <2> QED BY <2>2, <2>3
<1> QED BY <1>5, <1>6, <1>7, <1>8, <1>9, <1>10, <1>13, <1>14, <1>15, <1>16 DEF IInv

LEMMA RestingIs ==
  ASSUME InPast, TypeInv
  PROVE  /\ Resting \in Calls /\ Resting.pc = "idle" /\ Resting.removed = {}
         /\ Resting.search = FALSE
         /\ Past(Resting.new) /\ Past(Resting.text) /\ edits \in Nat
<1>1. 0 \in Version /\ edits \in Nat /\ 0 <= edits
  BY BoundsAssumption DEF TypeInv, Version
<1>2. Default \in Coll
  BY ConstantsAssumption
<1> QED BY <1>1, <1>2 DEF Resting, Nothing, Calls, Past

LEMMA RestKeeps ==
  ASSUME IInv, NEW p \in Proc, End(p), UNCHANGED <<tree, index, fp, fpfile>>
  PROVE  IInv'
<1>1. LocalStep(p, Resting)
  <2>1. InPast /\ TypeInv
    BY DEF IInv
  <2> QED BY <2>1, RestingIs DEF LocalStep, TypeInv, End, tree, index
<1>2. Resting.pc = "idle"
  BY DEF Resting
<1>3. LocalWalk(p, Resting) /\ LocalText(p, Resting) /\ LocalCopy(Resting) /\ LocalAnswer(p, Resting)
  BY <1>2 DEF LocalWalk, LocalText, LocalCopy, LocalAnswer, Unsaved
<1> QED BY <1>1, <1>3, Local

LEMMA WalkKeeps ==
  ASSUME IInv, NEW p \in Proc, NEW c \in Coll, NEW force \in BOOLEAN, NEW search \in BOOLEAN,
         NEW S \in SUBSET Present, Walk(p, c, force, search, S)
  PROVE  IInv'
<1> DEFINE changed == Changed(S, fp[p], force)
           removed == {f \in File \ S : fp[p][f] # 0}
           hit == ~force /\ changed = {} /\ removed = {} /\ c \in there
           new == [f \in File |-> IF f \in S THEN src[f] ELSE 0]
           x == IF hit THEN [Resting EXCEPT !.pc = IF search THEN "answer" ELSE "idle"]
                ELSE [Resting EXCEPT !.pc = "read", !.coll = c, !.search = search,
                        !.changed = changed, !.removed = removed, !.new = new]
<1>1. /\ call' = [call EXCEPT ![p] = x]
      /\ passed' = [passed EXCEPT ![p] = IF hit /\ ~search THEN {} ELSE Present \ S]
      /\ stale' = [stale EXCEPT ![p] = {}]
      /\ UNCHANGED <<tree, index, fp, fpfile, spoiled, elsewhere>>
      /\ search => c = Default
  BY DEF Walk
<1>2. /\ src \in [File -> Version] /\ passed \in [Proc -> SUBSET File]
      /\ stale \in [Proc -> SUBSET (Coll \X File)] /\ InPast /\ TypeInv
  BY DEF IInv, TypeInv
<1>3. S \subseteq File /\ Present \subseteq File /\ changed \subseteq S /\ removed \subseteq File \ S
  BY DEF Present, Changed
<1>4. \A f \in File :
        /\ f \in S => src[f] # 0
        /\ f \in S /\ f \notin changed => fp[p][f] = src[f]
        /\ f \notin Present => src[f] = 0
  BY <1>3 DEF Present, Changed
<1>5. /\ passed' \in [Proc -> SUBSET File] /\ stale' \in [Proc -> SUBSET (Coll \X File)]
      /\ \A q \in Proc : q # p => passed'[q] = passed[q] /\ stale'[q] = stale[q]
      /\ ~(hit /\ ~search) => passed'[p] = Present \ S
  <2>1. (Present \ S) \in SUBSET File
    BY <1>3
  <2> HIDE DEF x, changed, removed, hit
  <2> QED BY <1>1, <1>2, <2>1
<1>6. CASE hit
  <2>1. /\ x = [Resting EXCEPT !.pc = IF search THEN "answer" ELSE "idle"]
        /\ Resting \in Calls /\ Past(Resting.new) /\ Past(Resting.text)
    BY <1>2, <1>6, RestingIs
  <2> HIDE DEF x
  <2>2. /\ x \in Calls /\ x.pc = (IF search THEN "answer" ELSE "idle") /\ x.removed = {}
        /\ x.search = FALSE /\ Past(x.new) /\ Past(x.text)
    BY <2>1 DEF Calls, Resting
  <2>3. LocalStep(p, x)
    BY <1>1, <1>5, <2>2 DEF LocalStep, tree, index
  <2>4. LocalWalk(p, x) /\ LocalText(p, x) /\ LocalCopy(x)
    BY <2>2 DEF LocalWalk, LocalText, LocalCopy, Unsaved
  <2>5. LocalAnswer(p, x)
    BY <1>3, <1>4, <1>5, <1>6, <2>2 DEF LocalAnswer
  <2> QED BY <2>3, <2>4, <2>5, Local
<1>7. CASE ~hit
  <2>1. /\ x = [pc |-> "read", coll |-> c, search |-> search, new |-> new,
                changed |-> changed, removed |-> removed, text |-> Nothing, col |-> {}]
        /\ Nothing \in [File -> Version] /\ new \in [File -> Version]
    <3>1. 0 \in Version
      BY BoundsAssumption DEF Version
    <3> QED BY <1>2, <1>7, <3>1 DEF Resting, Nothing
  <2>2. \A f \in File : new[f] = IF f \in S THEN src[f] ELSE 0
    OBVIOUS
  <2>3. changed \in SUBSET File /\ removed \in SUBSET File
    BY <1>3
  <2> HIDE DEF x, changed, removed, hit, new
  <2>4. x \in Calls
    BY <2>1, <2>3 DEF Calls
  <2>5. /\ x.pc = "read" /\ x.coll = c /\ x.search = search /\ x.new = new
        /\ x.changed = changed /\ x.removed = removed /\ x.text = Nothing
    BY <2>1
  <2>6. Past(x.new) /\ Past(x.text)
    <3>0. 0 <= edits
      BY <1>2, RestingIs
    <3>1. \A f \in File : src[f] <= edits /\ 0 <= edits
      BY <1>2, <3>0 DEF InPast, Past
    <3> QED BY <2>2, <2>5, <3>1 DEF Past, Nothing
  <2>7. LocalStep(p, x)
    BY <1>1, <1>5, <2>4, <2>5, <2>6 DEF LocalStep, tree, index
  <2>8. LocalWalk(p, x)
    <3>1. passed'[p] = Present \ S
      BY <1>5, <1>7
    <3>2. \A f \in removed : f \notin S
      BY <1>3
    <3> QED BY <1>3, <1>4, <2>2, <2>5, <3>1, <3>2 DEF LocalWalk
  <2>9. LocalText(p, x) /\ LocalCopy(x) /\ LocalAnswer(p, x)
    BY <2>5 DEF LocalText, LocalCopy, LocalAnswer
  <2> QED BY <2>7, <2>8, <2>9, Local
<1> QED BY <1>6, <1>7

LEMMA ReadKeeps ==
  ASSUME IInv, NEW p \in Proc, NEW R \in SUBSET File, Read(p, R)
  PROVE  IInv'
<1> DEFINE text == [f \in File |-> IF f \in R THEN src[f] ELSE 0]
           x == [call[p] EXCEPT !.pc = "open", !.text = text]
<1>1. /\ call[p].pc = "read" /\ R \subseteq call[p].changed \cap Present
      /\ call' = [call EXCEPT ![p].pc = "open", ![p].text = text]
      /\ UNCHANGED <<tree, index, fp, fpfile, history>>
  BY DEF Read
<1>2. /\ call \in [Proc -> Calls] /\ call[p] \in Calls /\ src \in [File -> Version]
      /\ passed \in [Proc -> SUBSET File] /\ stale \in [Proc -> SUBSET (Coll \X File)]
      /\ InPast /\ TypeInv
  BY DEF IInv, TypeInv
<1>3. text \in [File -> Version]
  BY <1>2, BoundsAssumption DEF Version
<1>4. \A f \in File : text[f] = IF f \in R THEN src[f] ELSE 0
  OBVIOUS
<1> HIDE DEF text
<1>5. call' = [call EXCEPT ![p] = x]
  BY <1>1, <1>2
<1>6. /\ x \in Calls /\ x.pc = "open" /\ x.text = text /\ x.new = call[p].new
      /\ x.changed = call[p].changed /\ x.removed = call[p].removed
      /\ x.coll = call[p].coll /\ x.search = call[p].search
  BY <1>2, <1>3 DEF Calls
<1>7. Past(x.new) /\ Past(x.text)
  <2>0. 0 <= edits
    BY <1>2, RestingIs
  <2>1. \A f \in File : src[f] <= edits /\ 0 <= edits
    BY <1>2, <2>0 DEF InPast, Past
  <2> QED BY <1>2, <1>4, <1>6, <2>1 DEF InPast, Past
<1> HIDE DEF x
<1>8. LocalStep(p, x)
  BY <1>1, <1>2, <1>5, <1>6, <1>7 DEF LocalStep, IInv, SearchesDefault, tree, index, history
<1>9. LocalWalk(p, x)
  BY <1>1, <1>6 DEF LocalWalk, IInv, WalkRight, StampRight, IsUnsaved, Unsaved, history
<1>10. LocalText(p, x)
  BY <1>1, <1>4, <1>6 DEF LocalText
<1>11. LocalCopy(x) /\ LocalAnswer(p, x)
  BY <1>6 DEF LocalCopy, LocalAnswer
<1> QED BY <1>8, <1>9, <1>10, <1>11, Local

LEMMA OpenKeeps ==
  ASSUME IInv, NEW p \in Proc, OpenCol(p)
  PROVE  IInv'
<1> DEFINE x == [call[p] EXCEPT !.pc = "write", !.col = rows[call[p].coll]]
<1>1. /\ call[p].pc = "open"
      /\ call' = [call EXCEPT ![p].pc = "write", ![p].col = rows[call[p].coll]]
      /\ UNCHANGED <<tree, index, fp, fpfile, history>>
  BY DEF OpenCol
<1>2. /\ call \in [Proc -> Calls] /\ call[p] \in Calls /\ rows \in [Coll -> SUBSET Row]
      /\ passed \in [Proc -> SUBSET File] /\ stale \in [Proc -> SUBSET (Coll \X File)]
      /\ InPast /\ TypeInv
  BY DEF IInv, TypeInv
<1>3. rows[call[p].coll] \in SUBSET Row
  BY <1>2 DEF Calls
<1>4. call' = [call EXCEPT ![p] = x]
  BY <1>1, <1>2
<1>5. /\ x \in Calls /\ x.pc = "write" /\ x.text = call[p].text /\ x.new = call[p].new
      /\ x.changed = call[p].changed /\ x.removed = call[p].removed /\ x.col = rows[call[p].coll]
      /\ x.coll = call[p].coll /\ x.search = call[p].search
  BY <1>2, <1>3 DEF Calls
<1> HIDE DEF x
<1>6. LocalStep(p, x)
  BY <1>1, <1>2, <1>4, <1>5 DEF LocalStep, IInv, SearchesDefault, InPast, tree, index, history
<1>7. LocalWalk(p, x)
  BY <1>1, <1>5 DEF LocalWalk, IInv, WalkRight, StampRight, IsUnsaved, Unsaved, history
<1>8. LocalText(p, x)
  BY <1>1, <1>5 DEF LocalText, IInv, TextRight, HasText, history
<1>9. LocalCopy(x) /\ LocalAnswer(p, x)
  BY <1>5 DEF LocalCopy, LocalAnswer, Files, RowsOf
<1> QED BY <1>6, <1>7, <1>8, <1>9, Local

-----------------------------------------------------------------------------
(* A fingerprint is set by a call that ends, or loaded by a new process.           *)

Settled(p, x, g) ==
  /\ x \in Calls /\ x.pc \in {"idle", "answer"} /\ ~x.search /\ Past(x.new) /\ Past(x.text)
  /\ g \in [File -> Version] /\ Past(g)
  /\ \A f \in Present : g[f] = src[f] => Named(f)
  /\ x.pc = "answer" => /\ call[p].pc = "record" /\ call[p].search
                        /\ x.removed = call[p].removed /\ g = call[p].new
                        /\ passed'[p] = passed[p]
  /\ call' = [call EXCEPT ![p] = x] /\ fp' = [fp EXCEPT ![p] = g] /\ fpfile' \in {fpfile, g}
  /\ src' = src /\ edits' = edits /\ rows' = rows /\ spoiled' = spoiled /\ elsewhere' = elsewhere
  /\ passed' \in [Proc -> SUBSET File] /\ stale' \in [Proc -> SUBSET (Coll \X File)]
  /\ \A q \in Proc : q # p => passed'[q] = passed[q] /\ stale'[q] = stale[q]

LEMMA SettleKeeps ==
  ASSUME IInv, NEW p \in Proc, NEW x, NEW g, Settled(p, x, g)
  PROVE  IInv'
<1>1. /\ src' = src /\ edits' = edits /\ rows' = rows
      /\ spoiled' = spoiled /\ elsewhere' = elsewhere
      /\ x \in Calls /\ x.pc \in {"idle", "answer"} /\ ~x.search /\ fpfile' \in {fpfile, g}
      /\ call \in [Proc -> Calls] /\ call' = [call EXCEPT ![p] = x]
      /\ fp \in [Proc -> [File -> Version]] /\ fp' = [fp EXCEPT ![p] = g]
      /\ g \in [File -> Version] /\ fpfile \in [File -> Version]
  BY DEF Settled, IInv, TypeInv
<1>2. /\ call'[p] = x /\ fp'[p] = g
      /\ \A q \in Proc : q # p => /\ call'[q] = call[q] /\ fp'[q] = fp[q]
                                  /\ passed'[q] = passed[q] /\ stale'[q] = stale[q]
  BY <1>1 DEF Settled
<1>3. \A f \in Present : Named(f)' => Named(f)
  <2>1. SUFFICES ASSUME NEW f \in Present, Named(f)' PROVE Named(f)
    OBVIOUS
  <2>2. g[f] = src[f] => Named(f)
    BY DEF Settled
  <2> QED BY <1>1, <1>2, <2>1, <2>2 DEF Named
<1>4. /\ Present' = Present /\ \A c : Excused(c)' = Excused(c)
      /\ \A c, f : Fresh(c, f)' <=> Fresh(c, f)
  BY <1>1 DEF Present, Excused, Spoiled, Fresh, RowsOf
<1>5. TypeInv'
  <2>1. Calls' = Calls /\ Version' = Version /\ Row' = Row
    BY DEF Calls, Version, Row
  <2> QED BY <1>1, <2>1 DEF IInv, TypeInv, Settled
<1>6. InPast' /\ SearchesDefault'
  BY <1>1, <1>2 DEF IInv, InPast, Past, SearchesDefault, Settled
<1>7. WalkRight' /\ StampRight'
  <2>1. \A q \in Proc : IsUnsaved(q)' \/ call'[q].pc = "record" =>
          q # p /\ (IsUnsaved(q)' => IsUnsaved(q))
    BY <1>1, <1>2 DEF IsUnsaved, Unsaved
  <2> QED BY <1>1, <1>2, <2>1 DEF IInv, WalkRight, StampRight
<1>8. \A q \in Proc : \A f : HasText(q, f)' => q # p /\ HasText(q, f)
  BY <1>1, <1>2 DEF HasText
<1>9. TextRight'
  BY <1>1, <1>2, <1>8 DEF IInv, TextRight
<1>10. NamedIsFresh'
  BY <1>3, <1>4 DEF IInv, NamedIsFresh
<1>11. OldTextIsStale'
  <2>1. SUFFICES ASSUME NEW f \in Present, Named(f)', NEW q \in Proc, HasText(q, f)',
                        call'[q].text[f] # src[f]
                 PROVE  Missed(q, f)'
    BY <1>1, <1>4 DEF OldTextIsStale
  <2>2. q # p /\ Named(f) /\ HasText(q, f) /\ call'[q] = call[q] /\ stale'[q] = stale[q]
    BY <1>2, <1>3, <1>8, <2>1
  <2>3. Missed(q, f)
    BY <2>1, <2>2 DEF IInv, OldTextIsStale
  <2> QED BY <1>1, <2>2, <2>3 DEF Missed, Late
<1>12. \A q \in Proc : Saved(q)' =>
         Saved(q) /\ call'[q].removed = call[q].removed /\ passed'[q] = passed[q]
  <2>1. Saved(p)' => Saved(p) /\ x.removed = call[p].removed /\ passed'[p] = passed[p]
    BY <1>1, <1>2 DEF Saved, Settled
  <2> QED BY <1>2, <2>1 DEF Saved
<1>13. \A f : Gone(f)' => Gone(f)
  BY <1>1, <1>12 DEF Gone
<1>14. CopyRight'
  <2>1. SUFFICES ASSUME NEW q \in Proc, NEW c \in Coll, call'[q].pc = "write", call'[q].coll = c,
                        NEW f \in File, f \notin Excused(c)', <<c, f>> \notin stale'[q],
                        Promised(c, f)'
                 PROVE  Files(call'[q].col, f) = RowsOf(c, f)'
    BY DEF CopyRight, Files, RowsOf
  <2>2. q # p /\ call'[q] = call[q] /\ stale'[q] = stale[q]
    BY <1>1, <1>2, <2>1
  <2>3. Promised(c, f) /\ f \notin Excused(c)
    BY <1>3, <1>4, <1>13, <2>1 DEF Promised
  <2>4. Files(call[q].col, f) = RowsOf(c, f)
    BY <2>1, <2>2, <2>3 DEF IInv, CopyRight
  <2> QED BY <1>1, <2>2, <2>4 DEF RowsOf
<1>15. AnswerNamed'
  <2>1. SUFFICES ASSUME NEW q \in Proc, call'[q].pc = "answer", NEW f \in Present \ passed'[q]
                 PROVE  fp'[q][f] = src[f]
    BY <1>1, <1>4 DEF AnswerNamed
  <2>2. CASE q = p
    <3>1. call[p].pc = "record" /\ g = call[p].new /\ passed'[p] = passed[p] /\ f \in File
      BY <1>2, <2>1, <2>2 DEF Settled, Present
    <3> QED BY <1>2, <2>1, <2>2, <3>1 DEF IInv, StampRight
  <2>3. CASE q # p
    BY <1>2, <2>1, <2>3 DEF IInv, AnswerNamed
  <2> QED BY <2>2, <2>3
<1>16. SavedIsFresh'
  BY <1>4, <1>12 DEF IInv, SavedIsFresh
<1>17. RemovedIsStale'
  BY <1>2, <1>8, <1>13 DEF IInv, RemovedIsStale
<1> QED BY <1>5, <1>6, <1>7, <1>9, <1>10, <1>11, <1>14, <1>15, <1>16, <1>17 DEF IInv

LEMMA RecordKeeps ==
  ASSUME IInv, NEW p \in Proc, Record(p)
  PROVE  IInv'
<1> DEFINE x == IF call[p].search
                THEN [Resting EXCEPT !.pc = "answer", !.removed = call[p].removed] ELSE Resting
           g == call[p].new
<1>1. /\ call[p].pc = "record" /\ fp' = [fp EXCEPT ![p] = g] /\ fpfile' \in {fpfile, g}
      /\ call' = [call EXCEPT ![p] = x]
      /\ passed' = [passed EXCEPT ![p] = IF call[p].search THEN passed[p] ELSE {}]
      /\ UNCHANGED <<tree, index, stale, spoiled, elsewhere>>
  BY DEF Record
<1>2. /\ call[p] \in Calls /\ TypeInv /\ InPast /\ passed \in [Proc -> SUBSET File]
      /\ stale \in [Proc -> SUBSET (Coll \X File)]
  BY DEF IInv, TypeInv
<1>3. call[p].removed \subseteq File /\ g \in [File -> Version] /\ Past(g)
  BY <1>2 DEF Calls, InPast
<1>4. /\ x \in Calls /\ x.pc \in {"idle", "answer"} /\ ~x.search /\ Past(x.new) /\ Past(x.text)
      /\ x.pc = "answer" => call[p].search /\ x.removed = call[p].removed
  <2>1. CASE call[p].search
    <3>1. x = [pc |-> "answer", coll |-> Default, search |-> FALSE, new |-> Nothing,
               changed |-> {}, removed |-> call[p].removed, text |-> Nothing, col |-> {}]
      BY <2>1 DEF Resting
    <3>2. Default \in Coll /\ Nothing \in [File -> Version] /\ Past(Nothing)
      BY <1>2, RestingIs DEF Resting, Calls
    <3> HIDE DEF x
    <3> QED BY <1>3, <2>1, <3>1, <3>2 DEF Calls
  <2>2. CASE ~call[p].search
    BY <1>2, <2>2, RestingIs
  <2> QED BY <2>1, <2>2
<1>5. \A f \in Present : g[f] = src[f] => Named(f)
  BY <1>1 DEF Named
<1> HIDE DEF x
<1>6. /\ passed' \in [Proc -> SUBSET File]
      /\ \A q \in Proc : q # p => passed'[q] = passed[q]
      /\ call[p].search => passed'[p] = passed[p]
  BY <1>1, <1>2
<1>7. Settled(p, x, g)
  BY <1>1, <1>2, <1>3, <1>4, <1>5, <1>6 DEF Settled, tree, index
<1> QED BY <1>7, SettleKeeps

LEMMA RestartKeeps ==
  ASSUME IInv, NEW p \in Proc, Restart(p)
  PROVE  IInv'
<1> DEFINE g == IF p \in Persistent THEN fpfile ELSE Nothing
<1>1. /\ call' = [call EXCEPT ![p] = Resting] /\ fp' = [fp EXCEPT ![p] = g]
      /\ passed' = [passed EXCEPT ![p] = {}] /\ stale' = [stale EXCEPT ![p] = {}]
      /\ UNCHANGED <<tree, index, fpfile, spoiled, elsewhere>>
  BY DEF Restart, End
<1>2. TypeInv /\ InPast
  BY DEF IInv
<1>3. Nothing \in [File -> Version] /\ Past(Nothing)
  BY <1>2, RestingIs DEF Resting, Calls
<1>4. g \in [File -> Version] /\ Past(g)
  BY <1>2, <1>3 DEF TypeInv, InPast
<1>5. \A f \in Present : g[f] = src[f] => Named(f)
  BY DEF Named, Nothing, Present
<1> HIDE DEF g
<1>6. /\ passed' \in [Proc -> SUBSET File] /\ stale' \in [Proc -> SUBSET (Coll \X File)]
      /\ \A q \in Proc : q # p => passed'[q] = passed[q] /\ stale'[q] = stale[q]
  BY <1>1, <1>2 DEF TypeInv
<1>7. Settled(p, Resting, g)
  BY <1>1, <1>2, <1>4, <1>5, <1>6, RestingIs DEF Settled, tree, index
<1> QED BY <1>7, SettleKeeps

-----------------------------------------------------------------------------
(* The save.                                                                  *)

LEMMA EmbeddedRows ==
  ASSUME NEW f \in File, NEW v \in Version
  PROVE  /\ Embedded(f, v) \subseteq Row
         /\ \A r \in Embedded(f, v) : r.file = f
<1>1. CASE v = 0
  BY <1>1 DEF Embedded
<1>2. CASE v # 0
  <2>1. Embedded(f, v) = {[file |-> f, idx |-> i, ver |-> v] : i \in Chunks[v]}
    BY <1>2 DEF Embedded
  <2>2. Chunks[v] \subseteq Nat
    BY <1>2, BoundsAssumption, ConstantsAssumption DEF Version
  <2> QED BY <2>1, <2>2 DEF Row
<1> QED BY <1>1, <1>2

(* What a save leaves of each file: what it read of those that changed or went, the    *)
(* rows of its copy of the others, and other collections as they were.               *)
LEMMA CommitRows ==
  ASSUME IInv, NEW p \in Proc, Commit(p)
  PROVE  /\ rows' \in [Coll -> SUBSET Row]
         /\ \A f \in File : Files(rows'[call[p].coll], f) =
              IF f \in Wrote(p) THEN Embedded(f, call[p].text[f]) ELSE Files(call[p].col, f)
         /\ \A d \in Coll \ {call[p].coll} : rows'[d] = rows[d]
<1> DEFINE c == call[p].coll
           kept == call[p].col \ StaleRows(p)
           fresh == UNION {Embedded(f, call[p].text[f]) : f \in File}
           Over(r) == \E s \in fresh : s.file = r.file /\ s.idx = r.idx
           saved == {r \in kept : ~Over(r)} \cup fresh
<1>1. call[p].pc = "write" /\ rows' = [rows EXCEPT ![c] = saved]
  BY DEF Commit
<1>2. call[p] \in Calls /\ rows \in [Coll -> SUBSET Row]
  BY DEF IInv, TypeInv
<1>3. /\ c \in Coll /\ call[p].col \subseteq Row
      /\ \A f \in File : call[p].text[f] \in Version
  BY <1>2 DEF Calls
<1>4. fresh \subseteq Row
  BY <1>3, EmbeddedRows
<1>5. \A f \in File : Files(fresh, f) = Embedded(f, call[p].text[f])
  BY <1>3, EmbeddedRows DEF Files
<1>6. \A r \in fresh : r.file \in Wrote(p) /\ r.file \in File
  <2>1. SUFFICES ASSUME NEW f \in File, NEW r \in Embedded(f, call[p].text[f]) PROVE f \in Wrote(p)
    BY <1>3, EmbeddedRows
  <2>2. call[p].text[f] # 0
    BY <2>1 DEF Embedded
  <2> QED BY <1>1, <2>2 DEF IInv, TextRight, HasText, Wrote
<1>7. \A r \in kept : r \in call[p].col /\ r.file \notin Wrote(p)
  BY DEF StaleRows
<1>8. \A r \in call[p].col : r.file \notin Wrote(p) => r \in kept /\ ~Over(r)
  BY <1>6 DEF StaleRows
<1>9. /\ rows' \in [Coll -> SUBSET Row] /\ rows'[c] = saved
      /\ \A d \in Coll \ {c} : rows'[d] = rows[d]
  <2>1. saved \subseteq Row
    BY <1>3, <1>4
  <2> HIDE DEF saved
  <2> QED BY <1>1, <1>2, <1>3, <2>1
<1>10. ASSUME NEW f \in File
       PROVE  Files(saved, f) =
                IF f \in Wrote(p) THEN Embedded(f, call[p].text[f]) ELSE Files(call[p].col, f)
  <2>1. CASE f \in Wrote(p)
    <3>1. Files(saved, f) = Files(fresh, f)
      <4> HIDE DEF kept, fresh, Over
      <4> QED BY <1>7, <2>1 DEF Files
    <3> QED BY <1>5, <2>1, <3>1
  <2>2. CASE f \notin Wrote(p)
    <3> HIDE DEF kept, fresh, Over
    <3> QED BY <1>6, <1>7, <1>8, <2>2 DEF Files
  <2> QED BY <2>1, <2>2
<1> HIDE DEF saved
<1> QED BY <1>9, <1>10

LEMMA CommitKeeps ==
  ASSUME IInv, NEW p \in Proc, Commit(p)
  PROVE  IInv'
<1> DEFINE W == Wrote(p)
           new == call[p].new
<1>0. PICK c \in Coll : c = call[p].coll
  BY DEF IInv, TypeInv, Calls
<1>1. /\ call[p].pc = "write" /\ IsUnsaved(p)
      /\ call' = [call EXCEPT ![p] = [Resting EXCEPT !.pc = "record",
           !.search = call[p].search, !.new = new, !.removed = call[p].removed]]
      /\ stale' = [q \in Proc |->
           IF q = p \/ call[q].pc \notin Unsaved THEN {} ELSE stale[q] \cup ({c} \X W)]
      /\ spoiled' = (spoiled \ ({c} \X W)) \cup (stale[p] \cap ({c} \X File))
                      \cup ({c} \X (Present \cap (W \ ReadBy(p))))
      /\ elsewhere' = (elsewhere \ ({c} \X (W \ Late(p)))) \cup ((Coll \ {c}) \X Restamped(p))
      /\ src' = src /\ edits' = edits /\ fp' = fp /\ fpfile' = fpfile /\ passed' = passed
  BY <1>0 DEF Commit, tree, IsUnsaved, Unsaved
<1>2. /\ call \in [Proc -> Calls] /\ call[p] \in Calls /\ TypeInv /\ InPast
      /\ call[p].changed \subseteq File /\ call[p].removed \subseteq File
      /\ stale \in [Proc -> SUBSET (Coll \X File)] /\ passed \in [Proc -> SUBSET File]
      /\ new \in [File -> Version] /\ call[p].search \in BOOLEAN
      /\ Nothing \in [File -> Version] /\ Past(Nothing)
  <2>1. InPast /\ TypeInv
    BY DEF IInv
  <2>2. Nothing \in [File -> Version] /\ Past(Nothing)
    BY <2>1, RestingIs DEF Resting, Calls
  <2> QED BY <2>1, <2>2 DEF TypeInv, Calls
<1>3. /\ call'[p].pc = "record" /\ call'[p].new = new /\ call'[p].text = Nothing
      /\ call'[p].removed = call[p].removed
      /\ call'[p].search = call[p].search /\ call'[p].coll = Default
      /\ call' \in [Proc -> Calls]
      /\ \A q \in Proc : q # p => call'[q] = call[q]
  <2> DEFINE x == [Resting EXCEPT !.pc = "record", !.search = call[p].search, !.new = new,
                     !.removed = call[p].removed]
  <2>1. Resting \in Calls /\ Resting.text = Nothing /\ Resting.coll = Default
    <3>1. InPast
      BY DEF IInv
    <3> QED BY <1>2, <3>1, RestingIs DEF Resting
  <2>2. call' = [call EXCEPT ![p] = x]
    BY <1>1
  <2> HIDE DEF x, new
  <2>3. /\ x \in Calls /\ x.pc = "record" /\ x.new = new /\ x.text = Nothing
        /\ x.removed = call[p].removed /\ x.search = call[p].search /\ x.coll = Default
    BY <1>2, <2>1 DEF Calls, x
  <2>4. call'[p] = x /\ call' \in [Proc -> Calls] /\ \A q \in Proc : q # p => call'[q] = call[q]
    BY <1>2, <2>2, <2>3
  <2> QED BY <2>3, <2>4
<1>4. /\ W \subseteq File /\ Present' = Present /\ Restamped(p) \subseteq W
      /\ \A q \in Proc : q # p /\ IsUnsaved(q) => stale'[q] = stale[q] \cup ({c} \X W)
      /\ stale' \in [Proc -> SUBSET (Coll \X File)]
  BY <1>1, <1>2 DEF Wrote, Present, Restamped, IsUnsaved
<1>5. /\ rows' \in [Coll -> SUBSET Row]
      /\ \A f \in File : RowsOf(c, f)' =
           IF f \in W THEN Embedded(f, call[p].text[f]) ELSE Files(call[p].col, f)
      /\ \A d \in Coll : d # c => \A f : RowsOf(d, f)' = RowsOf(d, f)
  BY <1>0, CommitRows DEF RowsOf, Files
<1>6. \A f \in File : f \notin Excused(c)' =>
        /\ <<c, f>> \notin stale[p]
        /\ f \in Late(p) => <<c, f>> \notin elsewhere
        /\ f \in W /\ f \in Present => call[p].text[f] # 0
        /\ f \notin W => f \notin Excused(c)
  <2>1. SUFFICES ASSUME NEW f \in File, f \notin Excused(c)'
                 PROVE  /\ <<c, f>> \notin stale[p]
                        /\ f \in Late(p) => <<c, f>> \notin elsewhere
                        /\ f \in W /\ f \in Present => call[p].text[f] # 0
                        /\ f \notin W => f \notin Excused(c)
    OBVIOUS
  <2>2. <<c, f>> \notin spoiled' /\ <<c, f>> \notin elsewhere'
    BY <2>1 DEF Excused, Spoiled
  <2>3. <<c, f>> \notin stale[p] /\ (f \notin W => <<c, f>> \notin spoiled)
    BY <1>1, <2>2
  <2>4. /\ f \in Late(p) => <<c, f>> \notin elsewhere
        /\ f \notin W => <<c, f>> \notin elsewhere
    BY <1>1, <2>2
  <2>5. f \in W /\ f \in Present => call[p].text[f] # 0
    BY <1>1, <2>2 DEF ReadBy
  <2> QED BY <2>3, <2>4, <2>5 DEF Excused, Spoiled
<1>7. \A d \in Coll, f \in File : d # c /\ f \notin Excused(d)' =>
        f \notin Excused(d) /\ f \notin Restamped(p)
  <2>1. SUFFICES ASSUME NEW d \in Coll, NEW f \in File, d # c, f \notin Excused(d)'
                 PROVE  f \notin Excused(d) /\ f \notin Restamped(p)
    OBVIOUS
  <2>2. <<d, f>> \notin spoiled' /\ <<d, f>> \notin elsewhere'
    BY <2>1 DEF Excused, Spoiled
  <2>3. <<d, f>> \notin spoiled
    BY <1>1, <2>1, <2>2
  <2>4. <<d, f>> \notin elsewhere /\ f \notin Restamped(p)
    BY <1>1, <2>1, <2>2
  <2> QED BY <2>3, <2>4 DEF Excused, Spoiled
<1>8. \A f \in Present : Named(f)' => Named(f) \/ (new[f] = src[f] /\ f \in Restamped(p))
  <2>1. SUFFICES ASSUME NEW f \in Present, Named(f)', ~Named(f)
                 PROVE  new[f] = src[f] /\ f \in Restamped(p)
    OBVIOUS
  <2>2. new[f] = src[f]
    BY <1>1, <1>3, <2>1 DEF Named
  <2>3. f \in File /\ src[f] # 0 /\ fp[p][f] # src[f]
    BY <2>1 DEF Present, Named
  <2>4. f \in call[p].changed
    BY <1>1, <2>2, <2>3 DEF IInv, WalkRight
  <2> QED BY <2>2, <2>3, <2>4 DEF Restamped
<1>9. \A q \in Proc : \A f : HasText(q, f)' =>
        q # p /\ HasText(q, f) /\ call'[q] = call[q] /\ stale'[q] = stale[q] \cup ({c} \X W)
  BY <1>3, <1>4 DEF HasText, IsUnsaved, Unsaved
<1>10. TypeInv'
  <2>1. Calls' = Calls /\ Version' = Version /\ Row' = Row
    BY DEF Calls, Version, Row
  <2> QED BY <1>1, <1>2, <1>3, <1>4, <1>5, <2>1 DEF TypeInv
<1>11. InPast'
  <2>1. \A q \in Proc : /\ call'[q].new = call[q].new
                        /\ call'[q].text = call[q].text \/ call'[q].text = Nothing
    BY <1>3
  <2> QED BY <1>1, <1>2, <2>1 DEF InPast, Past
<1>12. WalkRight' /\ StampRight' /\ SearchesDefault' /\ TextRight'
  <2>1. WalkRight'
    <3>1. \A q \in Proc : IsUnsaved(q)' => q # p /\ IsUnsaved(q)
      BY <1>3 DEF IsUnsaved, Unsaved
    <3> QED BY <1>1, <1>3, <3>1 DEF IInv, WalkRight
  <2>2. StampRight'
    <3>1. \A q \in Proc : IsUnsaved(q)' \/ call'[q].pc = "record" =>
            (IsUnsaved(q) \/ call[q].pc = "record") /\ call'[q].new = call[q].new
      BY <1>1, <1>3 DEF IsUnsaved
    <3> QED BY <1>1, <3>1 DEF IInv, StampRight
  <2>3. SearchesDefault'
    BY <1>3 DEF IInv, SearchesDefault
  <2>4. TextRight'
    BY <1>1, <1>9 DEF IInv, TextRight
  <2> QED BY <2>1, <2>2, <2>3, <2>4
<1>13. NamedIsFresh'
  <2>1. SUFFICES ASSUME NEW d \in Coll, NEW f \in Present, f \notin Excused(d)', Named(f)'
                 PROVE  Fresh(d, f)'
    BY <1>4 DEF NamedIsFresh
  <2>2. f \in File /\ src[f] # 0
    BY DEF Present
  <2>3. CASE d # c
    <3>1. f \notin Excused(d) /\ Named(f)
      BY <1>7, <1>8, <2>1, <2>2, <2>3
    <3>2. Fresh(d, f)
      BY <3>1 DEF IInv, NamedIsFresh
    <3> QED BY <1>1, <1>5, <2>3, <3>2 DEF Fresh
  <2>4. CASE d = c /\ f \in W
    <3>1. HasText(p, f) /\ <<c, f>> \notin stale[p] /\ (f \in Late(p) => <<c, f>> \notin elsewhere)
      BY <1>1, <1>6, <2>1, <2>2, <2>4 DEF HasText
    <3>2. ~Missed(p, f)
      BY <1>0, <3>1 DEF Missed
    <3>3. call[p].text[f] = src[f]
      BY <1>8, <2>1, <2>2, <3>1, <3>2 DEF IInv, OldTextIsStale, TextRight
    <3>4. RowsOf(c, f)' = Embedded(f, src[f])
      BY <1>5, <2>2, <2>4, <3>3
    <3> QED BY <1>1, <2>4, <3>4 DEF Fresh
  <2>5. CASE d = c /\ f \notin W
    <3>1. f \notin Excused(c) /\ <<c, f>> \notin stale[p] /\ Named(f)
      BY <1>4, <1>6, <1>8, <2>1, <2>2, <2>5
    <3>2. Files(call[p].col, f) = RowsOf(c, f)
      BY <1>0, <1>1, <2>2, <3>1 DEF IInv, CopyRight, Promised
    <3>3. Fresh(c, f)
      BY <3>1 DEF IInv, NamedIsFresh
    <3>4. RowsOf(c, f)' = Embedded(f, src[f])
      BY <1>5, <2>2, <2>5, <3>2, <3>3 DEF Fresh
    <3> QED BY <1>1, <2>5, <3>4 DEF Fresh
  <2> QED BY <2>3, <2>4, <2>5
<1>14. OldTextIsStale'
  <2>1. SUFFICES ASSUME NEW f \in Present, Named(f)', NEW q \in Proc, HasText(q, f)',
                        call'[q].text[f] # src[f]
                 PROVE  Missed(q, f)'
    BY <1>1, <1>4 DEF OldTextIsStale
  <2>2. PICK e \in Coll : e = call[q].coll
    BY <1>2 DEF Calls
  <2>3. /\ HasText(q, f) /\ call[q].text[f] # src[f] /\ stale'[q] = stale[q] \cup ({c} \X W)
        /\ call'[q].coll = e /\ f \in File
    BY <1>9, <2>1, <2>2 DEF Present
  <2>4. f \in W => f \in Late(q)'
    BY <2>3 DEF Late
  <2>5. <<e, f>> \in stale'[q] \/ (<<e, f>> \in elsewhere' /\ f \in Late(q)')
    <3>1. CASE Named(f)
      <4>1. Missed(q, f)
        BY <2>1, <2>3, <3>1 DEF IInv, OldTextIsStale
      <4>2. <<e, f>> \in stale[q] \/ (<<e, f>> \in elsewhere /\ f \in Late(q))
        BY <2>2, <4>1 DEF Missed
      <4>3. f \in Late(q) => f \in Late(q)'
        BY <2>3 DEF Late
      <4>4. <<e, f>> \in elsewhere => <<e, f>> \in elsewhere' \/ (e = c /\ f \in W)
        BY <1>1
      <4> QED BY <2>3, <4>2, <4>3, <4>4
    <3>2. CASE ~Named(f)
      <4>1. f \in Restamped(p) /\ f \in W
        BY <1>4, <1>8, <2>1, <3>2
      <4>2. e # c => <<e, f>> \in elsewhere'
        BY <1>1, <4>1
      <4> QED BY <2>3, <2>4, <4>1, <4>2
    <3> QED BY <3>1, <3>2
  <2> QED BY <2>3, <2>5 DEF Missed
<1>15. \A q \in Proc : Saved(q)' =>
         /\ q # p => Saved(q)
         /\ q = p => call[p].search /\ c = Default
         /\ call'[q].removed = call[q].removed /\ passed'[q] = passed[q]
  BY <1>0, <1>1, <1>3 DEF Saved, IInv, SearchesDefault
<1>16. \A f \in File : Gone(f)' => Gone(f) \/ (f \in W /\ c = Default)
  BY <1>1, <1>15 DEF Gone, Wrote
<1>17. CopyRight'
  <2>1. SUFFICES ASSUME NEW q \in Proc, NEW e \in Coll, call'[q].pc = "write", call'[q].coll = e,
                        NEW f \in File, f \notin Excused(e)', <<e, f>> \notin stale'[q],
                        Promised(e, f)'
                 PROVE  Files(call'[q].col, f) = RowsOf(e, f)'
    BY DEF CopyRight, Files, RowsOf
  <2>2. q # p /\ call'[q] = call[q] /\ call[q].pc = "write" /\ call[q].coll = e
    BY <1>3, <2>1
  <2>3. stale'[q] = stale[q] \cup ({c} \X W) /\ <<e, f>> \notin stale[q]
    BY <1>4, <2>1, <2>2 DEF IsUnsaved, Unsaved
  <2>4. f \notin Excused(e) /\ (e = c => f \notin W) /\ f \notin Restamped(p)
    BY <1>4, <1>6, <1>7, <2>1, <2>3
  <2>5. Promised(e, f)
    <3>1. e = Default /\ Gone(f)' => Gone(f)
      BY <1>16, <2>4
    <3>2. f \in Present' /\ Named(f)' => f \in Present /\ Named(f)
      BY <1>4, <1>8, <2>4
    <3> QED BY <2>1, <3>1, <3>2 DEF Promised
  <2>6. Files(call[q].col, f) = RowsOf(e, f)
    BY <2>2, <2>3, <2>4, <2>5 DEF IInv, CopyRight
  <2>7. RowsOf(e, f)' = RowsOf(e, f)
    <3>1. CASE e = c
      <4>1. <<c, f>> \notin stale[p]
        BY <1>6, <2>1, <3>1
      <4>2. Files(call[p].col, f) = RowsOf(c, f)
        BY <1>0, <1>1, <2>4, <2>5, <3>1, <4>1 DEF IInv, CopyRight
      <4> QED BY <1>5, <2>4, <3>1, <4>2
    <3>2. CASE e # c
      BY <1>5, <3>2
    <3> QED BY <3>1, <3>2
  <2> QED BY <2>2, <2>6, <2>7
<1>18. AnswerNamed'
  <2>1. \A q \in Proc : call'[q].pc = "answer" => call[q].pc = "answer"
    BY <1>3
  <2> QED BY <1>1, <1>4, <2>1 DEF IInv, AnswerNamed
<1>19. SavedIsFresh'
  <2>1. SUFFICES ASSUME NEW q \in Proc, Saved(q)', NEW f \in File, f \notin passed[q],
                        f \notin Excused(Default)', f \in Present \cup call[q].removed
                 PROVE  Fresh(Default, f)'
    BY <1>4, <1>15 DEF SavedIsFresh
  <2>2. CASE f \in Present
    <3>1. CASE call'[q].pc = "answer"
      <4>1. fp[q][f] = src[f]
        BY <1>3, <2>1, <2>2, <3>1 DEF IInv, AnswerNamed
      <4>2. Named(f)'
        BY <1>1, <4>1 DEF Named
      <4> QED BY <1>4, <1>13, <2>1, <2>2, <4>2, ConstantsAssumption DEF NamedIsFresh
    <3>2. CASE call'[q].pc = "record"
      <4>1. (IsUnsaved(q) \/ call[q].pc = "record") /\ call'[q].new = call[q].new
        BY <1>1, <1>3, <3>2
      <4>2. call'[q].new[f] = src[f]
        BY <2>1, <4>1 DEF IInv, StampRight
      <4>3. Named(f)'
        BY <1>1, <3>2, <4>2 DEF Named
      <4> QED BY <1>4, <1>13, <2>1, <2>2, <4>3, ConstantsAssumption DEF NamedIsFresh
    <3> QED BY <2>1, <3>1, <3>2 DEF Saved
  <2>3. CASE f \notin Present
    <3>1. src[f] = 0 /\ f \in call[q].removed
      BY <2>1, <2>3 DEF Present
    <3>2. CASE q = p
      <4>1. f \in W /\ new[f] = 0 /\ c = Default
        BY <1>1, <1>15, <2>1, <3>1, <3>2 DEF IInv, WalkRight, Wrote
      <4>2. call[p].text[f] = 0
        BY <1>1, <2>1, <4>1 DEF IInv, WalkRight, TextRight, HasText
      <4>3. RowsOf(c, f)' = Embedded(f, src[f])
        BY <1>5, <2>1, <3>1, <4>1, <4>2
      <4> QED BY <1>1, <4>1, <4>3 DEF Fresh
    <3>3. CASE q # p
      <4>1. Saved(q) /\ Gone(f)
        BY <1>15, <2>1, <3>1, <3>3 DEF Gone
      <4>2. CASE c # Default
        <5>1. f \notin Excused(Default)
          BY <1>7, <2>1, <4>2, ConstantsAssumption
        <5>2. Fresh(Default, f)
          BY <2>1, <4>1, <5>1 DEF IInv, SavedIsFresh
        <5> QED BY <1>1, <1>5, <4>2, <5>2, ConstantsAssumption DEF Fresh
      <4>3. CASE c = Default /\ f \in W
        <5>1. ~HasText(p, f)
          BY <1>0, <1>6, <2>1, <4>1, <4>3 DEF IInv, RemovedIsStale
        <5>2. call[p].text[f] = 0
          BY <1>1, <5>1 DEF HasText
        <5>3. RowsOf(c, f)' = Embedded(f, src[f])
          BY <1>5, <2>1, <3>1, <4>3, <5>2
        <5> QED BY <1>1, <4>3, <5>3 DEF Fresh
      <4>4. CASE c = Default /\ f \notin W
        <5>1. f \notin Excused(c) /\ <<c, f>> \notin stale[p]
          BY <1>6, <2>1, <4>4
        <5>2. Promised(c, f)
          BY <4>1, <4>4 DEF Promised
        <5>3. Files(call[p].col, f) = RowsOf(c, f)
          BY <1>0, <1>1, <2>1, <5>1, <5>2 DEF IInv, CopyRight
        <5>4. Fresh(c, f)
          BY <2>1, <4>1, <4>4, <5>1 DEF IInv, SavedIsFresh
        <5>5. RowsOf(c, f)' = Embedded(f, src[f])
          BY <1>5, <2>1, <4>4, <5>3, <5>4 DEF Fresh
        <5> QED BY <1>1, <4>4, <5>5 DEF Fresh
      <4> QED BY <4>2, <4>3, <4>4
    <3> QED BY <3>2, <3>3
  <2> QED BY <2>2, <2>3
<1>20. RemovedIsStale'
  <2>1. SUFFICES ASSUME NEW f \in File, Gone(f)', NEW r \in Proc, HasText(r, f)',
                        call'[r].coll = Default
                 PROVE  <<Default, f>> \in stale'[r]
    BY DEF RemovedIsStale
  <2>2. HasText(r, f) /\ call[r].coll = Default /\ stale'[r] = stale[r] \cup ({c} \X W)
    BY <1>9, <2>1
  <2>3. CASE Gone(f)
    BY <2>2, <2>3 DEF IInv, RemovedIsStale
  <2>4. CASE f \in W /\ c = Default
    BY <2>2, <2>4
  <2> QED BY <1>16, <2>1, <2>3, <2>4
<1> QED BY <1>10, <1>11, <1>12, <1>13, <1>14, <1>17, <1>18, <1>19, <1>20 DEF IInv

-----------------------------------------------------------------------------
LEMMA Initially ==
  ASSUME Init
  PROVE  IInv
<1>1. 0 \in Version /\ edits = 0 /\ 0 <= edits
  BY BoundsAssumption DEF Init, Version
<1>2. /\ src = Nothing /\ fpfile = Nothing /\ fp = [p \in Proc |-> Nothing]
      /\ rows = [c \in Coll |-> {}] /\ call = [p \in Proc |-> Resting]
      /\ passed = [p \in Proc |-> {}] /\ stale = [p \in Proc |-> {}]
  BY DEF Init
<1>3. Nothing \in [File -> Version] /\ Past(Nothing) /\ Default \in Coll
  BY <1>1, ConstantsAssumption DEF Nothing, Past
<1>4. /\ Resting \in Calls /\ Resting.pc = "idle" /\ Resting.new = Nothing
      /\ Resting.text = Nothing /\ Resting.search = FALSE
  BY <1>3 DEF Resting, Calls
<1>5. TypeInv /\ InPast
  BY <1>1, <1>2, <1>3, <1>4 DEF TypeInv, InPast
<1>6. Present = {} /\ \A p \in Proc : call[p].pc = "idle" /\ ~call[p].search
  BY <1>2, <1>4 DEF Present, Nothing
<1>7. NamedIsFresh /\ OldTextIsStale
  BY <1>6 DEF NamedIsFresh, OldTextIsStale
<1>8. /\ SearchesDefault /\ WalkRight /\ StampRight /\ TextRight
      /\ CopyRight /\ AnswerNamed /\ SavedIsFresh /\ RemovedIsStale
  BY <1>6 DEF SearchesDefault, WalkRight, StampRight, TextRight, CopyRight, AnswerNamed,
              SavedIsFresh, RemovedIsStale, IsUnsaved, Unsaved, HasText, Saved
<1> QED BY <1>5, <1>7, <1>8 DEF IInv

LEMMA Unchanged ==
  ASSUME IInv, UNCHANGED vars
  PROVE  IInv'
<1>1. /\ src' = src /\ edits' = edits /\ rows' = rows /\ there' = there /\ fp' = fp
      /\ fpfile' = fpfile /\ call' = call /\ passed' = passed /\ stale' = stale
      /\ spoiled' = spoiled /\ elsewhere' = elsewhere
  BY DEF vars
<1>2. /\ Present' = Present /\ \A c : Excused(c)' = Excused(c)
      /\ \A c, f : (Fresh(c, f)' <=> Fresh(c, f)) /\ RowsOf(c, f)' = RowsOf(c, f)
      /\ \A f : (Named(f)' <=> Named(f)) /\ (Gone(f)' <=> Gone(f))
  BY <1>1 DEF Present, Excused, Spoiled, Fresh, RowsOf, Named, Gone, Saved
<1>3. TypeInv'
  <2>1. Calls' = Calls /\ Version' = Version /\ Row' = Row
    BY DEF Calls, Version, Row
  <2> QED BY <1>1, <2>1 DEF IInv, TypeInv
<1>4. InPast' /\ SearchesDefault' /\ WalkRight' /\ StampRight' /\ TextRight'
  BY <1>1 DEF IInv, InPast, Past, SearchesDefault, WalkRight, StampRight, IsUnsaved, TextRight,
              HasText
<1>5. NamedIsFresh' /\ OldTextIsStale'
  BY <1>1, <1>2 DEF IInv, NamedIsFresh, OldTextIsStale, HasText, Missed, Late
<1>6. CopyRight'
  BY <1>1, <1>2 DEF IInv, CopyRight, Promised, Files
<1>7. AnswerNamed' /\ SavedIsFresh' /\ RemovedIsStale'
  BY <1>1, <1>2 DEF IInv, AnswerNamed, SavedIsFresh, Saved, RemovedIsStale, HasText
<1> QED BY <1>3, <1>4, <1>5, <1>6, <1>7 DEF IInv

LEMMA Inductive ==
  ASSUME IInv, [Next]_vars
  PROVE  IInv'
<1>1. ASSUME NEW f \in File, Edit(f) \/ Remove(f) PROVE IInv'
  BY <1>1, EditKeeps, RemoveKeeps
<1>2. ASSUME NEW p \in Proc, NEW c \in Coll, NEW force \in BOOLEAN, NEW search \in BOOLEAN,
             NEW S \in SUBSET Present, Walk(p, c, force, search, S)
      PROVE  IInv'
  BY <1>2, WalkKeeps
<1>3. ASSUME NEW p \in Proc, NEW R \in SUBSET File, Read(p, R) PROVE IInv'
  BY <1>3, ReadKeeps
<1>4. ASSUME NEW p \in Proc, OpenCol(p) \/ Commit(p) \/ Record(p) \/ Restart(p) PROVE IInv'
  BY <1>4, OpenKeeps, CommitKeeps, RecordKeeps, RestartKeeps
<1>5. ASSUME NEW p \in Proc, Raise(p) \/ Search(p) PROVE IInv'
  BY <1>5, RestKeeps DEF Raise, Search
<1>6. CASE UNCHANGED vars
  BY <1>6, Unchanged
<1> QED BY <1>1, <1>2, <1>3, <1>4, <1>5, <1>6 DEF Next

THEOREM Invariance == Spec => []IInv
<1>1. Init => IInv
  BY Initially
<1>2. IInv /\ [Next]_vars => IInv'
  BY Inductive
<1> QED BY <1>1, <1>2, PTL DEF Spec

(* FingerprintHonest, for any number of collections: whatever is edited while calls walk, *)
(* read, save over each other, raise or are cut off by a restart, and whichever            *)
(* collections they index into, a file whose stamp is the recorded one has its rows in      *)
(* every collection but those a call left its file out of (index_repo).            *)
THEOREM FingerprintsAreHonest == Spec => []FingerprintHonest
<1>1. IInv => FingerprintHonest
  BY DEF IInv, NamedIsFresh, Named, FingerprintHonest
<1> QED BY <1>1, Invariance, PTL

(* SearchIsFresh, for any number of collections: repo_search answers from the current   *)
(* version of a file, or from none of a file that went, except for those the call could   *)
(* not see, that another call dropped or saved over, or whose stamp a call on another     *)
(* collection recorded.                                                     *)
THEOREM SearchesAreFresh == Spec => []SearchIsFresh
<1>1. IInv => SearchIsFresh
  BY DEF IInv, SavedIsFresh, Saved, SearchIsFresh
<1> QED BY <1>1, Invariance, PTL

-----------------------------------------------------------------------------
(* Types, for any collections.                                                 *)

Right == {r \in Row : r.idx \in Chunks[r.ver]}
RightCalls == [pc : {"idle", "read", "open", "write", "record", "answer"},
               coll : Coll, search : BOOLEAN, new : [File -> Version],
               changed : SUBSET File, removed : SUBSET File,
               text : [File -> Version], col : SUBSET Right]

RightTypes ==
  /\ src \in [File -> Version] /\ edits \in Version
  /\ rows \in [Coll -> SUBSET Right] /\ there \subseteq Coll
  /\ fp \in [Proc -> [File -> Version]] /\ fpfile \in [File -> Version]
  /\ call \in [Proc -> RightCalls]
  /\ faults \in 0..MaxFaults
  /\ passed \in [Proc -> SUBSET File] /\ stale \in [Proc -> SUBSET (Coll \X File)]
  /\ spoiled \subseteq Coll \X File /\ elsewhere \subseteq Coll \X File

LEMMA EmbeddedIsRight ==
  ASSUME NEW f \in File, NEW v \in Version
  PROVE  Embedded(f, v) \subseteq Right
<1>1. CASE v = 0
  BY <1>1 DEF Embedded
<1>2. CASE v # 0
  <2>1. Embedded(f, v) = {[file |-> f, idx |-> i, ver |-> v] : i \in Chunks[v]}
    BY <1>2 DEF Embedded
  <2>2. Chunks[v] \subseteq Nat
    BY <1>2, BoundsAssumption, ConstantsAssumption DEF Version
  <2> QED BY <2>1, <2>2 DEF Row, Right
<1> QED BY <1>1, <1>2

LEMMA FaultIs ==
  ASSUME NEW b \in BOOLEAN, Fault(b), faults \in 0..MaxFaults
  PROVE  faults' \in 0..MaxFaults
BY BoundsAssumption DEF Fault

LEMMA RestingIsRight ==
  /\ Nothing \in [File -> Version] /\ 0 \in Version
  /\ Resting \in RightCalls
<1>1. Nothing \in [File -> Version] /\ 0 \in Version /\ Default \in Coll
  BY BoundsAssumption, ConstantsAssumption DEF Nothing, Version
<1> QED BY <1>1 DEF Resting, RightCalls

LEMMA RightTypesKept ==
  ASSUME RightTypes, [Next]_vars
  PROVE  RightTypes'
<1> USE DEF RightTypes
<1>0. /\ Version' = Version /\ Row' = Row /\ Right' = Right /\ RightCalls' = RightCalls
      /\ Present \subseteq File
  BY DEF Version, Row, Right, RightCalls, Present
<1>c. \A p \in Proc : call[p] \in RightCalls
  OBVIOUS
<1>1. ASSUME NEW f \in File, Edit(f) \/ Remove(f) PROVE RightTypes'
  <2>1. src' \in [File -> Version] /\ edits' \in Version /\ Touch(f)
    <3>1. CASE Edit(f)
      <4>1. edits + 1 \in Version /\ edits' = edits + 1 /\ src' = [src EXCEPT ![f] = edits + 1]
        BY <3>1, BoundsAssumption DEF Edit, Version
      <4> QED BY <3>1, <4>1 DEF Edit
    <3>2. CASE Remove(f)
      <4>1. src' = [src EXCEPT ![f] = 0] /\ edits' = edits
        BY <3>2 DEF Remove
      <4> QED BY <3>2, <4>1, RestingIsRight DEF Remove
    <3> QED BY <1>1, <3>1, <3>2
  <2>2. /\ passed' \in [Proc -> SUBSET File] /\ spoiled' \subseteq Coll \X File
        /\ elsewhere' \subseteq Coll \X File
        /\ UNCHANGED <<rows, there, fp, fpfile, call, faults, stale>>
    BY <2>1 DEF Touch, index
  <2> QED BY <1>0, <2>1, <2>2
<1>2. ASSUME NEW p \in Proc, NEW c \in Coll, NEW force \in BOOLEAN, NEW search \in BOOLEAN,
             NEW S \in SUBSET Present, Walk(p, c, force, search, S)
      PROVE  RightTypes'
  <2> DEFINE changed == Changed(S, fp[p], force)
             removed == {f \in File \ S : fp[p][f] # 0}
             hit == ~force /\ changed = {} /\ removed = {} /\ c \in there
             new == [f \in File |-> IF f \in S THEN src[f] ELSE 0]
             x == [Resting EXCEPT !.pc = IF search THEN "answer" ELSE "idle"]
             y == [Resting EXCEPT !.pc = "read", !.coll = c, !.search = search,
                     !.changed = changed, !.removed = removed, !.new = new]
  <2>1. /\ call' = [call EXCEPT ![p] = IF hit THEN x ELSE y]
        /\ passed' = [passed EXCEPT ![p] = IF hit /\ ~search THEN {} ELSE Present \ S]
        /\ stale' = [stale EXCEPT ![p] = {}]
        /\ UNCHANGED <<tree, index, fp, fpfile, spoiled, elsewhere>> /\ Fault(S # Present)
    BY <1>2 DEF Walk
  <2>2. new \in [File -> Version] /\ changed \subseteq File /\ removed \subseteq File
    BY <1>0, RestingIsRight DEF Changed
  <2>3. x \in RightCalls
    BY RestingIsRight DEF RightCalls
  <2>4. y \in RightCalls
    <3> HIDE DEF hit, new, changed, removed
    <3>1. Resting \in RightCalls
      BY RestingIsRight
    <3> QED BY <2>2, <3>1 DEF RightCalls
  <2> HIDE DEF x, y, hit, new, changed, removed
  <2>5. call' \in [Proc -> RightCalls]
    BY <2>1, <2>3, <2>4
  <2>6. passed' \in [Proc -> SUBSET File] /\ stale' \in [Proc -> SUBSET (Coll \X File)]
    BY <1>0, <2>1
  <2>7. faults' \in 0..MaxFaults
    BY <2>1, FaultIs
  <2> QED BY <1>0, <2>1, <2>5, <2>6, <2>7 DEF tree, index
<1>3. ASSUME NEW p \in Proc, NEW R \in SUBSET File, Read(p, R) PROVE RightTypes'
  <2> DEFINE text == [f \in File |-> IF f \in R THEN src[f] ELSE 0]
             x == [call[p] EXCEPT !.pc = "open", !.text = text]
  <2>1. text \in [File -> Version] /\ call' = [call EXCEPT ![p] = x]
    BY <1>3, RestingIsRight DEF Read
  <2> HIDE DEF text
  <2>2. x \in RightCalls
    BY ONLY <1>c, <2>1, p \in Proc DEF RightCalls
  <2>3. call' \in [Proc -> RightCalls]
    <3> HIDE DEF x
    <3> QED BY <2>1, <2>2
  <2>4. faults' \in 0..MaxFaults
    BY <1>3, FaultIs DEF Read
  <2> QED BY <1>0, <1>3, <2>3, <2>4 DEF Read, tree, index, history
<1>4. ASSUME NEW p \in Proc, OpenCol(p) PROVE RightTypes'
  <2>1. rows[call[p].coll] \subseteq Right /\ rows[call[p].coll] \subseteq Row
    BY DEF RightCalls, Right
  <2> DEFINE x == [call[p] EXCEPT !.pc = "write", !.col = rows[call[p].coll]]
  <2>2. x \in RightCalls
    BY ONLY <1>c, <2>1, p \in Proc DEF RightCalls
  <2>3. call' = [call EXCEPT ![p] = x]
    BY <1>4 DEF OpenCol
  <2>4. call' \in [Proc -> RightCalls]
    <3> HIDE DEF x
    <3> QED BY <2>2, <2>3
  <2> QED BY <1>0, <1>4, <2>4 DEF OpenCol, tree, index, history
<1>5. ASSUME NEW p \in Proc, Commit(p) PROVE RightTypes'
  <2> DEFINE fresh == UNION {Embedded(f, call[p].text[f]) : f \in File}
             saved == {r \in call[p].col \ StaleRows(p) :
                         ~(\E s \in fresh : s.file = r.file /\ s.idx = r.idx)} \cup fresh
  <2>1. /\ call[p].coll \in Coll /\ call[p].col \subseteq Right
        /\ \A f \in File : call[p].text[f] \in Version
        /\ Wrote(p) \subseteq File /\ Restamped(p) \subseteq File
    BY DEF RightCalls, Wrote, Restamped
  <2>2. fresh \subseteq Right
    BY <2>1, EmbeddedIsRight
  <2>3. saved \subseteq Right
    <3> HIDE DEF fresh
    <3> QED BY <2>1, <2>2
  <2>4. rows' = [rows EXCEPT ![call[p].coll] = saved]
    BY <1>5 DEF Commit
  <2> HIDE DEF saved
  <2>5. rows' \in [Coll -> SUBSET Right]
    BY <2>1, <2>3, <2>4
  <2>6. call' \in [Proc -> RightCalls]
    <3> DEFINE x == [Resting EXCEPT !.pc = "record", !.search = call[p].search,
                       !.new = call[p].new, !.removed = call[p].removed]
    <3>1. call[p].search \in BOOLEAN /\ call[p].new \in [File -> Version] /\ call[p].removed \subseteq File
      BY DEF RightCalls
    <3>2. x \in RightCalls
      BY <3>1, RestingIsRight DEF RightCalls
    <3>3. call' = [call EXCEPT ![p] = x]
      BY <1>5 DEF Commit
    <3> HIDE DEF x
    <3> QED BY <3>2, <3>3
  <2>7. /\ stale' = [q \in Proc |->
             IF q = p \/ call[q].pc \notin Unsaved THEN {}
             ELSE stale[q] \cup ({call[p].coll} \X Wrote(p))]
        /\ there' = there \cup {call[p].coll}
        /\ UNCHANGED <<tree, fp, fpfile, faults, passed>>
    BY <1>5 DEF Commit
  <2>8. spoiled' \subseteq Coll \X File
    <3>1. spoiled' = (spoiled \ ({call[p].coll} \X Wrote(p)))
                       \cup (stale[p] \cap ({call[p].coll} \X File))
                       \cup ({call[p].coll} \X (Present \cap (Wrote(p) \ ReadBy(p))))
      BY <1>5 DEF Commit
    <3> QED BY <1>0, <2>1, <3>1
  <2>9. elsewhere' \subseteq Coll \X File
    <3>1. elsewhere' = (elsewhere \ ({call[p].coll} \X (Wrote(p) \ Late(p))))
                         \cup ((Coll \ {call[p].coll}) \X Restamped(p))
      BY <1>5 DEF Commit
    <3> QED BY <2>1, <3>1
  <2>10. stale' \in [Proc -> SUBSET (Coll \X File)] /\ there' \subseteq Coll
    BY <2>1, <2>7
  <2> QED BY <1>0, <2>5, <2>6, <2>7, <2>8, <2>9, <2>10 DEF tree
<1>6. ASSUME NEW p \in Proc, Record(p) PROVE RightTypes'
  <2> DEFINE x == IF call[p].search
                  THEN [Resting EXCEPT !.pc = "answer", !.removed = call[p].removed] ELSE Resting
  <2>1. call[p].new \in [File -> Version] /\ call[p].removed \subseteq File
    BY DEF RightCalls
  <2>2. x \in RightCalls
    BY <2>1, RestingIsRight DEF Resting, RightCalls
  <2>3. call' = [call EXCEPT ![p] = x] /\ fp' = [fp EXCEPT ![p] = call[p].new]
    BY <1>6 DEF Record
  <2> HIDE DEF x
  <2>4. call' \in [Proc -> RightCalls] /\ fp' \in [Proc -> [File -> Version]]
    BY <2>1, <2>2, <2>3
  <2>5. fpfile' \in [File -> Version] /\ passed' \in [Proc -> SUBSET File]
    BY <1>6, <2>1 DEF Record
  <2> QED BY <1>0, <1>6, <2>4, <2>5 DEF Record, tree, index
<1>7. ASSUME NEW p \in Proc, End(p)
      PROVE  /\ call' \in [Proc -> RightCalls] /\ passed' \in [Proc -> SUBSET File]
             /\ stale' \in [Proc -> SUBSET (Coll \X File)]
             /\ spoiled' = spoiled /\ elsewhere' = elsewhere
  BY <1>7, RestingIsRight DEF End
<1>8. ASSUME NEW p \in Proc, Raise(p) \/ Search(p) PROVE RightTypes'
  <2>1. End(p) /\ UNCHANGED <<tree, index, fp, fpfile, faults>>
    BY <1>8 DEF Raise, Search
  <2> QED BY <1>0, <1>7, <2>1 DEF tree, index
<1>9. ASSUME NEW p \in Proc, Restart(p) PROVE RightTypes'
  <2>1. fp' \in [Proc -> [File -> Version]] /\ End(p) /\ UNCHANGED <<tree, index, fpfile>>
    BY <1>9, RestingIsRight DEF Restart
  <2>2. faults' \in 0..MaxFaults
    BY <1>9, FaultIs DEF Restart
  <2> QED BY <1>0, <1>7, <2>1, <2>2 DEF tree, index
<1>10. CASE UNCHANGED vars
  BY <1>0, <1>10 DEF vars
<1> QED BY <1>1, <1>2, <1>3, <1>4, <1>5, <1>6, <1>8, <1>9, <1>10 DEF Next

(* TypeOK: among the types, no row of any collection is a chunk past those of the       *)
(* version it was made of, whichever calls saved over each other (index_repo).       *)
THEOREM TypesAreRight == Spec => []TypeOK
<1>1. Init => RightTypes
  <2>1. SUFFICES ASSUME Init PROVE RightTypes
    OBVIOUS
  <2> QED BY <2>1, RestingIsRight, BoundsAssumption DEF Init, RightTypes
<1>2. RightTypes /\ [Next]_vars => RightTypes'
  BY RightTypesKept
<1>3. RightTypes => TypeOK
  BY DEF RightTypes, TypeOK, Right, RightCalls
<1> QED BY <1>1, <1>2, <1>3, PTL DEF Spec

-----------------------------------------------------------------------------
(* That _chunk_text leaves no line out, for every text and every window.          *)

LEMMA StepBounds ==
  ASSUME NEW window \in Nat \ {0}, NEW overlap \in Nat
  PROVE  StepOf(window, overlap) \in 1..window
  BY DEF StepOf

LEMMA Divide ==
  ASSUME NEW a \in Nat, NEW d \in Nat, d > 0
  PROVE  /\ a \div d \in Nat
         /\ (a \div d) * d <= a /\ a < ((a \div d) + 1) * d
  OBVIOUS

LEMMA TimesLess ==
  ASSUME NEW i \in Nat, NEW j \in Nat, NEW d \in Nat, d > 0
  PROVE  /\ i * d \in Nat
         /\ i <= j => i * d <= j * d
         /\ i * d < j * d => i < j
         /\ i <= i * d
<1>1. i * d \in Nat /\ i <= i * d
  OBVIOUS
<1>2. i <= j => i * d <= j * d
  OBVIOUS
<1>3. j <= i => j * d <= i * d
  OBVIOUS
<1> QED BY <1>1, <1>2, <1>3

(* What it is to be a start.                                                    *)
LEMMA StartIs ==
  ASSUME NEW n \in Nat, NEW window \in Nat \ {0}, NEW overlap \in Nat,
         NEW s \in Starts(n, window, overlap)
  PROVE  /\ s \in Nat /\ s < n
         /\ \A t \in Starts(n, window, overlap) : t < s => t + window < n
<1> DEFINE d == StepOf(window, overlap)
<1>1. d \in Nat /\ d > 0
  <2>1. StepOf(window, overlap) \in 1..window
    BY StepBounds
  <2> QED BY <2>1
<1>2. \A k \in 0..n : k * d \in Nat
  BY <1>1, TimesLess
<1>3. \A t \in Starts(n, window, overlap) : t \in {k * d : k \in 0..n}
  BY DEF Starts
<1>4. s < n /\ \A k \in 0..n : k * d < s => ~ReachesEnd(k * d, n, window)
  BY DEF Starts
<1> HIDE DEF d
<1>5. s \in Nat
  BY <1>2, <1>3
<1>6. ASSUME NEW t \in Starts(n, window, overlap), t < s PROVE t + window < n
  <2>1. PICK k \in 0..n : t = k * d
    BY <1>3
  <2> QED BY <1>2, <1>4, <1>6, <2>1 DEF ReachesEnd
<1> QED BY <1>4, <1>5, <1>6

(* If some multiple of the step reaches the end, a first one does.                      *)
LEMMA FirstToReach ==
  ASSUME NEW n \in Nat, NEW window \in Nat \ {0}, NEW d \in Nat, d > 0
  PROVE  \E m \in Nat : /\ m * d + window >= n
                        /\ \A k \in Nat : k < m => k * d + window < n
<1>1. CASE window >= n
  <2>1. 0 * d + window >= n
    BY <1>1
  <2> QED BY <2>1
<1>2. CASE window < n
  <2> DEFINE a == n - window - 1
             q == a \div d
  <2>1. a \in Nat
    BY <1>2
  <2>2. q \in Nat /\ q * d <= a /\ a < (q + 1) * d
    BY <2>1, Divide
  <2>3. (q + 1) * d \in Nat /\ q + 1 \in Nat
    BY <2>2, TimesLess
  <2>4. (q + 1) * d + window >= n
    BY <2>2, <2>3
  <2>5. ASSUME NEW k \in Nat, k < q + 1 PROVE k * d + window < n
    <3>1. k * d \in Nat /\ q * d \in Nat /\ k * d <= q * d
      BY <2>2, <2>5, TimesLess
    <3> QED BY <2>2, <3>1
  <2> QED BY <2>3, <2>4, <2>5
<1> QED BY <1>1, <1>2

(* A line of the text is in the window that starts at the last multiple before it, or,    *)
(* when an earlier window reaches the end, in the first that does.                      *)
LEMMA LineInWindow ==
  ASSUME NEW n \in Nat, NEW window \in Nat \ {0}, NEW overlap \in Nat, NEW l \in 1..n
  PROVE  \E s \in Starts(n, window, overlap) :
           s + 1 <= l /\ (ReachesEnd(s, n, window) \/ l <= s + window)
<1> DEFINE d == StepOf(window, overlap)
           i == (l - 1) \div d
<1>1. d \in Nat /\ d > 0 /\ d <= window
  <2>1. StepOf(window, overlap) \in 1..window
    BY StepBounds
  <2> QED BY <2>1
<1> HIDE DEF d
<1>2. i \in Nat /\ i * d <= l - 1 /\ l - 1 < (i + 1) * d
  BY <1>1, Divide
<1> HIDE DEF i
<1>3. i * d \in Nat /\ i <= i * d /\ (i + 1) * d = i * d + d
  <2>1. i * d \in Nat /\ i <= i * d
    BY <1>1, <1>2, TimesLess
  <2>2. (i + 1) * d = i * d + d
    BY <1>1, <1>2
  <2> QED BY <2>1, <2>2
<1>4. i \in 0..n /\ i * d < n /\ i * d + 1 <= l /\ l <= i * d + window
  BY <1>1, <1>2, <1>3
<1>5. CASE \A k \in 0..n : k * d < i * d => ~ReachesEnd(k * d, n, window)
  <2>1. i * d \in Starts(n, window, overlap)
    BY <1>4, <1>5 DEF Starts, d
  <2> QED BY <1>4, <2>1
<1>6. ASSUME NEW j \in 0..n, j * d < i * d, ReachesEnd(j * d, n, window)
      PROVE  \E s \in Starts(n, window, overlap) :
               s + 1 <= l /\ (ReachesEnd(s, n, window) \/ l <= s + window)
  <2>1. PICK m \in Nat : /\ m * d + window >= n
                         /\ \A k \in Nat : k < m => k * d + window < n
    BY <1>1, FirstToReach
  <2>2. j \in Nat /\ j * d \in Nat /\ m * d \in Nat
    BY <1>1, TimesLess
  <2>3. m <= j
    BY <1>6, <2>1, <2>2 DEF ReachesEnd
  <2>4. m * d <= j * d
    BY <1>1, <2>2, <2>3, TimesLess
  <2>5. m \in 0..n /\ m * d < n /\ m * d + 1 <= l
    BY <1>3, <1>4, <1>6, <2>2, <2>3, <2>4
  <2>6. \A k \in 0..n : k * d < m * d => ~ReachesEnd(k * d, n, window)
    <3> SUFFICES ASSUME NEW k \in 0..n, k * d < m * d PROVE ~ReachesEnd(k * d, n, window)
      OBVIOUS
    <3>1. k \in Nat /\ k * d \in Nat /\ k < m
      BY <1>1, TimesLess
    <3>2. k * d + window < n
      BY <2>1, <3>1
    <3> QED BY <3>1, <3>2 DEF ReachesEnd
  <2>7. m * d \in Starts(n, window, overlap)
    BY <2>5, <2>6 DEF Starts, d
  <2> QED BY <2>1, <2>2, <2>5, <2>7 DEF ReachesEnd
<1> QED BY <1>5, <1>6

(* For every text, window of at least one line and overlap that is not negative, no line    *)
(* is left out, no record is empty and none is part of another (_chunk_text).             *)
THEOREM EveryChunking ==
  \A n, overlap \in Nat, window \in Nat \ {0} : ChunksOf(n, window, overlap)
<1> SUFFICES ASSUME NEW n \in Nat, NEW overlap \in Nat, NEW window \in Nat \ {0}
             PROVE  ChunksOf(n, window, overlap)
  OBVIOUS
<1> DEFINE S == Starts(n, window, overlap)
           C == ChunkText("windowed", n, window, overlap)
<1>1. CASE n = 0
  BY <1>1 DEF ChunksOf, ChunkText, Covers, Proper
<1>2. CASE n # 0
  <2>1. C = {WindowAt(s, n, window) : s \in S}
    BY <1>2 DEF ChunkText
  <2>2. \A s \in S : s \in Nat /\ s < n
    BY StartIs
  <2>3. \A s, t \in S : t < s => t + window < n
    BY StartIs
  <2>4. Covers(C, n)
    <3> SUFFICES ASSUME NEW l \in 1..n PROVE \E c \in C : c.first <= l /\ l <= c.last
      BY DEF Covers
    <3>1. PICK s \in S : s + 1 <= l /\ (ReachesEnd(s, n, window) \/ l <= s + window)
      BY LineInWindow
    <3>2. WindowAt(s, n, window).first <= l /\ l <= WindowAt(s, n, window).last
      BY <3>1, <2>2 DEF WindowAt
    <3> QED BY <2>1, <3>2
  <2>5. \A c \in C : 1 <= c.first /\ c.first <= c.last /\ c.last <= n
    <3> SUFFICES ASSUME NEW s \in S
                 PROVE  LET c == WindowAt(s, n, window)
                        IN  1 <= c.first /\ c.first <= c.last /\ c.last <= n
      BY <2>1
    <3> QED BY <2>2 DEF WindowAt, ReachesEnd
  <2>6. \A c, e \in C : c.first <= e.first /\ e.last <= c.last => c = e
    <3> SUFFICES ASSUME NEW s \in S, NEW t \in S,
                        WindowAt(s, n, window).first <= WindowAt(t, n, window).first,
                        WindowAt(t, n, window).last <= WindowAt(s, n, window).last
                 PROVE  s = t
      BY <2>1
    <3>1. s <= t
      BY <2>2 DEF WindowAt
    <3>2. ~(s < t)
      BY <2>2, <2>3 DEF WindowAt, ReachesEnd
    <3> QED BY <2>2, <3>1, <3>2
  <2> HIDE DEF C
  <2>7. Proper(C, n)
    BY <2>5, <2>6 DEF Proper
  <2> QED BY <2>4, <2>7 DEF ChunksOf, C
<1> QED BY <1>1, <1>2

(* ChunksCover: the versions a run can write are well cut, however many there are.       *)
THEOREM VersionsAreWellCut == Spec => []ChunksCover
<1>1. TypeOK => ChunksCover
  <2>1. SUFFICES ASSUME TypeOK, NEW v \in 1..edits PROVE v \in WellCut
    BY DEF ChunksCover
  <2>2. v \in 1..MaxEdits
    BY <2>1, BoundsAssumption DEF TypeOK, Version
  <2>3. Lines[v] \in Nat
    BY <2>2 DEF Lines
  <2>4. \A window \in 1..5, overlap \in 0..6 : ChunksOf(Lines[v], window, overlap)
    BY <2>3, EveryChunking
  <2> QED BY <2>2, <2>4 DEF WellCut
<1> QED BY <1>1, TypesAreRight, PTL
=============================================================================
