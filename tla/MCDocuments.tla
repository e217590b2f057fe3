---------------------------- MODULE MCDocuments ----------------------------
(* Instances of Documents for TLC.                                         *)
EXTENDS Documents

CONSTANTS t1, t2, ga, gb

(* A text, a block that fits, one that is split, and an unknown block.     *)
MCDocs == {<<3>>, <<1, 2>>, <<3, 0>>, <<Unknown, 3>>}

MCKbs == {<<t1, ga>>, <<t1, gb>>, <<t2, ga>>}

ArticlePoint(t, g, n) ==
    [kind |-> "article", tenant |-> t, slug |-> g, src |-> NULL, page |-> n, score |-> n]
MCArticles == {ArticlePoint(t1, ga, 3), ArticlePoint(t1, ga, 6), ArticlePoint(t1, gb, 5),
               ArticlePoint(t1, gb, 1), ArticlePoint(t2, ga, 9)}

MCScore == [x \in Uploads \X Pages |-> IF x[2] = 1 THEN 4 ELSE 8]
=============================================================================
