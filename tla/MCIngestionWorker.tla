-------------------------- MODULE MCIngestionWorker --------------------------
EXTENDS IngestionWorker, TLC

CONSTANTS m1, m2, m3, i1, i2, paper, figure, long, d1, d2, x1, x2

MCMails == {m1, m2}
MCThreeMails == {m1, m2, m3}
MCSymmetry == Permutations(MCMails)
MCMids  == {i1, i2}
MCNames == {paper, figure, long}
MCLong  == {long}
MCData  == {d1, d2}

\* Two idempotency keys begin with the same digits.
MCPrefixes == {x1, x2}
MCPrefix ==
    [k \in (MCMids \cup {NoMid}) \X (MCNames \cup {NoAttachment}) |->
        IF k \in {<<i1, paper>>, <<i2, figure>>} THEN x1 ELSE x2]

F(name, kind, data) == [name |-> name, kind |-> kind, data |-> data]

Mail(mid, parent, files, from, flaw) ==
    [mid |-> mid, parent |-> parent, files |-> files, from |-> from, flaw |-> flaw]

\* Two files, a reply whose key begins like theirs and whose file has the name of one
\* of them, a mail with a file of that name under another key ...
Good ==
    {Mail(i1, NoMid, <<F(paper, "clean", d1), F(figure, "clean", d2)>>, "bare", "none"),
     Mail(i2, i2, <<F(figure, "oversize", d1), F(paper, "clean", d2)>>, "bare", "none"),
     Mail(NoMid, NoMid, <<F(paper, "clean", d2)>>, "bare", "none")}

\* ... and mails that something is wrong with.
Bad ==
    {Mail(i2, NoMid, <<F(figure, "oversize", d1), F(paper, "infected", d2)>>, "bare", "none"),
     Mail(i2, NoMid, <<F(paper, "copy", d2)>>, "bare", "none"),
     Mail(i1, i2, <<F(paper, "clean", d2)>>, "bare", "header"),
     Mail(i2, NoMid, <<>>, "bare", "huge"),
     Mail(i2, NoMid, <<>>, "bare", "unparsable"),
     Mail(i2, NoMid, <<>>, "bare", "short"),
     Mail(i2, NoMid, <<>>, "named", "none")}

MCContents == Good \cup Bad

\* A good mail, one that stays unread in silence, an infected one, one that ends
\* every batch.
MCFewContents ==
    {Mail(i1, NoMid, <<>>, "bare", "none"),
     Mail(i2, NoMid, <<F(paper, "copy", d2)>>, "bare", "none"),
     Mail(NoMid, NoMid, <<F(paper, "infected", d2)>>, "bare", "none"),
     Mail(i2, NoMid, <<F(long, "infected", d2)>>, "bare", "none")}
=============================================================================
