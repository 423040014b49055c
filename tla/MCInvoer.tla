------------------------------ MODULE MCInvoer ------------------------------
(* The inputs for Invoer.                                                  *)
EXTENDS Invoer

Tekst(n) == [lengte |-> n, kaal |-> n, tekens |-> n, heel |-> n]
Spaties == [lengte |-> 12, kaal |-> 0, tekens |-> 0, heel |-> 12]
Omringd == [lengte |-> 2001, kaal |-> 1990, tekens |-> 1990, heel |-> 2001]
VijfEmoji == [lengte |-> 10, kaal |-> 10, tekens |-> 5, heel |-> 5]

MCTeksten == {Geen, Onzin, Spaties, Omringd, VijfEmoji} \cup {Tekst(n) : n \in {0, 1, 9, 10, 2000, 2001}}
MCCodes == {Geen, "confirmed", "not_confirmed", "cannot_upload", "yes", "b", ""}
MCCodelijsten == {Geen, <<>>, <<"b">>, <<"b", "b">>, <<"b", "confirmed">>, <<"x">>}
MCGetallen == {Geen, Onzin, -EEN, -1, 0, 1, EEN \div 4, EEN \div 2, EEN, 2 * EEN, 5 * EEN, 100 * EEN, 101 * EEN}

Vraag(t) ==
    [answer_type |-> t, is_required |-> Geen, allows_upload |-> Geen, max_files |-> Geen,
     comment |-> Geen, options |-> Geen, min |-> Geen, max |-> Geen, decimals |-> Geen,
     format |-> Geen]

MetUpload(V) ==
    {[v EXCEPT !.allows_upload = u[1], !.max_files = u[2]] : v \in V,
        u \in {<<Geen, Geen>>, <<FALSE, 1>>, <<TRUE, 0>>, <<TRUE, 1>>, <<TRUE, 5>>, <<TRUE, 6>>, <<Onzin, 0>>}}

MetComment(V) == {[v EXCEPT !.comment = c] : v \in V, c \in {Geen, Onzin, "none", "required"}}

MetBereik(V, S) == {[v EXCEPT !.min = x, !.max = y] : v \in V, x \in S, y \in S}

MCVraagvormen ==
    MetUpload(MetComment({Vraag("confirmation")})) \cup MetUpload({Vraag("file_upload")})
    \cup {[Vraag(t) EXCEPT !.is_required = r] : t \in {"instruction", "yes_no", "onbekend"},
                                                r \in {Geen, FALSE, TRUE, Onzin}}
    \cup MetUpload({[Vraag("single_choice") EXCEPT !.options = o] :
                      o \in {Geen, <<>>, <<"b">>, <<"b", "confirmed">>, <<"b", "b">>, <<"b", "">>}})
    \cup MetBereik({[Vraag("multi_choice") EXCEPT !.options = o] : o \in {Geen, <<"b">>, <<"b", "confirmed">>}},
                   {Geen, Onzin, -EEN, 0, EEN \div 2, EEN, 2 * EEN, 5 * EEN})
    \cup MetComment(MetBereik({Vraag("open_text")}, {Geen, 0, EEN, 10 * EEN}))
    \cup MetBereik({Vraag("rating")}, {Geen, Onzin, EEN \div 2, 0, EEN, 5 * EEN})
    \cup MetBereik({[Vraag("number") EXCEPT !.format = f, !.decimals = d] :
                      f \in {Geen, "pct", "yen"}, d \in {Geen, 0, EEN, 7 * EEN}},
                   {Geen, -EEN, -1, 1, EEN \div 4, EEN \div 2, EEN, 101 * EEN})

MCTabellen == UNION {[1..n -> [1..2 -> UNION {[1..k -> {"a", "q", "lf", ";", "cr", "tab"}] : k \in 0..2}]] : n \in {1}}
              \cup [1..2 -> [1..2 -> {<<>>, <<"a">>, <<"q", ",", "q">>, <<"lf">>, <<"cr", " ">>}]]

MCCenten == {k * 37 : k \in 0..400} \cup {k * 100 : k \in 0..1200} \cup {123456700, 99999999, 100000000}

MCDatums == [dag : 0..32, maand : 0..14, jaar : {1900, 2000, 2024, 2025}]

MCLeveranciers ==
    UNION {[1..n -> [name : {"", "a", "b"}, kvk : {"", "1", "2"}, waarschuwing : {FALSE}]] : n \in 0..3}
    \cup [1..2 -> [name : {"", "a"}, kvk : {"", "1"}, waarschuwing : BOOLEAN]]

Dag(d, m, j) == [dag |-> d, maand |-> m, jaar |-> j]

MCContractrijen ==
    LET dagen == {B!GeenDatum, Dag(31, 12, 2024), Dag(1, 1, 2025), Dag(2, 1, 2025), Dag(1, 2, 2025), Dag(31, 2, 2025)} IN
    [contract : {"", "c"}, vendor : {"", "v"}, coupa : {"", "1"}, start : dagen, eind : dagen]

MCKoprijen ==
    UNION {[1..n -> [veld : {"email", "naam"}, nr : {0, 2, 3}]] : n \in 1..4}

MCVandaag == [jaar |-> 2025, maand |-> 3, dag |-> 1]

MCTekstwaarden ==
    {F!Tekst(n, b, F!Vrij) : n \in {0, 1, 9, 10, 100, 101, 200, 201, 299, 300, 301, 499, 500, 501, 2000, 2001, 4000, 4001},
                             b \in {0, 2}}

MCAdressen ==
    {F!Tekst(a[1] + 1 + FoldSeq(+, 0, a[2]) + Len(a[2]) - 1, b, F!Adres(a[1], a[2], e)) :
        a \in {<<4, <<5, 2>>>>, <<0, <<5, 2>>>>, <<4, <<5>>>>, <<4, <<5, 1>>>>, <<4, <<5, 0, 2>>>>,
               <<4, <<5, 0>>>>, <<4, <<0, 2>>>>, <<95, <<5, 2>>>>, <<64, <<187, 2>>>>, <<64, <<186, 2>>>>,
               <<64, <<255, 2>>>>},
        b \in {0, 2}, e \in {"letter", "cijfer", "-"}}

MCCijfers ==
    {F!Tekst(c[1] + c[2] + (IF c[3] > 0 THEN c[3] + 1 ELSE 0), b, F!Cijfers(c[1], c[2], c[3], c[4], c[5])) :
        b \in {0, 2},
        c \in {<<1, 0, 0, 0, FALSE>>, <<2, 0, 0, 30, FALSE>>, <<3, 0, 0, 30, TRUE>>, <<3, 0, 0, 181, FALSE>>,
               <<8, 0, 0, 12345678, FALSE>>, <<8, 3, 0, 12345678, FALSE>>, <<8, 13, 0, 12345678, FALSE>>,
               <<7, 0, 0, 1234567, FALSE>>, <<6, 0, 2, 123456, FALSE>>, <<6, 0, 3, 123456, FALSE>>,
               <<13, 0, 2, 0, FALSE>>, <<14, 0, 0, 0, FALSE>>}}

MCDatumteksten ==
    {F!Tekst(10, b, F!Datum(d[1], d[2], d[3])) : b \in {0, 2},
        d \in {<<2025, 2, 28>>, <<2025, 2, 30>>, <<2025, 3, 1>>, <<2025, 3, 2>>, <<2024, 12, 31>>,
               <<2025, 13, 1>>, <<2025, 1, 32>>, <<2025, 0, 1>>}}

Id(i, h) == F!Tekst(36, 0, F!Uuid(i, h))
CodeTekst(c, b) == F!Tekst(4, b, F!Code(c))
Link(t, id) == [soort |-> "link", type |-> t, id |-> id]

MCLijsten ==
    {F!Lijst(s) : s \in {<<>>, <<Id(1, FALSE)>>, <<Id(1, FALSE), Id(2, FALSE)>>, <<Id(1, FALSE), Id(1, FALSE)>>,
        <<Id(1, FALSE), Id(1, TRUE)>>, <<Id(1, FALSE), Onzin>>, <<CodeTekst(1, 0)>>,
        <<CodeTekst(1, 0), CodeTekst(1, 0)>>, <<CodeTekst(1, 0), CodeTekst(1, 2)>>,
        <<CodeTekst(1, 0), F!Tekst(0, 2, F!Vrij)>>, <<Link("contract", Id(1, FALSE))>>,
        <<Link("vendor", Id(1, FALSE))>>, <<Link("contract", Onzin)>>,
        [i \in 1..200 |-> Id(i, FALSE)], [i \in 1..201 |-> Id(i, FALSE)]}}

MCWoorden ==
    {F!Tekst(6, b, F!Woord(w)) : b \in {0, 2},
        w \in {"ja", "active", "toString", "internal_review", "goed", "niet_goed", "vastgesteld", "admin", "support"}}

MCWaarden ==
    {Geen, Onzin, F!Nul, F!Ja(TRUE), F!Ja(FALSE)} \cup MCTekstwaarden \cup MCAdressen \cup MCCijfers
    \cup MCDatumteksten \cup MCLijsten \cup MCWoorden
    \cup {Id(1, FALSE), Id(1, TRUE), F!Tekst(36, 2, F!Uuid(1, FALSE)), CodeTekst(1, 0), CodeTekst(1, 2),
          F!Tekst(51, 0, F!Code(1)), F!Tekst(3, 0, F!Macht(100))}
    \cup {F!Getal(n, h, FALSE) : n \in {-1, 0, 1, 30, 180, 181}, h \in BOOLEAN} \cup {F!Getal(0, TRUE, TRUE)}

MCUploads ==
    [grootte : {0, 1, 5242880, 5242881, 10485760, 10485761},
     bytes : {"pdf", "png", "msg", "zip", "eml", "anders"},
     beweerd : {Geen, "application/octet-stream"} \cup F!ALLE_BEKENDE_TYPES]

MCBestandsnamen == UNION {[1..n -> {"a", "/", "\\", "ctl", " "}] : n \in 0..5}
=============================================================================
