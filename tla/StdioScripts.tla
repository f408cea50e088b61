---------------------------- MODULE StdioScripts ----------------------------
(***************************************************************************)
(* The two test drivers of assignment5 as the calls that they make.        *)
(*                                                                         *)
(* A call is its name and arguments, followed by what the driver asserts   *)
(* of its result, if anything.  "sees" stands for a look at the file with  *)
(* a second stream, "leave" for the end of a test that does not close its  *)
(* stream.  Where a driver asserts some of the bytes the call has all of   *)
(* them.  A character is a number: a digit itself, 'A' 10, 'a' 36.         *)
(***************************************************************************)
EXTENDS Integers, Sequences, SequencesExt

Digits(d, n)  == [k \in 1 .. n |-> (d + k - 1) % 10]
Letters(n)    == [k \in 1 .. n |-> 9 + k]              \* "ABCDEFG.."
LowerCase(n)  == [k \in 1 .. n |-> 35 + k]             \* "abcd.."
Z             == 35
End           == -1                                    \* EOF of fgetc, fputc

Fgetc(s) == [k \in DOMAIN s |-> <<"fgetc", s[k]>>]
Fputc(s) == [k \in DOMAIN s |-> <<"fputc", s[k]>>]

---------------------------------------------------------------------------
prepareFile == << <<"fopen", "w">>, <<"fwrite", 1, Digits(0, 60)>>, <<"fclose">> >>

(* The text it tries to write is refused whatever it is.                   *)
rModeTest ==
    << <<"fopen", "r">>, <<"fread", 5, 12, 12, Digits(0, 60)>>,
       <<"fseek", -5, "SEEK_CUR">>, <<"fwrite", 1, LowerCase(7), 0>> >>
    \o Fgetc(Digits(5, 5)) \o
    << <<"fgetc", End>>, <<"feof", TRUE>>, <<"fputc", Z, End>>,
       <<"fseek", -37, "SEEK_CUR">>, <<"fread", 1, 5, 5, Digits(3, 5)>>, <<"leave">> >>

wModeTest ==
    << <<"fopen", "w">>, <<"fread", 1, 100, 0, <<>>>>, <<"fwrite", 11, Letters(11), 1>>,
       <<"sees", <<>>>>, <<"fflush", 0>>, <<"sees", Letters(11)>>,
       <<"fseek", -5, "SEEK_CUR">>, <<"fputc", Z>>, <<"sees", Letters(11)>>,
       <<"fflush">>, <<"sees", [Letters(11) EXCEPT ![7] = Z]>>,
       <<"fgetc", End>>, <<"feof", FALSE>>, <<"leave">> >>

aModeTest ==
    LET all == Digits(0, 60) \o Letters(11)
    IN  << <<"fopen", "a">>, <<"fread", 1, 100, 0, <<>>>>, <<"fwrite", 1, Letters(11), 11>>,
           <<"sees", Digits(0, 60)>>, <<"fflush", 0>>, <<"sees", all>>,
           <<"fseek", -10, "SEEK_CUR">>, <<"fputc", Z>>, <<"sees", all>>,
           <<"fflush">>, <<"sees", Append(all, Z)>>,
           <<"fgetc", End>>, <<"feof", FALSE>>, <<"leave">> >>

rplusModeTest ==
    LET once  == Letters(4) \o Digits(4, 56)
        twice == Letters(4) \o Digits(4, 33) \o Letters(6) \o Digits(3, 17)
    IN  << <<"fopen", "r+">>, <<"fwrite", 1, Letters(4)>>,
           <<"fread", 1, 60, 56, Digits(4, 56)>>, <<"sees", once>>,
           <<"fseek", -30, "SEEK_CUR">>, <<"fread", 1, 7>>, <<"fwrite", 1, Letters(6)>>,
           <<"sees", once>>, <<"fflush">>, <<"sees", twice>>,
           <<"fgetc", 3>>, <<"fputc", 10, 10>>, <<"fgetc", 5>>, <<"feof", FALSE>>,
           <<"fread", 1, 15>>, <<"feof", TRUE>>, <<"leave">> >>

wplusModeTest ==
    LET over == Letters(5) \o Digits(5, 15)
    IN  << <<"fopen", "w+">>, <<"fwrite", 1, Digits(0, 20)>>, <<"sees", <<>>>>,
           <<"fflush">>, <<"sees", Digits(0, 20)>>,
           <<"fseek", 0, "SEEK_SET">>, <<"fwrite", 1, Letters(5)>>,
           <<"sees", Digits(0, 20)>>, <<"fread", 1, 60, 15, Digits(5, 15)>>,
           <<"fseek", -5, "SEEK_CUR">>, <<"fputc", 10>>, <<"fputc", 11>>,
           <<"sees", over>>, <<"fflush">>,
           <<"sees", [over EXCEPT ![16] = 10, ![17] = 11]>>, <<"fgetc", 7>>,
           <<"fseek", -2, "SEEK_CUR">>, <<"fread", 1, 100>>, <<"feof", TRUE>>, <<"leave">> >>

aplusModeTest ==
    << <<"fopen", "a+">>, <<"fread", 2, 10, 10, Digits(0, 20)>>,
       <<"fseek", 0, "SEEK_SET">>, <<"fwrite", 2, Letters(10), 5>>,
       <<"sees", Digits(0, 60)>>, <<"fflush">>, <<"sees", Digits(0, 60) \o Letters(10)>>,
       <<"fgetc", End>>, <<"feof", TRUE>>,
       <<"fseek", -50, "SEEK_CUR">>, <<"fputc", 0>>, <<"fflush">>,
       <<"fseek", 0, "SEEK_SET">>, <<"fseek", 0, "SEEK_END">>,
       <<"feof", FALSE>>, <<"fgetc", End>>, <<"feof", TRUE>>, <<"leave">> >>

(* The driver for a buffer of more than 100 bytes.                         *)
Yongrak ==
    prepareFile \o rModeTest \o wModeTest \o prepareFile \o aModeTest
    \o prepareFile \o rplusModeTest \o wplusModeTest \o prepareFile \o aplusModeTest

---------------------------------------------------------------------------
(* What most tests of the other driver begin with.                         *)
prepared(mode) ==
    << <<"fopen", "w">>, <<"fwrite", 1, Letters(6)>>, <<"fclose">>, <<"fopen", mode>> >>

test_fread == prepared("r") \o
    << <<"fread", 1, 4, 4, Letters(4)>>, <<"fread", 1, 5, 2, <<14, 15>>>>,
       <<"feof", TRUE>>, <<"fclose">> >>

test_fwrite ==
    << <<"fopen", "w">>, <<"fwrite", 1, Digits(1, 4), 4>>, <<"fwrite", 1, Digits(5, 5), 5>>,
       <<"sees", Digits(1, 8)>>, <<"fclose">>, <<"sees", Digits(1, 9)>> >>

test_read_write == prepared("r+") \o
    << <<"fread", 1, 1, 1, <<10>>>>, <<"fwrite", 1, <<5, 6>>, 2>>, <<"fflush">>,
       <<"fclose">>, <<"sees", <<10, 5, 6, 13, 14, 15>>>> >>

test_write_read == prepared("r+") \o
    << <<"fwrite", 1, <<5, 6, 7>>, 3>>,
       <<"fread", 1, 1, 1, <<13>>>>, <<"feof", FALSE>>,
       <<"fread", 1, 2, 2, <<14, 15>>>>, <<"feof", FALSE>>,
       <<"fread", 1, 1, 0, <<>>>>, <<"feof", TRUE>>,
       <<"fclose">>, <<"sees", <<5, 6, 7, 13, 14, 15>>>> >>

test_getc_putc == prepared("r+") \o << <<"fgetc", 10>> >> \o Fputc(LowerCase(2)) \o
    << <<"fflush">>, <<"fclose">>, <<"sees", <<10, 36, 37, 13, 14, 15>>>> >>

test_putc_getc == prepared("r+") \o Fputc(LowerCase(3)) \o
    << <<"fgetc", 13>>, <<"fclose">>, <<"sees", LowerCase(3) \o <<13, 14, 15>>>> >>

test_fgets == prepared("r") \o Fgetc(Letters(6)) \o
    << <<"feof", FALSE>>, <<"fgetc">>, <<"feof", TRUE>>, <<"fclose">> >>

test_fputs == << <<"fopen", "w">> >> \o Fputc(Digits(1, 3)) \o << <<"sees", <<>>>> >>
    \o Fputc(<<4>>) \o << <<"sees", Digits(1, 4)>> >>
    \o Fputc(<<5, 6, 7, 36, 9>>) \o
    << <<"sees", Append(Digits(1, 7), 36)>>, <<"fclose">>,
       <<"sees", Digits(1, 7) \o <<36, 9>>>> >>

test_fseek == prepared("r+") \o
    << <<"fread", 1, 1, 1, <<10>>>>, <<"fseek", -1, "SEEK_CUR">>,
       <<"fread", 1, 1, 1, <<10>>>>, <<"fclose">> >>

test_read_fseek_write == prepared("r+") \o
    << <<"fread", 1, 1, 1, <<10>>>>, <<"fseek", 1, "SEEK_CUR">>,
       <<"fwrite", 1, LowerCase(4), 4>>, <<"fflush">>,
       <<"sees", <<10, 11>> \o LowerCase(4)>>, <<"fclose">> >>

test_write_fseek_read == prepared("r+") \o
    << <<"fwrite", 1, LowerCase(4), 4>>, <<"fseek", 1, "SEEK_CUR">>,
       <<"fread", 1, 1, 1, <<15>>>>, <<"fclose">> >>

test_getc_fseek_putc == prepared("r+") \o
    << <<"fgetc", 10>>, <<"fseek", 1, "SEEK_CUR">> >> \o Fputc(LowerCase(3)) \o
    << <<"fflush">>, <<"fclose">> >>

test_putc_fseek_getc == prepared("r+") \o Fputc(LowerCase(3)) \o
    << <<"fflush">>, <<"fseek", -1, "SEEK_CUR">>, <<"fgetc", 38>>, <<"fclose">> >>

test_feof == prepared("r") \o
    << <<"fread", 1, 6, 6, Letters(6)>>, <<"feof", FALSE>>,
       <<"fread", 1, 2>>, <<"feof", TRUE>>, <<"fclose">> >>

(* Without its last four assertions: they are about bytes behind an array. *)
test_append_read_write == prepared("a+") \o
    << <<"fread", 1, 4, 4, Letters(4)>>, <<"fwrite", 1, Digits(1, 4), 4>>, <<"fflush">>,
       <<"sees">>, <<"fclose">> >>

(* The driver for a buffer of 4 bytes.                                     *)
Wonjun ==
    FlattenSeq(<<test_fread, test_fwrite, test_read_write, test_write_read,
        test_getc_putc, test_putc_getc, test_fgets, test_fputs, test_fseek,
        test_read_fseek_write, test_write_fseek_read, test_getc_fseek_putc,
        test_putc_fseek_getc, test_feof, test_append_read_write>>)
=============================================================================
