------------------------------ MODULE Depreciation ------------------------------
(****************************************************************************)
(* intelligence/depreciation_jp.py: how long a used building is written     *)
(* off, and the tax that saves each year.  Ages and lives are whole years;  *)
(* residual lives are rounded down, as int() does with positive numbers.    *)
(****************************************************************************)
EXTENDS Integers

\* STATUTORY_LIFE_YEARS: wood, light steel, steel, (steel-)reinforced concrete.
StatutoryLives == {22, 27, 34, 47}

ResidualLifeUsed(life, age) ==
    LET residual == IF age >= life THEN life \div 5
                    ELSE (5 * (life - age) + age) \div 5
    IN  IF residual < 2 THEN 2 ELSE residual

\* The years of the first `horizon` in which something is written off.
ShieldedYears(residual, horizon) == IF horizon < residual THEN horizon ELSE residual
================================================================================
