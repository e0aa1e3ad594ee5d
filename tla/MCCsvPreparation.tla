---------------------------- MODULE MCCsvPreparation ----------------------------
EXTENDS CsvPreparation

===============================================================================
